----------------------------- MODULE FeederLink -----------------------------
(***************************************************************************)
(* What the feeder tells the tenants' processes, one datagram at a time:   *)
(* arm and release set the flag in the table under the lock and send       *)
(* outside it, the feeder thread sends the budgets of a pass after it has  *)
(* computed them.  Callers are the HTTP thread and the threads beside it   *)
(* (swap, booster), so two of them can be about the same tenant at once.   *)
(*                                                                         *)
(* A datagram to a socket keeps its order and has its effect at once; one  *)
(* that finds nobody listening is gone, one to a process that listens can  *)
(* fail as well (OSError), and _send's caller does not look.  A budget that*)
(* comes to nothing is one tick's, and is left out.                        *)
(* What libbless makes of them (time_mode 1 and a credit that is not       *)
(* unlimited close the gate) is external.  urgent_limit goes with          *)
(* time_credit 0; amounts, statistics and peer_idle are left out, and the  *)
(* shares are in RatioLease and IdleShares.                                *)
(***************************************************************************)
EXTENDS Naturals

CONSTANTS
    Tenants,
    Armable,        \* bound: the tenants callers arm and release
    Threads,        \* that call the feeder, besides its own
    Http,           \* the one of them that serves HTTP
    Nobody

ASSUME LinkAssumption == Armable \subseteq Tenants /\ Nobody \notin Tenants /\ Http \in Threads

VARIABLES
    feeder,         \* names with an entry in _tenants
    armed,          \* of those, the ones whose flag is set
    op,             \* op[c]: what thread c has still to send, and to whom
    todo,           \* the pass: names with a budget that is not sent yet
    sending,        \* the name whose socket the feeder thread has looked up
    up,             \* processes that listen
    timed,          \* of those, the ones with time_mode 1
    limited,        \* and the ones whose credit is limited
    got,            \* history: who got a budget in this pass
    stray,          \* history: budgets that came since the flag went down
    undisturbed     \* history: the last arm or release had the tenant for itself and
                    \* none of its datagrams failed

table == <<feeder, armed>>
pass == <<todo, sending, got>>
process == <<up, timed, limited>>
link == <<table, op, pass, process, stray, undisturbed>>

Idle == [at |-> "idle", t |-> Nobody]
Sends == {"mode", "credit", "open"}

LinkTypeOK ==
    /\ feeder \subseteq Tenants /\ armed \subseteq feeder \cap Armable
    /\ op \in [Threads -> {Idle} \cup [at : Sends, t : Armable]]
    /\ todo \subseteq Armable /\ sending \in Armable \cup {Nobody}
    /\ up \subseteq Tenants /\ timed \subseteq up /\ limited \subseteq up
    /\ got \subseteq Armable
    /\ stray \in [Armable -> 0 .. 2]
    /\ undisturbed \subseteq Armable

LinkInit ==
    /\ feeder = {} /\ armed = {}
    /\ op = [c \in Threads |-> Idle]
    /\ todo = {} /\ sending = Nobody /\ got = {}
    /\ up = {} /\ timed = {} /\ limited = {}
    /\ stray = [t \in Armable |-> 0]
    /\ undisturbed = {}

---------------------------------------------------------------------------
(* The processes *)

Starts(t) ==
    /\ t \notin up
    /\ up' = up \cup {t}
    /\ undisturbed' = undisturbed \ {t}
    /\ UNCHANGED <<table, op, pass, timed, limited, stray>>

Dies(t) ==
    /\ t \in up
    /\ up' = up \ {t} /\ timed' = timed \ {t} /\ limited' = limited \ {t}
    /\ undisturbed' = undisturbed \ {t}
    /\ UNCHANGED <<table, op, pass, stray>>

Closed(t) == t \in timed \cap limited

\* _send: the datagram reaches t, or nobody.
Reaches(set, t) == IF t \in up THEN set \cup {t} ELSE set

---------------------------------------------------------------------------
(* The table *)

\* A registration starts anew, with the gate's flag down; nothing is sent.
Register(t) ==
    /\ feeder' = feeder \cup {t}
    /\ armed' = armed \ {t}
    /\ undisturbed' = undisturbed \ {t}
    /\ UNCHANGED <<op, pass, process, stray>>

Deregister(t) ==
    /\ feeder' = feeder \ {t}
    /\ armed' = armed \ {t}
    /\ undisturbed' = undisturbed \ {t}
    /\ UNCHANGED <<op, pass, process, stray>>

\* Another thread is about t.
Taken(c, t) == \E d \in Threads \ {c} : op[d].t = t

\* History: from here on the call has t for itself, unless it has not.
Begins(c, t) ==
    undisturbed' = IF Taken(c, t) \/ t \notin up THEN undisturbed \ {t} ELSE undisturbed \cup {t}

\* arm, up to the end of the lock; KeyError if there is no entry.
Arm(c, t) ==
    /\ op[c] = Idle /\ t \in feeder
    /\ armed' = armed \cup {t}
    /\ op' = [op EXCEPT ![c] = [at |-> "mode", t |-> t]]
    /\ stray' = [stray EXCEPT ![t] = 0]
    /\ Begins(c, t)
    /\ UNCHANGED <<feeder, pass, process>>

\* Variant of Release: the flag stays.
ReleaseKeepingFlag(c, t) ==
    /\ op[c] = Idle /\ t \in feeder
    /\ op' = [op EXCEPT ![c] = [at |-> "open", t |-> t]]
    /\ Begins(c, t)
    /\ UNCHANGED <<table, pass, process, stray>>

\* release, up to the end of the lock; passes over a name without entry.
Release(c, t) ==
    /\ op[c] = Idle /\ t \in feeder
    /\ armed' = armed \ {t}
    /\ op' = [op EXCEPT ![c] = [at |-> "open", t |-> t]]
    /\ Begins(c, t)
    /\ UNCHANGED <<feeder, pass, process, stray>>

\* time_mode 1
SendMode(c) ==
    /\ op[c].at = "mode"
    /\ timed' = Reaches(timed, op[c].t)
    /\ op' = [op EXCEPT ![c].at = "credit"]
    /\ UNCHANGED <<table, pass, up, limited, stray, undisturbed>>

\* time_credit 0
SendCredit(c) ==
    /\ op[c].at = "credit"
    /\ limited' = Reaches(limited, op[c].t)
    /\ op' = [op EXCEPT ![c] = Idle]
    /\ UNCHANGED <<table, pass, up, timed, stray, undisturbed>>

\* time_credit -1
SendOpen(c) ==
    /\ op[c].at = "open"
    /\ limited' = limited \ {op[c].t}
    /\ op' = [op EXCEPT ![c] = Idle]
    /\ UNCHANGED <<table, pass, up, timed, stray, undisturbed>>

\* One of these fails though the process lives: the call goes on.
SendFails(c) ==
    /\ op[c].at \in Sends /\ op[c].t \in up
    /\ op' = [op EXCEPT ![c] = IF @.at = "mode" THEN [@ EXCEPT !.at = "credit"] ELSE Idle]
    /\ undisturbed' = undisturbed \ {op[c].t}
    /\ UNCHANGED <<table, pass, process, stray>>

---------------------------------------------------------------------------
(* The feeder thread *)

\* Variant of BeginPass: of all that are registered.
BeginPassForAll ==
    /\ todo = {} /\ sending = Nobody
    /\ todo' = feeder \cap Armable
    /\ got' = {}
    /\ UNCHANGED <<table, op, sending, process, stray, undisturbed>>

\* budgets(): of all that are armed now.
BeginPass ==
    /\ todo = {} /\ sending = Nobody
    /\ todo' = armed
    /\ got' = {}
    /\ UNCHANGED <<table, op, sending, process, stray, undisturbed>>

\* Variant of Lookup: a name that has gone raises, and the thread ends.
LookupRaising(t) ==
    /\ t \in todo /\ sending = Nobody
    /\ todo' = IF t \in feeder THEN todo \ {t} ELSE {Nobody}
    /\ sending' = IF t \in feeder THEN t ELSE Nobody
    /\ UNCHANGED <<table, op, got, process, stray, undisturbed>>

\* The socket is looked up under the lock; a name that has gone has none.
Lookup(t) ==
    /\ t \in todo /\ sending = Nobody
    /\ todo' = todo \ {t}
    /\ sending' = IF t \in feeder THEN t ELSE Nobody
    /\ UNCHANGED <<table, op, got, process, stray, undisturbed>>

AtMostTwo(n) == IF n > 2 THEN 2 ELSE n

\* time_add
SendBudget ==
    /\ sending # Nobody
    /\ sending' = Nobody
    /\ got' = Reaches(got, sending)
    /\ stray' = IF sending \in up /\ sending \notin armed
                THEN [stray EXCEPT ![sending] = AtMostTwo(@ + 1)] ELSE stray
    /\ UNCHANGED <<table, op, todo, process, undisturbed>>

Feeds == BeginPass \/ (\E t \in Armable : Lookup(t)) \/ SendBudget

---------------------------------------------------------------------------
(* The controller as a whole *)

\* It is killed and started again: the tables are empty, the processes as they were.
Restarts ==
    /\ feeder' = {} /\ armed' = {}
    /\ op' = [c \in Threads |-> Idle]
    /\ todo' = {} /\ sending' = Nobody /\ got' = {}
    /\ undisturbed' = {}
    /\ UNCHANGED <<process, stray>>

Sending(c) == SendMode(c) \/ SendCredit(c) \/ SendOpen(c) \/ SendFails(c)

\* A thread begins something; the HTTP thread also registers.  Entries are removed
\* by the HTTP thread and by the booster, whose threads are not among these.
Calling(c) == \E t \in Armable : Arm(c, t) \/ Release(c, t)
Registering == op[Http] = Idle /\ \E t \in Tenants : Register(t)
Removing == \E t \in Tenants : Deregister(t)

LinkNext ==
    \/ \E t \in Tenants : Starts(t) \/ Dies(t)
    \/ \E c \in Threads : Calling(c) \/ Sending(c)
    \/ Registering \/ Removing
    \/ Feeds
    \/ Restarts

LinkSpec == LinkInit /\ [][LinkNext]_link

---------------------------------------------------------------------------
(* Properties *)

\* One arm or release that nobody interferes with and whose datagrams arrive is
\* enough, whatever crossed, got lost or was forgotten before: the process's gate is
\* closed if and only if the flag is set, until the process, the entry or the
\* controller is another one or the next call begins.  (Calls that cross, or one whose
\* datagram fails, can leave them apart: this says what mends it.)  A gate that is
\* closed without the flag starves, since only armed tenants get budgets.
GateFollowsFlag ==
    \A t \in undisturbed :
        (\A c \in Threads : op[c].t # t) => (Closed(t) <=> t \in armed)

\* Once the flag is down at most one more budget comes, of the pass that was under
\* way; so a tenant that has been released is not fed on behind the table's back.
OneStrayBudget == \A t \in Armable : stray[t] <= 1

\* A tenant that stays armed and listens, and whose socket takes what is sent, gets its
\* budget again and again, whoever else comes, goes or is released in the middle of a
\* pass.
ArmedIsFed ==
    \A t \in Armable : <>[](t \in armed \cap up) => []<>(t \in got)

=============================================================================
