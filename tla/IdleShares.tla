---------------------------- MODULE IdleShares ----------------------------
(***************************************************************************)
(* The feeder's budgets: every tick each armed tenant gets its base share  *)
(* of the pool and, with KRAKEN_REDIST=1, a part of what nobody is entitled*)
(* to (pool - sum of the shares), if it has shown that it uses up what it  *)
(* is given.  budgets and _redistribute run in the feeder thread, under the*)
(* lock; the HTTP server's thread changes the tenants between two ticks.   *)
(*                                                                         *)
(* Shares are counted in units of which a pool has Pool; ratio is the      *)
(* effective one, weight included.  The reconstruction of a tenant's       *)
(* balance (granted - charged, clamped) is abstracted to what it shows when*)
(* it is read: "wants" (balance within the allowance), "leaves", or "mute" *)
(* (the log cannot be read).  Times are in ticks; ages stop counting at the*)
(* value beyond which nothing is compared.                                 *)
(***************************************************************************)
EXTENDS Naturals, Functions, PyDict

CONSTANTS
    Tenants,
    Pool,           \* a tick's pool
    Ratios,         \* effective shares, in units
    EvalTicks,      \* REDIST_EVAL_TICKS
    Hold,           \* REDIST_HOLD
    Dwell           \* REDIST_DWELL, in evaluation periods

ASSUME PoolAssumption == Pool \in Nat \ {0} /\ Ratios \subseteq Nat \ {0}
ASSUME RedistAssumption == {EvalTicks, Hold, Dwell} \subseteq Nat \ {0}

VARIABLES
    ratio,          \* registered tenant -> effective ratio
    armed,          \* registered tenants whose gate is on
    anchored,       \* tenants with an entry in _redist_win
    state,          \* _redist_state
    extra,          \* _redist_extra
    evalAge,        \* ticks since the last evaluation
    bud,            \* what the last call of budgets returned
    grown,          \* history: a share was added or raised since the last evaluation
    wanted,         \* history: judgements running that found the tenant wanting
    fed             \* history: ticks since the tenant last became hungry

vars == <<ratio, armed, anchored, state, extra, evalAge, bud, grown, wanted, fed>>

LongAgo == Dwell * EvalTicks
AtMost(n, max) == IF n > max THEN max ELSE n

\* streak: contrary judgements running; since: age of the last change.
JudgementState == [hungry : BOOLEAN, streak : 0 .. Hold, since : 0 .. LongAgo]
Fresh == [hungry |-> FALSE, streak |-> 0, since |-> LongAgo]

TypeOK ==
    /\ DOMAIN ratio \subseteq Tenants
    /\ \A t \in DOMAIN ratio : ratio[t] \in Ratios
    /\ armed \subseteq DOMAIN ratio
    /\ anchored \subseteq Tenants
    /\ \A t \in DOMAIN state : t \in Tenants /\ state[t] \in JudgementState
    /\ \A t \in DOMAIN extra : extra[t] \in 0 .. Pool
    /\ evalAge \in 0 .. EvalTicks
    /\ DOMAIN bud \subseteq Tenants
    /\ \A t \in DOMAIN bud : bud[t] \in Nat \ {0}
    /\ grown \in BOOLEAN
    /\ wanted \in [Tenants -> 0 .. Hold]
    /\ fed \in [Tenants -> 0 .. LongAgo]

Init ==
    /\ ratio = EmptyDict /\ armed = {}
    /\ anchored = {} /\ state = EmptyDict /\ extra = EmptyDict
    /\ evalAge = EvalTicks
    /\ bud = EmptyDict
    /\ grown = FALSE
    /\ wanted = [t \in Tenants |-> 0]
    /\ fed = [t \in Tenants |-> LongAgo]

---------------------------------------------------------------------------
(* HTTP *)

\* A registration, also of a tenant that is there, begins unarmed; what is known
\* of its appetite stays.
Register(t, r) ==
    /\ ratio' = Put(ratio, {t}, r)
    /\ armed' = armed \ {t}
    /\ UNCHANGED <<anchored, state, extra, evalAge, bud, grown, wanted, fed>>

\* Variant of Deregister: without _redist_forget.
DeregisterOnly(t) ==
    /\ t \in DOMAIN ratio
    /\ ratio' = Drop(ratio, {t})
    /\ armed' = armed \ {t}
    /\ wanted' = [wanted EXCEPT ![t] = 0]
    /\ UNCHANGED <<anchored, state, extra, evalAge, bud, grown, fed>>

\* deregister and _redist_forget.
Deregister(t) ==
    /\ t \in DOMAIN ratio
    /\ ratio' = Drop(ratio, {t})
    /\ armed' = armed \ {t}
    /\ state' = Drop(state, {t})
    /\ anchored' = anchored \ {t}
    /\ extra' = Drop(extra, {t})
    /\ wanted' = [wanted EXCEPT ![t] = 0]
    /\ UNCHANGED <<evalAge, bud, grown, fed>>

Arm(t) ==
    /\ t \in DOMAIN ratio
    /\ armed' = armed \cup {t}
    /\ grown' = (grown \/ t \notin armed)
    /\ UNCHANGED <<ratio, anchored, state, extra, evalAge, bud, wanted, fed>>

Release(t) ==
    /\ armed' = armed \ {t}
    /\ UNCHANGED <<ratio, anchored, state, extra, evalAge, bud, grown, wanted, fed>>

\* set_ratios, set_weights or the end of a lease.
SetRatio(t, r) ==
    /\ t \in DOMAIN ratio
    /\ ratio' = [ratio EXCEPT ![t] = r]
    /\ grown' = (grown \/ (t \in armed /\ r > ratio[t]))
    /\ UNCHANGED <<armed, anchored, state, extra, evalAge, bud, wanted, fed>>

---------------------------------------------------------------------------
(* The feeder's tick *)

ArmedSum == SumFunction([t \in armed |-> ratio[t]])

\* Variant of Base: rounded down, whatever comes of it.
BaseRounded ==
    [t \in armed |-> IF ArmedSum <= Pool THEN ratio[t] ELSE (Pool * ratio[t]) \div ArmedSum]

\* A share each while they fit, else the pool in proportion, nobody with nothing.
Base ==
    [t \in armed |-> IF ArmedSum <= Pool THEN ratio[t]
                     ELSE LET part == (Pool * ratio[t]) \div ArmedSum
                          IN IF part < 1 THEN 1 ELSE part]

\* The states as they are d ticks later, with one for every tenant judged.
Aged(d) ==
    [t \in DOMAIN state \cup armed |->
        IF t \in DOMAIN state
        THEN [state[t] EXCEPT !.since = AtMost(@ + d, LongAgo)]
        ELSE Fresh]

\* Variant of Judged: a change is not dated.
JudgedUndated(s, wants) ==
    IF wants = s.hungry THEN [s EXCEPT !.streak = 0]
    ELSE IF s.streak + 1 >= Hold /\ s.since >= LongAgo
         THEN [s EXCEPT !.hungry = wants, !.streak = 0]
         ELSE [s EXCEPT !.streak = AtMost(@ + 1, Hold)]

\* One judgement: Hold contrary ones running change the state, if the last change
\* is Dwell periods old.
Judged(s, wants) ==
    IF wants = s.hungry THEN [s EXCEPT !.streak = 0]
    ELSE IF s.streak + 1 >= Hold /\ s.since >= LongAgo
         THEN [hungry |-> wants, streak |-> 0, since |-> 0]
         ELSE [s EXCEPT !.streak = AtMost(@ + 1, Hold)]

\* A tenant that cannot be read is not judged and starts over; one without an
\* anchor gets its anchor.
Evaluated(t, s, shown) ==
    IF shown = "mute" THEN [s EXCEPT !.hungry = FALSE, !.streak = 0]
    ELSE IF t \notin anchored THEN s
    ELSE Judged(s, shown = "wants")

\* Readable and hungry, judged this time: those the idle share goes to.
Wanting(st, shows) == {t \in armed \cap anchored : shows[t] # "mute" /\ st[t].hungry}

\* Variant of ExtraFor: each of them gets all of it.
ExtraForEach(want) == [t \in want |-> Pool - ArmedSum]

\* The idle share, in proportion to the shares of those that want it.
ExtraFor(want) ==
    LET all == SumFunction([t \in want |-> ratio[t]])
    IN [t \in want |-> ((Pool - ArmedSum) * ratio[t]) \div all]

Idle == ArmedSum < Pool
Due(d) == evalAge + d >= EvalTicks

Older(d) == [t \in DOMAIN state |-> Aged(d)[t]]

Hungry(t) == t \in DOMAIN state /\ state[t].hungry
TurnsHungry(t) == Hungry(t)' /\ ~Hungry(t)

\* budgets without an evaluation: nobody armed, nothing idle, or too early.
Tick(d) ==
    /\ armed = {} \/ ~Idle \/ ~Due(d)
    /\ bud' = [t \in armed |->
                 IF Idle /\ t \in DOMAIN extra THEN Base[t] + extra[t] ELSE Base[t]]
    /\ state' = Older(d)
    /\ evalAge' = AtMost(evalAge + d, EvalTicks)
    /\ fed' = [t \in Tenants |-> AtMost(fed[t] + d, LongAgo)]
    /\ UNCHANGED <<ratio, armed, anchored, extra, grown, wanted>>

\* budgets with an evaluation.
Evaluate(d, shows) ==
    /\ armed # {} /\ Idle /\ Due(d)
    /\ evalAge' = 0 /\ grown' = FALSE
    /\ state' = [t \in DOMAIN Aged(d) |-> IF t \in armed THEN Evaluated(t, Aged(d)[t], shows[t]) ELSE Aged(d)[t]]
    /\ anchored' = (anchored \ armed) \cup {t \in armed : shows[t] # "mute"}
    /\ extra' = ExtraFor(Wanting(state', shows))
    /\ bud' = [t \in armed |-> IF t \in DOMAIN extra' THEN Base[t] + extra'[t] ELSE Base[t]]
    /\ wanted' = [t \in Tenants |->
                    IF t \notin armed THEN wanted[t]
                    ELSE IF shows[t] # "wants" THEN 0
                    ELSE IF t \in anchored THEN AtMost(wanted[t] + 1, Hold) ELSE wanted[t]]
    /\ fed' = [t \in Tenants |-> IF TurnsHungry(t) THEN 0 ELSE AtMost(fed[t] + d, LongAgo)]
    /\ UNCHANGED <<ratio, armed>>

\* A late tick counts twice.
Budgets ==
    \E d \in {1, 2} :
        \/ Tick(d)
        \/ \E shows \in [armed -> {"wants", "leaves", "mute"}] : Evaluate(d, shows)

Next ==
    \/ \E t \in Tenants, r \in Ratios : Register(t, r) \/ SetRatio(t, r)
    \/ \E t \in Tenants : Deregister(t) \/ Arm(t) \/ Release(t)
    \/ Budgets

Spec == Init /\ [][Next]_vars

---------------------------------------------------------------------------
(* Properties *)

\* The envelope, as far as the code keeps it: the budgets of a tick fit the pool, with
\* the extras that are paid on from the last evaluation, whoever left, was released
\* or cut since.  Only a share that was added or raised since lets them leave it.
ExtrasFit == ~grown => SumFunction(bud) <= Pool

\* The extra has to be earned: a tenant becomes hungry after Hold judgements running
\* that it uses up its share, all of them its own (not those of the tenant that had
\* its name before).
HungerIsEarned ==
    [][\A t \in Tenants : TurnsHungry(t) => wanted'[t] = Hold]_vars

\* No swinging: a tenant that became hungry is not judged sated before Dwell periods
\* have passed; only one that cannot be read, or leaves, loses the extra earlier.
NoSwing ==
    [][\A t \in Tenants :
        Hungry(t) /\ ~Hungry(t)' /\ t \in anchored'
            => fed'[t] = LongAgo]_vars

=============================================================================
