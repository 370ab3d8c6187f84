---------------------------- MODULE ClosedLoop ----------------------------
(***************************************************************************)
(* The interference loop (controller/interference/closed_loop.py, main):   *)
(* it watches the latency of a protected workload (the victim) and lowers  *)
(* the GPU-time share of one batch workload (the aggressor) down a ladder, *)
(* then narrows its SM mask, then asks for it to be moved elsewhere; with  *)
(* the feeder's side of the aggressor (armed, share under lease), which    *)
(* RatioLease details, because the loop's promises are about both.         *)
(*                                                                         *)
(* One round of "while True" is a sequence of actions, with pc the place   *)
(* in the loop's body:                                                     *)
(*   asleep --Elapse--> awake --Observe--> seen --Calibrate--> judged      *)
(*                                                        --...--> asleep  *)
(* Instants (last_change, above_since, ...) are kept as ages: every test   *)
(* in the code has the form now - x >= T, so an age may stop growing at    *)
(* the largest T it is compared with.  Absent is an unset instant (None).  *)
(*                                                                         *)
(* The victim's p95 is abstracted to its place among the two thresholds:   *)
(* "high" (r > k_intervene), "mid", "low" (r < k_release).                 *)
(***************************************************************************)
EXTENDS Integers, FiniteSets

CONSTANTS
    Tenants,        \* device IDs an aggressor can have
    Nobody,         \* last_agg = None
    Absent,         \* an instant that is None
    MaxLevel,       \* len(steps) - 1: the last rung of the ladder
    SafeLevel,      \* --safe-level
    InterveneHold,  \* --intervene-hold
    ReleaseHold,    \* --release-hold
    MinDwell,       \* --min-dwell
    SpaceDwell,     \* SPACE_DWELL
    SpaceAfter,     \* SPACE_AFTER_S
    PromoteAfter,   \* PROMOTE_AFTER_S
    SymDecide,      \* SYM_DECIDE_AFTER_S
    LeaseS,         \* --ratio-lease-s
    MaxSleep,       \* bound: the longest time between two rounds
    ExternalBase,   \* is --victim-p95-base given?
    LossyPosts      \* may a POST to the feeder fail?

ASSUME LadderAssumption ==
    /\ MaxLevel \in Nat /\ MaxLevel >= 2
    /\ SafeLevel \in 1 .. MaxLevel - 1
ASSUME TimeAssumption ==
    /\ {InterveneHold, ReleaseHold, MinDwell, SpaceDwell, SpaceAfter,
        PromoteAfter, SymDecide, LeaseS, MaxSleep} \subseteq Nat \ {0}
    /\ InterveneHold <= PromoteAfter
    /\ SpaceAfter <= PromoteAfter
    /\ SpaceDwell <= PromoteAfter
ASSUME NamesAssumption ==
    /\ Nobody \notin Tenants
    /\ Absent \notin Nat
    /\ ExternalBase \in BOOLEAN /\ LossyPosts \in BOOLEAN

VARIABLES
    alive,        \* the process runs
    pc,           \* place in the round
    obs,          \* what read_obs returned in this round
    level,        \* rung of the ladder, 0 = no intervention
    dwell,        \* age of last_change
    above,        \* age of above_since
    below,        \* age of below_since
    based,        \* base is not None
    locked,       \* age of base_lock_t (Absent: not base_locked)
    lastAgg,      \* last_agg
    sym,          \* sym_locked: "undecided", "alike", "different"
    symTried,     \* sym_tried
    symPromoted,  \* sym_promoted
    handedOff,    \* handed_off
    space,        \* space_level
    spaceAge,     \* age of space_last
    narrowing,    \* history: what has become of the messages that narrow the mask of
                  \* the present aggressor, since the level was last 0
    feeder,       \* feeder[t]: what the feeder does with t
    moved         \* history: which rule moved the ladder last

loop == <<level, dwell, above, below, based, locked, lastAgg, sym, symTried,
          symPromoted, handedOff, space, spaceAge, narrowing, moved>>
mask == <<space, spaceAge, narrowing>>
vars == <<alive, pc, obs, loop, feeder>>

Levels == 0 .. MaxLevel
Contract == -1    \* a share that is the tenant's contract, not a rung's

\* victim: a fresh observation of a victim with a p95; aggressor: none seen, seen
\* without or with a p95; newGen: a pod was replaced (another devID or pid);
\* alike: both degrade by about the same factor; better: the victim improved by
\* SYM_IMPROVE since the symmetric try.  What the code does not look at is FALSE.
Observations ==
    {o \in [victim : BOOLEAN, r : {"low", "mid", "high"}, aggressor : {"none", "blank", "ok"},
            tenant : Tenants \cup {Nobody}, newGen : BOOLEAN, alike : BOOLEAN, better : BOOLEAN] :
        /\ (o.aggressor = "none") = (o.tenant = Nobody)
        /\ o.alike => o.victim /\ o.aggressor = "ok"
        /\ o.better => o.r = "high"
        /\ ~o.victim => o.r = "low"}
NoObs == [victim |-> FALSE]

ChangeCap == IF MinDwell > ReleaseHold THEN
                IF MinDwell > InterveneHold THEN MinDwell ELSE InterveneHold
             ELSE IF ReleaseHold > InterveneHold THEN ReleaseHold ELSE InterveneHold

TypeOK ==
    /\ alive \in BOOLEAN
    /\ pc \in {"asleep", "awake", "seen", "judged"}
    /\ obs \in Observations \cup {NoObs}
    /\ level \in Levels
    /\ dwell \in 0 .. ChangeCap
    /\ above \in {Absent} \cup 0 .. PromoteAfter
    /\ below \in {Absent} \cup 0 .. ReleaseHold
    /\ based \in BOOLEAN
    /\ locked \in {Absent} \cup 0 .. SymDecide
    /\ lastAgg \in Tenants \cup {Nobody}
    /\ sym \in {"undecided", "alike", "different"}
    /\ symTried \in BOOLEAN /\ symPromoted \in BOOLEAN /\ handedOff \in BOOLEAN
    /\ space \in Levels
    /\ spaceAge \in 0 .. SpaceDwell
    /\ narrowing \in {"none", "done", "missed"}
    /\ feeder \in [Tenants -> [armed : BOOLEAN, share : {Contract} \cup Levels, lease : 0 .. LeaseS]]
    /\ moved \in {"nothing", "TIGHTEN", "LOOSEN", "SAFE_FALLBACK", "SYM_TRY", "GEN_RESET"}

\* The locals of main() as the process starts.
FreshLoop ==
    /\ level = 0
    /\ dwell = ChangeCap
    /\ above = Absent /\ below = Absent
    /\ based = ExternalBase
    /\ locked = Absent
    /\ lastAgg = Nobody
    /\ sym = "undecided"
    /\ symTried = FALSE /\ symPromoted = FALSE /\ handedOff = FALSE
    /\ space = 0 /\ spaceAge = SpaceDwell /\ narrowing = "none"
    /\ moved = "nothing"

\* The device plugin has armed every tenant at its contract.
Init ==
    /\ alive = TRUE
    /\ pc = "asleep"
    /\ obs = NoObs
    /\ FreshLoop
    /\ feeder = [t \in Tenants |-> [armed |-> TRUE, share |-> Contract, lease |-> 0]]

---------------------------------------------------------------------------
(* What the loop sends to the feeder.  A POST that fails is not repeated.  *)

Delivered(posts) == IF LossyPosts THEN SUBSET posts ELSE {posts}

\* Variant of PostRelease: the gate opens and the lowered share stays.
PostGateOnly(t) == feeder' = [feeder EXCEPT ![t].armed = FALSE]

\* actuate(0, t): give the lease back and open the gate.
PostRelease(t) ==
    \E got \in Delivered({"ratios_release", "release"}) :
        feeder' = [feeder EXCEPT ![t] =
            [armed |-> @.armed /\ "release" \notin got,
             share |-> IF "ratios_release" \in got /\ @.lease > 0 THEN Contract ELSE @.share,
             lease |-> IF "ratios_release" \in got THEN 0 ELSE @.lease]]

\* Variant of PostLevel: a share without a lease.
PostLevelForGood(t, l) ==
    feeder' = [feeder EXCEPT ![t].armed = TRUE, ![t].share = l]

\* actuate(l, t), l > 0: arm, and set the share of rung l under a lease.
PostLevel(t, l) ==
    \E got \in Delivered({"arm", "ratios"}) :
        feeder' = [feeder EXCEPT ![t] =
            [armed |-> @.armed \/ "arm" \in got,
             share |-> IF "ratios" \in got THEN l ELSE @.share,
             lease |-> IF "ratios" \in got THEN LeaseS ELSE @.lease]]

Actuate(t, l) == IF l = 0 THEN PostRelease(t) ELSE PostLevel(t, l)

\* renew_lease(l, t)
Renew(t, l) ==
    IF l = 0 THEN UNCHANGED feeder
    ELSE \E got \in Delivered({"ratios"}) :
            feeder' = IF got = {} THEN feeder
                      ELSE [feeder EXCEPT ![t] = [armed |-> @.armed, share |-> l, lease |-> LeaseS]]

---------------------------------------------------------------------------
(* Time *)

\* The age of an instant, d later; it stops growing at cap.
Aged(age, d, cap) == IF age + d > cap THEN cap ELSE age + d
AgedIfSet(age, d, cap) == IF age = Absent THEN Absent ELSE Aged(age, d, cap)

\* The feeder ends the leases that run out (RatioLease!Restore).
Expired(f, d) ==
    IF f.lease = 0 THEN f
    ELSE IF f.lease <= d THEN [armed |-> f.armed, share |-> Contract, lease |-> 0]
    ELSE [f EXCEPT !.lease = @ - d]

\* The time.sleep between two rounds, and whatever else makes a round late; time
\* goes on when the process is dead.
Elapse(d) ==
    /\ pc = "asleep"
    /\ pc' = IF alive THEN "awake" ELSE "asleep"
    /\ feeder' = [t \in Tenants |-> Expired(feeder[t], d)]
    /\ dwell' = Aged(dwell, d, ChangeCap)
    /\ above' = AgedIfSet(above, d, PromoteAfter)
    /\ below' = AgedIfSet(below, d, ReleaseHold)
    /\ locked' = AgedIfSet(locked, d, SymDecide)
    /\ spaceAge' = Aged(spaceAge, d, SpaceDwell)
    /\ UNCHANGED <<alive, obs, level, based, lastAgg, sym, symTried, symPromoted,
                   handedOff, space, narrowing, moved>>
---------------------------------------------------------------------------
(* One round *)

EndRound == pc' = "asleep" /\ obs' = NoObs

\* What a replaced pod makes the loop forget.  The age of last_change and the
\* whole of the space axis are kept.
ForgetGeneration ==
    /\ based' = ExternalBase
    /\ locked' = Absent
    /\ sym' = "undecided"
    /\ symTried' = FALSE /\ symPromoted' = FALSE /\ handedOff' = FALSE
    /\ above' = Absent /\ below' = Absent
    /\ moved' = IF level = 0 THEN moved ELSE "GEN_RESET"

\* read_obs, the generation check, and the release of an aggressor the loop has
\* not met before ("init-release").  No aggressor so far: the round ends.
Observe(o) ==
    LET known == IF o.newGen THEN Nobody ELSE lastAgg
        agg   == IF o.aggressor = "none" THEN known ELSE o.tenant
        rung  == IF o.newGen THEN 0 ELSE level
    IN /\ alive /\ pc = "awake"
       /\ lastAgg' = agg
       /\ level' = rung
       /\ IF o.newGen THEN ForgetGeneration
          ELSE UNCHANGED <<based, locked, sym, symTried, symPromoted, handedOff, above, below, moved>>
       /\ IF agg # known /\ rung = 0 THEN PostRelease(agg) ELSE UNCHANGED feeder
       /\ IF agg = Nobody THEN EndRound ELSE pc' = "seen" /\ obs' = o
       /\ narrowing' = IF agg = known THEN narrowing ELSE IF space > 0 THEN "missed" ELSE "none"
       /\ UNCHANGED <<alive, dwell, space, spaceAge>>

\* The victim is out of sight: to the safe rung, from wherever the ladder is.
SafeFallback ==
    /\ alive /\ pc = "seen" /\ ~obs.victim
    /\ IF level # SafeLevel /\ dwell >= MinDwell
       THEN /\ level' = SafeLevel /\ dwell' = 0 /\ moved' = "SAFE_FALLBACK"
            /\ Actuate(lastAgg, SafeLevel)
       ELSE UNCHANGED <<level, dwell, moved, feeder>>
    /\ EndRound
    /\ UNCHANGED <<alive, above, below, based, locked, lastAgg, sym, symTried,
                   symPromoted, handedOff, mask>>

\* BASE_LOCK (both p95 seen while nothing is throttled) and, SYM_DECIDE_AFTER_S
\* later, the decision whether both suffer alike.  In the round of BASE_LOCK
\* the victim's ratio to its own base is 1.
Calibrate ==
    LET locks   == locked = Absent /\ level = 0 /\ obs.aggressor = "ok"
        lockAge == IF locks THEN 0 ELSE locked
    IN /\ alive /\ pc = "seen" /\ obs.victim
       /\ locked' = lockAge
       /\ based' = (based \/ locks)
       /\ sym' = IF /\ sym = "undecided" /\ level = 0 /\ obs.aggressor = "ok"
                    /\ lockAge # Absent /\ ~locks /\ lockAge >= SymDecide
                 THEN IF obs.alike THEN "alike" ELSE "different"
                 ELSE sym
       /\ IF based \/ locks
          THEN pc' = "judged" /\ obs' = IF based THEN obs ELSE [obs EXCEPT !.r = "low", !.better = FALSE]
          ELSE EndRound
       /\ UNCHANGED <<alive, level, dwell, above, below, lastAgg, symTried, symPromoted,
                      handedOff, mask, feeder, moved>>

---------------------------------------------------------------------------
(* Judged: one of the following rules ends the round. *)

SymmetricPain == sym = "alike" /\ obs.r = "high" /\ ~symPromoted

\* One rung down, once.
SymTry ==
    /\ alive /\ pc = "judged" /\ SymmetricPain /\ ~symTried
    /\ IF dwell >= MinDwell /\ level < MaxLevel
       THEN /\ level' = level + 1 /\ dwell' = 0 /\ symTried' = TRUE /\ moved' = "SYM_TRY"
            /\ PostLevel(lastAgg, level + 1)
       ELSE UNCHANGED <<level, dwell, symTried, moved, feeder>>
    /\ EndRound
    /\ UNCHANGED <<alive, above, below, based, locked, lastAgg, sym, symPromoted,
                   handedOff, mask>>

\* Did the rung help?  If not, ask for a relocation and freeze.
SymVerdict ==
    /\ alive /\ pc = "judged" /\ SymmetricPain /\ symTried
    /\ IF dwell < MinDwell THEN UNCHANGED <<symTried, symPromoted, handedOff>>
       ELSE IF obs.better THEN symTried' = FALSE /\ UNCHANGED <<symPromoted, handedOff>>
       ELSE symPromoted' = TRUE /\ handedOff' = TRUE /\ UNCHANGED symTried
    /\ EndRound
    /\ UNCHANGED <<alive, level, dwell, above, below, based, locked, lastAgg, sym, mask,
                   feeder, moved>>

\* SYM_WAIT: no rung before the decision.
AwaitDecision ==
    /\ alive /\ pc = "judged" /\ sym = "undecided"
    /\ EndRound
    /\ UNCHANGED <<alive, loop, feeder>>

\* FROZEN: the ladder stays, its lease is renewed.
Frozen ==
    /\ alive /\ pc = "judged" /\ sym # "undecided" /\ ~SymmetricPain /\ handedOff
    /\ Renew(lastAgg, level)
    /\ EndRound
    /\ UNCHANGED <<alive, loop>>

OnLadder == alive /\ pc = "judged" /\ sym # "undecided" /\ ~SymmetricPain /\ ~handedOff

\* above_since as this round sets it
AboveNow == IF obs.r # "high" THEN Absent ELSE IF above = Absent THEN 0 ELSE above

Sustained == AboveNow # Absent /\ AboveNow >= InterveneHold

\* actuate_space(level, lastAgg) narrows the mask, or gives up: no socket, nobody reads.
Narrowed(sent) == IF sent THEN "done" ELSE IF narrowing = "done" THEN "done" ELSE "missed"

\* The mask is widened again once nothing is throttled any more; the level is 0 also
\* if the message gets nowhere.
SpaceRelease ==
    IF level = 0 /\ space > 0 /\ spaceAge >= SpaceDwell
    THEN space' = 0 /\ spaceAge' = 0 /\ narrowing' = "none"
    ELSE UNCHANGED mask

Tighten ==
    /\ OnLadder /\ Sustained /\ level < MaxLevel /\ dwell >= MinDwell
    /\ level' = level + 1 /\ dwell' = 0 /\ moved' = "TIGHTEN"
    /\ above' = 0 /\ below' = Absent
    /\ PostLevel(lastAgg, level + 1)
    /\ SpaceRelease
    /\ EndRound
    /\ UNCHANGED <<alive, based, locked, lastAgg, sym, symTried, symPromoted, handedOff>>

\* Variant of Bottom: relocation first, the SM mask last.
BottomRelocatesFirst ==
    LET narrow == AboveNow >= PromoteAfter /\ space < MaxLevel /\ spaceAge >= SpaceDwell
    IN /\ OnLadder /\ Sustained /\ level = MaxLevel
       /\ space' = IF narrow THEN space + 1 ELSE space
       /\ spaceAge' = IF narrow THEN 0 ELSE spaceAge
       /\ \E sent \in BOOLEAN : narrowing' = IF narrow THEN Narrowed(sent) ELSE narrowing
       /\ handedOff' = (AboveNow >= SpaceAfter)
       /\ above' = AboveNow /\ below' = Absent
       /\ Renew(lastAgg, level)
       /\ EndRound
       /\ UNCHANGED <<alive, level, dwell, based, locked, lastAgg, sym, symTried,
                      symPromoted, moved>>

\* The last rung is not enough: narrow the SM mask, the level counting whether or not
\* the message got through, and later ask for a relocation, after which the ladder is
\* frozen.
Bottom ==
    LET narrow == AboveNow >= SpaceAfter /\ space < MaxLevel /\ spaceAge >= SpaceDwell
    IN /\ OnLadder /\ Sustained /\ level = MaxLevel
       /\ space' = IF narrow THEN space + 1 ELSE space
       /\ spaceAge' = IF narrow THEN 0 ELSE spaceAge
       /\ \E sent \in BOOLEAN : narrowing' = IF narrow THEN Narrowed(sent) ELSE narrowing
       /\ handedOff' = (AboveNow >= PromoteAfter)
       /\ above' = AboveNow /\ below' = Absent
       /\ Renew(lastAgg, level)
       /\ EndRound
       /\ UNCHANGED <<alive, level, dwell, based, locked, lastAgg, sym, symTried,
                      symPromoted, moved>>

\* Variant of MayLoosen: no hold time.
MayLoosenAtOnce == obs.r = "low" /\ below # Absent /\ level > 0 /\ dwell >= MinDwell

\* Variant of MayLoosen: no lower end of the ladder.
MayLoosenBelowRest == obs.r = "low" /\ below # Absent /\ below >= ReleaseHold /\ dwell >= MinDwell

MayLoosen == /\ obs.r = "low" /\ below # Absent /\ below >= ReleaseHold
             /\ level > 0 /\ dwell >= MinDwell

Loosen ==
    /\ OnLadder /\ MayLoosen
    /\ level' = level - 1 /\ dwell' = 0 /\ moved' = "LOOSEN"
    /\ above' = Absent /\ below' = 0
    /\ Actuate(lastAgg, level - 1)
    /\ EndRound
    /\ UNCHANGED <<alive, based, locked, lastAgg, sym, symTried, symPromoted, handedOff,
                   mask>>

\* Variant of Hold: the time the victim is well starts anew in every round.
HoldRestartsBelow ==
    /\ OnLadder /\ ~MayLoosen
    /\ ~Sustained \/ (level < MaxLevel /\ dwell < MinDwell)
    /\ above' = AboveNow
    /\ below' = IF obs.r # "low" THEN Absent ELSE 0
    /\ SpaceRelease
    /\ Renew(lastAgg, level)
    /\ EndRound
    /\ UNCHANGED <<alive, level, dwell, based, locked, lastAgg, sym, symTried,
                   symPromoted, handedOff, moved>>

\* Nothing to do yet: note since when the victim is above or below.
Hold ==
    /\ OnLadder /\ ~MayLoosen
    /\ ~Sustained \/ (level < MaxLevel /\ dwell < MinDwell)
    /\ above' = AboveNow
    /\ below' = IF obs.r # "low" THEN Absent ELSE IF below = Absent THEN 0 ELSE below
    /\ SpaceRelease
    /\ Renew(lastAgg, level)
    /\ EndRound
    /\ UNCHANGED <<alive, level, dwell, based, locked, lastAgg, sym, symTried,
                   symPromoted, handedOff, moved>>

---------------------------------------------------------------------------
(* The process *)

\* SIGKILL, at any place of the round: nothing is cleaned up.
Crash ==
    /\ alive /\ alive' = FALSE
    /\ EndRound
    /\ UNCHANGED <<loop, feeder>>

\* SIGTERM or --duration: the finally block gives the last aggressor back.
Stop ==
    /\ alive /\ alive' = FALSE
    /\ IF lastAgg = Nobody THEN UNCHANGED feeder ELSE PostRelease(lastAgg)
    /\ EndRound
    /\ UNCHANGED loop

\* The DaemonSet starts the process again; the feeder is as it was left.
Restart ==
    /\ ~alive /\ alive' = TRUE
    /\ pc' = "asleep" /\ obs' = NoObs
    /\ level' = 0 /\ dwell' = ChangeCap
    /\ above' = Absent /\ below' = Absent
    /\ based' = ExternalBase /\ locked' = Absent
    /\ lastAgg' = Nobody
    /\ sym' = "undecided" /\ symTried' = FALSE /\ symPromoted' = FALSE /\ handedOff' = FALSE
    /\ space' = 0 /\ spaceAge' = SpaceDwell /\ narrowing' = "none"
    /\ moved' = "nothing"
    /\ UNCHANGED feeder

Round == \/ SafeFallback \/ Calibrate \/ SymTry \/ SymVerdict \/ AwaitDecision
         \/ Frozen \/ Tighten \/ Bottom \/ Loosen \/ Hold

\* pc admits one kind of step at a time.
Proceed ==
    \/ \E d \in 1 .. MaxSleep : Elapse(d)
    \/ \E o \in Observations : Observe(o)
    \/ Round

Next ==
    \/ Proceed
    \/ Crash
    \/ Stop
    \/ Restart

Spec == Init /\ [][Next]_vars

\* Time passes, and a living process does its rounds.  Nothing obliges anybody
\* to kill or to restart it.
FairSpec ==
    /\ Spec
    /\ WF_vars(Proceed)

---------------------------------------------------------------------------
(* Properties *)

\* The stages come in order: time, then space, then relocation.  When the ladder has
\* been handed off because its last rung did not help, this aggressor has been told a
\* narrower SM mask before (SPACE_AFTER_S < PROMOTE_AFTER_S), or a message that should
\* have told it was given up (actuate_space returned False), or the mask was narrowed
\* for another aggressor, or another process, than the one the loop now looks after.
\* Never is the stage of space passed over without one of these.
SpaceBeforeRelocation == handedOff /\ ~symPromoted => narrowing \in {"done", "missed"}

\* The ladder does not swing: between two of its own moves in opposite
\* directions lies at least the hold time of the second (the deadband between
\* k_release and k_intervene, with above_since and below_since reset).
NoSwing ==
    [][/\ moved = "TIGHTEN" /\ level' = level - 1 /\ moved' = "LOOSEN" => dwell >= ReleaseHold
       /\ moved = "LOOSEN" /\ level' = level + 1 /\ moved' = "TIGHTEN" => dwell >= InterveneHold]_vars

\* No intervention means off: the aggressor the loop looks after is ungated
\* and on its contract whenever the ladder is at rest.
RestIsOff ==
    pc = "asleep" /\ alive /\ lastAgg # Nobody /\ level = 0
        => ~feeder[lastAgg].armed /\ feeder[lastAgg].share = Contract

\* A share never outlives its lease, and a lease never outlives the loop by
\* more than its length: a killed loop cannot leave a tenant throttled.
DeadLoopLetsGo ==
    ~alive ~> (alive \/ \A t \in Tenants : feeder[t].share = Contract)

\* Once the symmetry question is settled and nothing has been handed off, a
\* victim that stays well brings the ladder back to rest, for good.
CalmIsReleased ==
    <>[](/\ alive /\ sym # "undecided" /\ ~handedOff
         /\ (pc \in {"seen", "judged"} => obs.victim /\ obs.r = "low"))
        => <>[](level = 0)

=============================================================================
