----------------------------- MODULE SliceLoop -----------------------------
(***************************************************************************)
(* The adaptive slice loop (controller/adaptive/slice_loop.py), a process  *)
(* of its own: it samples the feeder, judges of every armed tenant whether *)
(* its budget is too small (1), too large (-1) or neither (0), and lends   *)
(* it another share over HTTP.  The loan is a lease of the feeder, so it   *)
(* has to be renewed to last.                                              *)
(*                                                                         *)
(* Shares and factors are integers; One is the factor 1.0 and a step is 1. *)
(* What usage and gate_wait say together is the judgement the environment  *)
(* hands in.  Of the feeder there is what the loop uses: the shares and    *)
(* the seconds a lease has left (RatioLease has the rest).  A round under  *)
(* --dry-run, which leaves out the posts (slice_loop.py:180, 200), is one  *)
(* whose posts are all lost.                                               *)
(***************************************************************************)
EXTENDS Integers, PyDict

CONSTANTS
    Tenants,
    Contracts,      \* shares a tenant is registered with
    Lo, One, Hi,    \* BOUND_LO, 1.0 and BOUND_HI, in steps
    UpHold, DownHold,
    LeaseS,         \* RATIO_LEASE_DEFAULT_S
    MaxSleep,       \* bound: seconds a round can take
    MinShare, MaxShare \* bounds: the loop is started anew only with shares in between

ASSUME FactorAssumption == {Lo, One, Hi} \subseteq Nat \ {0} /\ Lo < One /\ One < Hi
ASSUME HoldAssumption == {UpHold, DownHold} \subseteq Nat \ {0}
ASSUME LeaseAssumption == {LeaseS, MaxSleep} \subseteq Nat \ {0} /\ Contracts \subseteq Nat \ {0}

VARIABLES
    tenants,        \* feeder: name -> [contract, ratio, armed]
    left,           \* feeder: name -> seconds its lease has left
    sampled,        \* last_sample_t is not None
    todo,           \* the round's snapshot: armed name still to judge -> its ratio
    base,           \* base_ratio
    mult,           \* cur_mult
    streak,         \* name -> [dir, cnt]
    judged,         \* history: names judged in this round, the answer not lost
    quiet           \* history: judgements since the factor last moved

loop == <<sampled, todo, base, mult, streak>>
vars == <<tenants, left, sampled, todo, base, mult, streak, judged, quiet>>

Most == IF UpHold > DownHold THEN UpHold ELSE DownHold
AtMost(n) == IF n > Most THEN Most ELSE n

TypeOK ==
    /\ \A n \in DOMAIN tenants :
          n \in Tenants /\ tenants[n] \in [contract : Contracts, ratio : Nat, armed : BOOLEAN]
    /\ DOMAIN left \subseteq DOMAIN tenants
    /\ \A n \in DOMAIN left : left[n] \in 1 .. LeaseS
    /\ sampled \in BOOLEAN
    /\ DOMAIN todo \subseteq Tenants /\ todo \in [DOMAIN todo -> Nat]
    /\ DOMAIN base \subseteq Tenants /\ base \in [DOMAIN base -> Nat]
    /\ mult \in [DOMAIN base -> Lo .. Hi]
    /\ DOMAIN streak \subseteq DOMAIN base
    /\ \A n \in DOMAIN streak : streak[n] \in [dir : {-1, 0, 1}, cnt : 0 .. Most]
    /\ judged \subseteq Tenants
    /\ quiet \in [Tenants -> 0 .. Most]

Init ==
    /\ tenants = EmptyDict /\ left = EmptyDict
    /\ sampled = FALSE /\ todo = EmptyDict
    /\ base = EmptyDict /\ mult = EmptyDict /\ streak = EmptyDict
    /\ judged = {} /\ quiet = [n \in Tenants |-> 0]

---------------------------------------------------------------------------
(* The feeder's other callers *)

Register(n, c) ==
    /\ tenants' = Put(tenants, {n}, [contract |-> c, ratio |-> c, armed |-> FALSE])
    /\ left' = Drop(left, {n})
    /\ judged' = judged \ {n}
    /\ UNCHANGED <<loop, quiet>>

Deregister(n) ==
    /\ tenants' = Drop(tenants, {n})
    /\ left' = Drop(left, {n})
    /\ judged' = judged \ {n}
    /\ UNCHANGED <<loop, quiet>>

Arm(n, on) ==
    /\ n \in DOMAIN tenants
    /\ tenants' = [tenants EXCEPT ![n].armed = on]
    /\ UNCHANGED <<left, loop, judged, quiet>>

---------------------------------------------------------------------------
(* The loop *)

\* Leases that end within d seconds go back to the contract.
Ended(d) == {n \in DOMAIN left : left[n] <= d}
Passed(d) ==
    /\ tenants' = [n \in DOMAIN tenants |->
                     IF n \in Ended(d) THEN [tenants[n] EXCEPT !.ratio = tenants[n].contract]
                                       ELSE tenants[n]]
    /\ left' = [n \in DOMAIN left \ Ended(d) |-> left[n] - d]

\* Sleep and sample: nothing is judged if a request fails or there is no sample to
\* compare with yet.
Sample(d, answered) ==
    /\ todo = EmptyDict
    /\ Passed(d)
    /\ judged' = {}
    /\ sampled' = (sampled \/ answered)
    /\ todo' = IF sampled /\ answered
               THEN [n \in {m \in DOMAIN tenants : tenants'[m].armed} |-> tenants'[n].ratio]
               ELSE EmptyDict
    /\ UNCHANGED <<base, mult, streak, quiet>>

\* First sight of a tenant: its share of then is the base from now on.
BaseOf(n) == IF n \in DOMAIN base THEN base[n] ELSE todo[n]
MultOf(n) == IF n \in DOMAIN mult THEN mult[n] ELSE One

\* An HTTP answer can be lost, then the request had no effect here; a name that is
\* not registered is passed over.
Post(n, share, lost) ==
    IF lost \/ n \notin DOMAIN tenants THEN UNCHANGED <<tenants, left>>
    ELSE /\ tenants' = [tenants EXCEPT ![n].ratio = share]
         /\ left' = Put(left, {n}, LeaseS)

Share(n, m) == (BaseOf(n) * m) \div One

Counted(n, dir) ==
    LET s == IF n \in DOMAIN streak THEN streak[n] ELSE [dir |-> 0, cnt |-> 0]
    IN IF dir = 0 THEN 0 ELSE IF dir = s.dir THEN AtMost(s.cnt + 1) ELSE 1

Enough(n, dir) == dir # 0 /\ Counted(n, dir) >= (IF dir > 0 THEN UpHold ELSE DownHold)

Clamped(m) == IF m > Hi THEN Hi ELSE IF m < Lo THEN Lo ELSE m

Judge(n, dir, lost) ==
    /\ n \in DOMAIN todo
    /\ todo' = Drop(todo, {n})
    /\ base' = Put(base, {n}, BaseOf(n))
    /\ judged' = IF lost THEN judged ELSE judged \cup {n}
    /\ UNCHANGED sampled

\* No budget or no charge of this tenant in the sample.
Unknown(n) ==
    /\ n \in DOMAIN todo
    /\ todo' = Drop(todo, {n})
    /\ base' = Put(base, {n}, BaseOf(n))
    /\ mult' = Put(mult, {n}, MultOf(n))
    /\ UNCHANGED <<tenants, left, sampled, streak, judged, quiet>>

\* Variant of Hold: what is held is not renewed (the loop before its leases ended
\* by default).
HoldSilently(n, dir, lost) ==
    /\ Judge(n, dir, lost) /\ ~Enough(n, dir)
    /\ mult' = Put(mult, {n}, MultOf(n))
    /\ streak' = Put(streak, {n}, [dir |-> dir, cnt |-> Counted(n, dir)])
    /\ quiet' = [quiet EXCEPT ![n] = AtMost(@ + 1)]
    /\ UNCHANGED <<tenants, left>>

\* Nothing to change yet: the lease is renewed, unless the share is the base.
Hold(n, dir, lost) ==
    /\ Judge(n, dir, lost) /\ ~Enough(n, dir)
    /\ mult' = Put(mult, {n}, MultOf(n))
    /\ streak' = Put(streak, {n}, [dir |-> dir, cnt |-> Counted(n, dir)])
    /\ quiet' = [quiet EXCEPT ![n] = AtMost(@ + 1)]
    /\ IF MultOf(n) # One THEN Post(n, Share(n, MultOf(n)), lost) ELSE UNCHANGED <<tenants, left>>

\* At the bound already: nothing is sent.
Bounded(n, dir, lost) ==
    /\ Judge(n, dir, lost) /\ Enough(n, dir) /\ Clamped(MultOf(n) + dir) = MultOf(n)
    /\ mult' = Put(mult, {n}, MultOf(n))
    /\ streak' = Put(streak, {n}, [dir |-> dir, cnt |-> Counted(n, dir)])
    /\ quiet' = [quiet EXCEPT ![n] = AtMost(@ + 1)]
    /\ UNCHANGED <<tenants, left>>

\* Variant of Move: the count goes on.
MoveCountingOn(n, dir, lost) ==
    /\ Judge(n, dir, lost) /\ Enough(n, dir) /\ Clamped(MultOf(n) + dir) # MultOf(n)
    /\ mult' = Put(mult, {n}, Clamped(MultOf(n) + dir))
    /\ streak' = Put(streak, {n}, [dir |-> dir, cnt |-> Counted(n, dir)])
    /\ quiet' = [quiet EXCEPT ![n] = 0]
    /\ Post(n, Share(n, mult'[n]), lost)

\* Variant of Move: the factor is kept as it was.
MoveForgetting(n, dir, lost) ==
    /\ Judge(n, dir, lost) /\ Enough(n, dir) /\ Clamped(MultOf(n) + dir) # MultOf(n)
    /\ mult' = Put(mult, {n}, MultOf(n))
    /\ streak' = Put(streak, {n}, [dir |-> dir, cnt |-> 0])
    /\ quiet' = [quiet EXCEPT ![n] = 0]
    /\ Post(n, Share(n, Clamped(MultOf(n) + dir)), lost)

\* One step; the loop believes in it whether or not the request arrived.
Move(n, dir, lost) ==
    /\ Judge(n, dir, lost) /\ Enough(n, dir) /\ Clamped(MultOf(n) + dir) # MultOf(n)
    /\ mult' = Put(mult, {n}, Clamped(MultOf(n) + dir))
    /\ streak' = Put(streak, {n}, [dir |-> dir, cnt |-> 0])
    /\ quiet' = [quiet EXCEPT ![n] = 0]
    /\ Post(n, Share(n, mult'[n]), lost)

\* The process is killed and started again, with nothing remembered: it then takes the
\* shares it finds for the base.  The guard is the bound: each restart while a share is
\* on loan could raise base and share once more.
Restart ==
    /\ \A n \in DOMAIN tenants : tenants[n].ratio \in MinShare .. MaxShare
    /\ sampled' = FALSE /\ todo' = EmptyDict
    /\ base' = EmptyDict /\ mult' = EmptyDict /\ streak' = EmptyDict
    /\ judged' = {} /\ quiet' = [n \in Tenants |-> 0]
    /\ UNCHANGED <<tenants, left>>

Step ==
    \/ \E d \in 1 .. MaxSleep, answered \in BOOLEAN : Sample(d, answered)
    \/ \E n \in Tenants, dir \in {-1, 0, 1}, lost \in BOOLEAN :
          Hold(n, dir, lost) \/ Bounded(n, dir, lost) \/ Move(n, dir, lost)
    \/ \E n \in Tenants : Unknown(n)

Next ==
    \/ \E n \in Tenants, c \in Contracts : Register(n, c)
    \/ \E n \in Tenants : Deregister(n)
    \/ \E n \in Tenants, on \in BOOLEAN : Arm(n, on)
    \/ Step
    \/ Restart

Spec == Init /\ [][Next]_vars

\* The process is scheduled, its requests return or run into their timeout.
FairSpec == Spec /\ WF_vars(Step)

---------------------------------------------------------------------------
(* Properties *)

\* What the loop believes is what the feeder gives: after a judgement that reached
\* the feeder, a factor inside the bounds is applied in full and leased anew, however
\* many posts or samples were lost before.
HeldIsApplied ==
    \A n \in judged :
        mult[n] \notin {Lo, One, Hi} /\ n \in DOMAIN tenants =>
            /\ tenants[n].ratio = (base[n] * mult[n]) \div One
            /\ n \in DOMAIN left /\ left[n] = LeaseS

\* Pace: between two steps of the factor, or a start of the loop and the first one,
\* there are UP_HOLD judgements before a raise and DOWN_HOLD before a cut; so a
\* raise and a cut do not alternate faster.
Pace ==
    [][\A n \in DOMAIN mult \cap DOMAIN mult' :
          /\ mult'[n] > mult[n] => quiet[n] + 1 >= UpHold
          /\ mult'[n] < mult[n] => quiet[n] + 1 >= DownHold]_vars

\* A tenant that is judged short of budget time and again, and never otherwise, is
\* raised to the bound.
ShortIsRaised ==
    \A n \in Tenants :
        <>[](n \in DOMAIN streak /\ streak[n].dir = 1) /\ []<>(n \in judged)
            => <>(n \in DOMAIN mult /\ mult[n] = Hi)

\* As slice_loop.py says: the lease is renewed while an adjustment is kept, too.
KeptIsRenewed ==
    \A n \in judged : mult[n] # One /\ n \in DOMAIN tenants => n \in DOMAIN left /\ left[n] = LeaseS

=============================================================================
