----------------------------- MODULE Placement -----------------------------
(***************************************************************************)
(* Where a standby may be placed: ratio/engine.py decides, for a request   *)
(* r, a share s of the SMs and a share t of the time with s * t >= r, out  *)
(* of what lifecycle/ledger.py says is free; a swap that succeeds enters   *)
(* them in the ledger.  The view is read when the swap is requested; the   *)
(* ledger changes when its thread is through, and the booster's thread     *)
(* takes entries out meanwhile.                                            *)
(*                                                                         *)
(* s is counted in steps of the grid (Grid of them are the GPU), t in the  *)
(* steps that the engine rounds up to (Fine of them are all of the time),  *)
(* r in their product.  Entries are ungated, as loop_api places them.  The *)
(* steps of the swap between decision and entry are in Swap.               *)
(***************************************************************************)
EXTENDS Integers, Functions, FiniteSetsExt, PyDict

CONSTANTS
    Workloads,      \* the names an entry can have
    Grid,           \* steps of s
    Fine,           \* steps of t
    Requests,       \* what a standby asks for, perhaps too much
    Insisted        \* min_free_time, 0 if the caller does not insist

ASSUME GridAssumption == {Grid, Fine} \subseteq Nat \ {0}
ASSUME RequestAssumption == Requests \subseteq Int /\ Insisted \subseteq 0 .. Fine /\ 0 \in Insisted

VARIABLES
    ledger,         \* _tenants: name -> [s, t]
    phase,          \* of the swap: "idle", "refused", "decided", "removed"
    job             \* its request, the view it was decided with and the decision

ledgerVars == <<ledger, phase, job>>

Classes == {"COMPUTE_BOUND", "MEMORY_BOUND", "other"}
NoJob == [new |-> "none"]

---------------------------------------------------------------------------
(* ResidualLedger.view *)

TimeSum(led) == SumFunction([n \in DOMAIN led |-> led[n].t])

\* Variant of FreeTime: what is oversold counts as free.
FreeTimeAbs == IF TimeSum(ledger) > Fine THEN TimeSum(ledger) - Fine ELSE Fine - TimeSum(ledger)

FreeTime == IF TimeSum(ledger) > Fine THEN 0 ELSE Fine - TimeSum(ledger)

\* Variant of FreeSm: what the smallest entry leaves.
FreeSmOfLeast == IF ledger = EmptyDict THEN Grid ELSE Grid - Min({ledger[n].s : n \in DOMAIN ledger})

\* The largest entry is set aside, not the sum of all.
FreeSm == IF ledger = EmptyDict THEN Grid ELSE Grid - Max({ledger[n].s : n \in DOMAIN ledger})

---------------------------------------------------------------------------
(* ratio.decide *)

\* The share of time that makes r of s, rounded up.
TimeFor(r, s) == (r + s - 1) \div s

\* Variant of Candidates: the smallest s that the request fits in, or none.
CandidatesAtLeast(r, freeSm, freeTime) ==
    {<<s, TimeFor(r, s)>> : s \in {g \in 1 .. Grid : /\ g * Fine >= r /\ (g - 1) * Fine < r
                                                     /\ g <= freeSm /\ r <= g * freeTime}}

Candidates(r, freeSm, freeTime) ==
    {<<s, TimeFor(r, s)>> : s \in {g \in 1 .. Grid : g * Fine >= r /\ g <= freeSm /\ r <= g * freeTime}}

\* Is s at most as far from the square root of r as z?  In steps of the grid the
\* root is that of r * Grid / Fine.
AsNear(s, z, r) ==
    IF s <= z THEN s = z \/ 4 * r * Grid <= Fine * (s + z) * (s + z)
              ELSE 4 * r * Grid >= Fine * (s + z) * (s + z)

Preferred(cands, class, r) ==
    CASE class = "COMPUTE_BOUND" -> {c \in cands : \A d \in cands : c[1] >= d[1]}
      [] class = "MEMORY_BOUND" -> {c \in cands : \A d \in cands : c[1] <= d[1]}
      [] OTHER -> {c \in cands : \A d \in cands : AsNear(c[1], d[1], r)}

\* What is left over when c has been placed, as an area.
Waste(c, freeSm, freeTime) ==
    Max({0, freeSm - c[1]}) * Max({0, freeTime - c[2]})

\* The preferred candidate that leaves the least, the smaller s of two.
BestFit(pref, freeSm, freeTime) ==
    CHOOSE c \in pref : \A d \in pref :
        \/ Waste(c, freeSm, freeTime) < Waste(d, freeSm, freeTime)
        \/ Waste(c, freeSm, freeTime) = Waste(d, freeSm, freeTime) /\ c[1] <= d[1]

InRange(r) == 0 < r /\ r <= Grid * Fine

Feasible(r, freeSm, freeTime) == InRange(r) /\ Candidates(r, freeSm, freeTime) # {}

Decision(r, class, freeSm, freeTime) ==
    BestFit(Preferred(Candidates(r, freeSm, freeTime), class, r), freeSm, freeTime)

\* Variant of LimitPct: not clamped.
LimitPctFull(s) == (100 * s) \div Grid

\* BLESS_LIMIT_PCT; libbless takes 100 for unset.
LimitPct(s) == Max({1, Min({99, (100 * s) \div Grid})})

---------------------------------------------------------------------------

LedgerTypeOK ==
    /\ DOMAIN ledger \subseteq Workloads
    /\ \A n \in DOMAIN ledger : ledger[n] \in [s : 1 .. Grid, t : 1 .. Fine]
    /\ phase \in {"idle", "refused", "decided", "removed"}
    /\ phase \in {"decided", "removed"} => job.pct \in 1 .. 99

LedgerInit == ledger = EmptyDict /\ phase = "idle" /\ job = NoJob

\* POST /lifecycle/swap: a caller may insist on a share of time that is not free.
StartSwap(old, new, r, class, min) ==
    /\ phase = "idle"
    /\ LET freeTime == Max({FreeTime, min})
           Job(c) == [old |-> old, new |-> new, r |-> r, class |-> class,
                      freeSm |-> FreeSm, freeTime |-> freeTime, insists |-> min > FreeTime,
                      s |-> c[1], t |-> c[2], pct |-> LimitPct(c[1])]
       IN \/ /\ Feasible(r, FreeSm, freeTime)
             /\ job' = Job(Decision(r, class, FreeSm, freeTime)) /\ phase' = "decided"
          \/ /\ ~Feasible(r, FreeSm, freeTime)
             /\ job' = Job(<<0, 0>>) /\ phase' = "refused"
    /\ UNCHANGED ledger

\* 409 with the decision.
Refuse == phase = "refused" /\ phase' = "idle" /\ job' = NoJob /\ UNCHANGED ledger

\* The swap ended in FALLBACK_GATED or in an exception.
GiveUp == phase = "decided" /\ phase' = "idle" /\ job' = NoJob /\ UNCHANGED ledger

\* Variant of Remove: the old entry stays.
RemoveNothing == phase = "decided" /\ phase' = "removed" /\ UNCHANGED <<ledger, job>>

Remove ==
    /\ phase = "decided" /\ phase' = "removed"
    /\ ledger' = Drop(ledger, {job.old})
    /\ UNCHANGED job

Place ==
    /\ phase = "removed" /\ phase' = "idle"
    /\ ledger' = Put(ledger, {job.new}, [s |-> job.s, t |-> job.t])
    /\ job' = NoJob

\* The booster takes back what a dead tenant had.
Reclaim(n) ==
    /\ n \in DOMAIN ledger
    /\ ledger' = Drop(ledger, {n})
    /\ UNCHANGED <<phase, job>>

LedgerNext ==
    \/ \E old, new \in Workloads, r \in Requests, class \in Classes, min \in Insisted :
          StartSwap(old, new, r, class, min)
    \/ Refuse \/ GiveUp \/ Remove \/ Place
    \/ \E n \in Workloads : Reclaim(n)

LedgerSpec == LedgerInit /\ [][LedgerNext]_ledgerVars

---------------------------------------------------------------------------
(* Properties *)

\* Any two tenants of the ledger fit the GPU's SMs side by side, although a view is
\* old when the entry it led to is made.
PairsFit ==
    \A n, m \in DOMAIN ledger : n # m => ledger[n].s + ledger[m].s <= Grid

\* An entry whose caller did not insist leaves the time of the GPU not oversold,
\* also after others did insist.
TimeIsNotOversold ==
    [][phase = "removed" /\ phase' = "idle" /\ ~job.insists => TimeSum(ledger') <= Fine]_ledgerVars

\* All shares that satisfy a request out of what is free.
Solutions(j) == {c \in (1 .. Grid) \X (1 .. Fine) :
                    c[1] <= j.freeSm /\ c[2] <= j.freeTime /\ c[1] * c[2] >= j.r}

\* s steps of the grid are not below (above) the root of r.
NotBelowRoot(s, r) == s * s * Fine >= r * Grid
NotAboveRoot(s, r) == s * s * Fine <= r * Grid

\* The engine against its definition.  A request is refused only if no shares at all
\* satisfy it, or it asks for nothing.  Compute-bound work gets the most SMs any
\* solution has, memory-bound work the fewest, other work has no solution between
\* its own and the balance (s = t), and nobody gets more time than a solution with
\* these SMs needs.
EngineIsExact ==
    /\ phase = "refused" => job.r <= 0 \/ Solutions(job) = {}
    /\ phase = "decided" =>
        /\ <<job.s, job.t>> \in Solutions(job)
        /\ \A c \in Solutions(job) :
              /\ job.class = "COMPUTE_BOUND" => c[1] <= job.s
              /\ job.class = "MEMORY_BOUND" => c[1] >= job.s
              /\ job.class = "other" =>
                    /\ NotBelowRoot(job.s, job.r) /\ c[1] < job.s => ~NotBelowRoot(c[1], job.r)
                    /\ NotAboveRoot(job.s, job.r) /\ c[1] > job.s => ~NotAboveRoot(c[1], job.r)
              /\ c[1] = job.s => job.t <= c[2]

=============================================================================
