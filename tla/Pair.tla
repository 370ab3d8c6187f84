-------------------------------- MODULE Pair --------------------------------
(***************************************************************************)
(* ratio/pair.py: the shares of tenants that are to run on a GPU together, *)
(* decided at once.  "strict" gives everyone what decide() makes of the    *)
(* contract alone; the relaxed policies take the time gate off memory-bound*)
(* tenants that run beside compute-bound ones, "capped_hetero" with a cap  *)
(* on their SMs instead, and fall back where that was never measured.      *)
(*                                                                         *)
(* An SM share is counted in the unit of requests here: a cap is not on    *)
(* the grid.  The prediction that comes with an answer decides nothing and *)
(* is left out, and so are the percentages, which LimitPct makes of shares.*)
(***************************************************************************)
EXTENDS Placement, Sequences

CONSTANT
    PairRequests    \* contracts of the members, perhaps out of range

ASSUME PairAssumption == PairRequests \subseteq Int

All == Grid * Fine
Policies == {"strict", "relaxed_hetero", "capped_hetero"}
Members == [r : PairRequests, class : Classes, high : BOOLEAN]
Lists == UNION {[1 .. n -> Members] : n \in 1 .. 3}

\* decide() for one member on a free GPU in the time of its contract, r / Grid
\* steps, which need not be a whole number of them.
StrictCandidates(r) == {g \in 1 .. Grid : g * Fine >= r /\ r * Grid <= r * g}

StrictMember(q) ==
    LET g == CHOOSE s \in StrictCandidates(q.r) : TRUE
    IN [sm |-> g * Fine, t |-> TimeFor(q.r, g), gate |-> TimeFor(q.r, g) < Fine]

\* Variant of Hetero: one class beside any other.
HeteroIfMixed(list) ==
    Len(list) >= 2 /\ Cardinality({list[i].class : i \in DOMAIN list}) = 2

Hetero(list) == {list[i].class : i \in DOMAIN list} = {"COMPUTE_BOUND", "MEMORY_BOUND"}

InContract(list) ==
    /\ \A i \in DOMAIN list : list[i].r > 0
    /\ SumFunction([i \in DOMAIN list |-> list[i].r]) <= All

\* The policy that is applied in place of the one asked for.
Applied(list, policy, mps) ==
    IF policy = "strict" \/ ~Hetero(list) \/ (\E i \in DOMAIN list : ~list[i].high) THEN "strict"
    ELSE IF policy = "capped_hetero" /\ Len(list) = 2 /\ mps THEN "capped_hetero"
    ELSE "relaxed_hetero"

\* Rounded to the nearest step, where decide() rounds up.
ContractTime(r) == (2 * r + Grid) \div (2 * Grid)

RelaxedMember(q, applied) ==
    IF q.class = "COMPUTE_BOUND" THEN [sm |-> All, t |-> ContractTime(q.r), gate |-> TRUE]
    ELSE [sm |-> IF applied = "capped_hetero" THEN q.r ELSE All, t |-> Fine, gate |-> FALSE]

\* The members' shares, or none if the contracts do not go together.
DecidePair(list, policy, mps) ==
    IF ~InContract(list) THEN << >>
    ELSE [i \in DOMAIN list |->
            IF Applied(list, policy, mps) = "strict" THEN StrictMember(list[i])
            ELSE RelaxedMember(list[i], Applied(list, policy, mps))]

---------------------------------------------------------------------------
(* Property *)

\* Whatever policy is asked for, with whoever beside: contracts that go together
\* are served, each in full up to the rounding; nobody has more time than the
\* contract's but memory-bound tenants beside a gated one, all classified with
\* confidence; less time than all is gated; and SMs are cut only where MPS enforces
\* it, for two.  Answers do not depend on the ledger: the first state shows them all.
ContractsAreServed ==
    LedgerInit => \A list \in Lists, policy \in Policies, mps \in BOOLEAN :
        LET answer == DecidePair(list, policy, mps)
            gated  == {i \in DOMAIN answer : answer[i].gate}
        IN InContract(list) =>
            \A i \in DOMAIN list :
                LET q == list[i]  a == answer[i]
                IN /\ 2 * (q.r * Fine - a.sm * a.t) <= All
                   /\ \/ (a.t - 1) * Grid < q.r
                      \/ /\ q.class = "MEMORY_BOUND" /\ policy # "strict"
                         /\ \E j \in gated : list[j].class = "COMPUTE_BOUND"
                         /\ \A j \in DOMAIN list : list[j].high
                   /\ a.t < Fine => a.gate
                   /\ a.sm < All => mps /\ Len(list) = 2 /\ policy = "capped_hetero"

=============================================================================
