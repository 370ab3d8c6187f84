---------------------------- MODULE SharesProofs ----------------------------
(***************************************************************************)
(* What is promised about shares, for any tenants, grid and pool: who is   *)
(* hungry and that the feeder's budgets fit the pool (IdleShares), what    *)
(* the ratio engine decides and that the ledger's entries fit the GPU      *)
(* (Placement), and that contracts decided together are served (Pair).     *)
(*                                                                         *)
(* Budgets and ledger are about sums, so the facts about sums come first.  *)
(***************************************************************************)
EXTENDS IdleShares, Pair, FiniteSetTheorems, TLAPS

---------------------------------------------------------------------------
(* Sums.  The library's sum is a recursive function on the subsets of the set it is    *)
(* taken over.  That it satisfies its recursion, and what follows by induction on the  *)
(* set, is shown with a least counterexample: finite sets have no endless chains of    *)
(* proper subsets.                                                                     *)

\* g is that function for the sum of f over S.
IsIter(g, f, S) ==
    g = [s \in SUBSET S |->
            IF s = {} THEN 0 ELSE LET x == CHOOSE x \in s : TRUE IN f[x] + g[s \ {x}]]

Iter(f, S) == CHOOSE g : IsIter(g, f, S)

\* A set of subsets of a finite set has one with no other inside.
LEMMA LeastSet ==
    ASSUME NEW S, IsFiniteSet(S), NEW C \in SUBSET (SUBSET S), C # {}
    PROVE  \E m \in C : IsFiniteSet(m) /\ \A u \in C : u \subseteq m => u = m
<1>1. C \subseteq FiniteSubsetsOf(S)
  BY FS_FiniteSubsetsOfFinite
<1>2. PICK m \in C : \A u \in C : ~(<<u, m>> \in StrictSubsetOrdering(S))
  <2> HIDE DEF StrictSubsetOrdering, FiniteSubsetsOf
  <2>1. IsWellFoundedOn(StrictSubsetOrdering(S), FiniteSubsetsOf(S))
    BY FS_StrictSubsetOrderingWellFounded
  <2> QED BY <1>1, <2>1, WFMin
<1>3. \A u \in C : u \subseteq m => u = m
  BY <1>2 DEF StrictSubsetOrdering
<1>4. IsFiniteSet(m)
  BY FS_Subset
<1> QED BY <1>3, <1>4

\* Two such functions agree where both are defined.
LEMMA IterAgrees ==
    ASSUME NEW f, NEW S, NEW T, NEW g, NEW h, IsIter(g, f, S), IsIter(h, f, T),
           NEW U, IsFiniteSet(U), U \subseteq S, U \subseteq T
    PROVE  g[U] = h[U]
<1> DEFINE Bad == {u \in SUBSET U : g[u] # h[u]}
<1>1. SUFFICES ASSUME Bad # {} PROVE FALSE
  OBVIOUS
<1>2. PICK m \in Bad : \A u \in Bad : u \subseteq m => u = m
  <2>1. Bad \in SUBSET (SUBSET U)
    OBVIOUS
  <2> HIDE DEF Bad
  <2> QED BY <1>1, <2>1, LeastSet
<1>3. m # {}
  BY <1>2 DEF IsIter
<1> DEFINE x == CHOOSE x \in m : TRUE
<1>4. x \in m /\ m \ {x} \subseteq U
  BY <1>3
<1>5. g[m \ {x}] = h[m \ {x}]
  BY <1>2, <1>4
<1>6. g[m] = f[x] + g[m \ {x}] /\ h[m] = f[x] + h[m \ {x}]
  BY <1>3 DEF IsIter
<1> QED BY <1>5, <1>6

\* There is one for every finite set.
LEMMA IterExists ==
    ASSUME NEW f, NEW S, IsFiniteSet(S)
    PROVE  IsIter(Iter(f, S), f, S)
<1> DEFINE Bad == {u \in SUBSET S : ~IsIter(Iter(f, u), f, u)}
<1>1. SUFFICES ASSUME Bad # {} PROVE FALSE
  OBVIOUS
<1>2. PICK m \in Bad : IsFiniteSet(m) /\ \A u \in Bad : u \subseteq m => u = m
  <2>1. Bad \in SUBSET (SUBSET S)
    OBVIOUS
  <2> HIDE DEF Bad
  <2> QED BY <1>1, <2>1, LeastSet
<1>3. \A u : u \subseteq m /\ u # m => IsFiniteSet(u) /\ IsIter(Iter(f, u), f, u)
  BY <1>2, FS_Subset
<1> DEFINE last(s) == CHOOSE x \in s : TRUE
           rest(s) == s \ {last(s)}
           G == [s \in SUBSET m |-> IF s = {} THEN 0 ELSE f[last(s)] + Iter(f, rest(s))[rest(s)]]
<1>4. ASSUME NEW u, u \subseteq m, u # m PROVE G[u] = Iter(f, u)[u]
  <2>1. CASE u = {}
    <3>1. IsIter(Iter(f, {}), f, {})
      BY <1>3, <1>4, <2>1
    <3>2. Iter(f, {})[{}] = 0
      BY <3>1 DEF IsIter
    <3>3. G[{}] = 0
      OBVIOUS
    <3> HIDE DEF G
    <3> QED BY <2>1, <3>2, <3>3
  <2>2. CASE u # {}
    <3>1. rest(u) \subseteq u /\ rest(u) # u
      BY <2>2
    <3>2. Iter(f, u)[rest(u)] = Iter(f, rest(u))[rest(u)]
      BY <1>3, <1>4, <3>1, IterAgrees
    <3>3. Iter(f, u)[u] = f[last(u)] + Iter(f, u)[rest(u)]
      BY <1>3, <1>4, <2>2 DEF IsIter
    <3>4. G[u] = f[last(u)] + Iter(f, rest(u))[rest(u)]
      BY <1>4, <2>2
    <3> HIDE DEF G, rest, last
    <3> QED BY <3>2, <3>3, <3>4
  <2> QED BY <2>1, <2>2
<1>5. ASSUME NEW s \in SUBSET m, s # {} PROVE Iter(f, rest(s))[rest(s)] = G[rest(s)]
  <2>1. rest(s) \subseteq m /\ rest(s) # m
    BY <1>5
  <2> QED BY <1>4, <2>1
<1>6. G = [s \in SUBSET m |-> IF s = {} THEN 0 ELSE f[last(s)] + G[rest(s)]]
  <2> DEFINE H == [s \in SUBSET m |-> IF s = {} THEN 0 ELSE f[last(s)] + G[rest(s)]]
  <2>1. ASSUME NEW s \in SUBSET m
        PROVE  (IF s = {} THEN 0 ELSE f[last(s)] + Iter(f, rest(s))[rest(s)])
                    = (IF s = {} THEN 0 ELSE f[last(s)] + G[rest(s)])
    <3> HIDE DEF G, last, rest
    <3> QED BY <1>5
  <2> HIDE DEF rest, last
  <2> QED BY <2>1 DEF G
<1>7. IsIter(G, f, m)
  <2> HIDE DEF G
  <2> QED BY <1>6 DEF IsIter
<1>8. IsIter(Iter(f, m), f, m)
  BY <1>7 DEF Iter
<1> QED BY <1>2, <1>8

\* A sum over nothing.
LEMMA SumOfNone == ASSUME NEW f PROVE SumFunctionOnSet(f, {}) = 0
<1>1. SumFunctionOnSet(f, {}) = Iter(f, {})[{}]
  BY DEF SumFunctionOnSet, FoldFunctionOnSet, MapThenFoldSet, IsIter, Iter
<1>2. IsIter(Iter(f, {}), f, {})
  BY IterExists, FS_EmptySet
<1> QED BY <1>1, <1>2 DEF IsIter

\* A sum over a set is one member's part and the sum over the rest.
LEMMA SumUnfolds ==
    ASSUME NEW f, NEW S, IsFiniteSet(S), S # {}
    PROVE  \E x \in S : SumFunctionOnSet(f, S) = f[x] + SumFunctionOnSet(f, S \ {x})
<1>1. \A T : SumFunctionOnSet(f, T) = Iter(f, T)[T]
  BY DEF SumFunctionOnSet, FoldFunctionOnSet, MapThenFoldSet, IsIter, Iter
<1> DEFINE x == CHOOSE x \in S : TRUE
<1>2. x \in S
  OBVIOUS
<1>3. IsFiniteSet(S \ {x})
  BY FS_RemoveElement
<1>4. IsIter(Iter(f, S), f, S) /\ IsIter(Iter(f, S \ {x}), f, S \ {x})
  BY <1>3, IterExists
<1>5. Iter(f, S)[S \ {x}] = Iter(f, S \ {x})[S \ {x}]
  BY <1>3, <1>4, IterAgrees
<1>6. Iter(f, S)[S] = f[x] + Iter(f, S)[S \ {x}]
  BY <1>4 DEF IsIter
<1> QED BY <1>1, <1>2, <1>5, <1>6

\* A sum of naturals is a natural.
LEMMA SumType ==
    ASSUME NEW f, NEW S, IsFiniteSet(S), \A x \in S : f[x] \in Nat
    PROVE  SumFunctionOnSet(f, S) \in Nat
<1> DEFINE Bad == {u \in SUBSET S : SumFunctionOnSet(f, u) \notin Nat}
<1>1. SUFFICES ASSUME Bad # {} PROVE FALSE
  OBVIOUS
<1>2. PICK m \in Bad : IsFiniteSet(m) /\ \A u \in Bad : u \subseteq m => u = m
  <2>1. Bad \in SUBSET (SUBSET S)
    OBVIOUS
  <2> HIDE DEF Bad
  <2> QED BY <1>1, <2>1, LeastSet
<1>3. m # {}
  <2>1. {} \notin Bad
    BY SumOfNone
  <2> HIDE DEF Bad
  <2> QED BY <1>2, <2>1
<1>4. PICK x \in m : SumFunctionOnSet(f, m) = f[x] + SumFunctionOnSet(f, m \ {x})
  BY <1>2, <1>3, SumUnfolds
<1>5. SumFunctionOnSet(f, m \ {x}) \in Nat
  BY <1>2
<1> QED BY <1>2, <1>4, <1>5

\* Any element may be taken first.
LEMMA SumWithout ==
    ASSUME NEW f, NEW S, IsFiniteSet(S), \A x \in S : f[x] \in Nat, NEW y \in S
    PROVE  /\ SumFunctionOnSet(f, S \ {y}) \in Nat
           /\ SumFunctionOnSet(f, S) = f[y] + SumFunctionOnSet(f, S \ {y})
<1> DEFINE Sum(T) == SumFunctionOnSet(f, T)
           Bad == {u \in SUBSET S : \E z \in u : Sum(u) # f[z] + Sum(u \ {z})}
<1>1. \A T \in SUBSET S : Sum(T) \in Nat /\ IsFiniteSet(T)
  BY SumType, FS_Subset
<1>2. SUFFICES ASSUME Bad # {} PROVE FALSE
  BY <1>1
<1>3. PICK m \in Bad : \A u \in Bad : u \subseteq m => u = m
  <2>1. Bad \in SUBSET (SUBSET S)
    OBVIOUS
  <2> HIDE DEF Bad
  <2> QED BY <1>2, <2>1, LeastSet
<1>4. PICK z \in m : Sum(m) # f[z] + Sum(m \ {z})
  BY <1>3
<1>5. PICK x \in m : Sum(m) = f[x] + Sum(m \ {x})
  BY <1>1, <1>3, <1>4, SumUnfolds
<1>6. x # z
  BY <1>4, <1>5
<1>7. Sum(m \ {x}) = f[z] + Sum((m \ {x}) \ {z})
  <2>1. m \ {x} \notin Bad
    <3> HIDE DEF Bad
    <3> QED BY <1>3
  <2> QED BY <1>3, <1>6, <2>1
<1>8. Sum(m \ {z}) = f[x] + Sum((m \ {z}) \ {x})
  <2>1. m \ {z} \notin Bad
    <3> HIDE DEF Bad
    <3> QED BY <1>3
  <2> QED BY <1>3, <1>6, <2>1
<1>9. (m \ {x}) \ {z} = (m \ {z}) \ {x}
  OBVIOUS
<1>10. f[x] \in Nat /\ f[z] \in Nat /\ Sum((m \ {z}) \ {x}) \in Nat
  BY <1>1, <1>3
<1> HIDE DEF Sum, Bad
<1> QED BY <1>4, <1>5, <1>7, <1>8, <1>9, <1>10

\* If c times the one is at most d times the other, member by member, so are the sums.
LEMMA SumScales ==
    ASSUME NEW f, NEW g, NEW S, IsFiniteSet(S), NEW c \in Nat, NEW d \in Nat,
           \A x \in S : f[x] \in Nat /\ g[x] \in Nat /\ c * f[x] <= d * g[x]
    PROVE  c * SumFunctionOnSet(f, S) <= d * SumFunctionOnSet(g, S)
<1> DEFINE Bad == {u \in SUBSET S : ~(c * SumFunctionOnSet(f, u) <= d * SumFunctionOnSet(g, u))}
<1>1. SUFFICES ASSUME Bad # {} PROVE FALSE
  OBVIOUS
<1>2. PICK m \in Bad : IsFiniteSet(m) /\ \A u \in Bad : u \subseteq m => u = m
  <2>1. Bad \in SUBSET (SUBSET S)
    OBVIOUS
  <2> HIDE DEF Bad
  <2> QED BY <1>1, <2>1, LeastSet
<1>3. m # {}
  <2>1. SumFunctionOnSet(f, {}) = 0 /\ SumFunctionOnSet(g, {}) = 0
    BY SumOfNone
  <2>2. {} \notin Bad
    BY <2>1
  <2> HIDE DEF Bad
  <2> QED BY <1>2, <2>2
<1>4. PICK x : x \in m
  BY <1>3
<1> DEFINE F == SumFunctionOnSet(f, m \ {x})
           G == SumFunctionOnSet(g, m \ {x})
<1>5. /\ F \in Nat /\ SumFunctionOnSet(f, m) = f[x] + F
      /\ G \in Nat /\ SumFunctionOnSet(g, m) = g[x] + G
  <2>1. \A y \in m : f[y] \in Nat /\ g[y] \in Nat
    BY <1>2
  <2>2. IsFiniteSet(m)
    BY <1>2
  <2>3. /\ SumFunctionOnSet(f, m \ {x}) \in Nat
        /\ SumFunctionOnSet(f, m) = f[x] + SumFunctionOnSet(f, m \ {x})
    BY <1>4, <2>1, <2>2, SumWithout
  <2>4. /\ SumFunctionOnSet(g, m \ {x}) \in Nat
        /\ SumFunctionOnSet(g, m) = g[x] + SumFunctionOnSet(g, m \ {x})
    BY <1>4, <2>1, <2>2, SumWithout
  <2> QED BY <2>3, <2>4
<1>6. c * F <= d * G
  BY <1>2, <1>4
<1>7. f[x] \in Nat /\ g[x] \in Nat /\ c * f[x] <= d * g[x]
  BY <1>2, <1>4
<1> HIDE DEF F, G
<1>8. c * (f[x] + F) = c * f[x] + c * F /\ d * (g[x] + G) = d * g[x] + d * G
  BY <1>5, <1>7
<1>9. c * f[x] \in Nat /\ c * F \in Nat /\ d * g[x] \in Nat /\ d * G \in Nat
  BY <1>5, <1>7
<1>10. c * (f[x] + F) <= d * (g[x] + G)
  BY <1>6, <1>7, <1>8, <1>9
<1> QED BY <1>2, <1>5, <1>10

\* Of sums of the same members, the one with the greater is the greater.
LEMMA SumMonotone ==
    ASSUME NEW f, NEW g, NEW S, IsFiniteSet(S),
           \A x \in S : f[x] \in Nat /\ g[x] \in Nat /\ f[x] <= g[x]
    PROVE  SumFunctionOnSet(f, S) <= SumFunctionOnSet(g, S)
<1>1. \A x \in S : 1 * f[x] <= 1 * g[x]
  OBVIOUS
<1>2. 1 * SumFunctionOnSet(f, S) <= 1 * SumFunctionOnSet(g, S)
  BY <1>1, SumScales
<1> QED BY <1>2, SumType

\* Sums see only the values on the set.
LEMMA SumSame ==
    ASSUME NEW f, NEW g, NEW S, IsFiniteSet(S), \A x \in S : f[x] \in Nat /\ f[x] = g[x]
    PROVE  SumFunctionOnSet(f, S) = SumFunctionOnSet(g, S)
<1>1. SumFunctionOnSet(f, S) <= SumFunctionOnSet(g, S) /\ SumFunctionOnSet(g, S) <= SumFunctionOnSet(f, S)
  BY SumMonotone
<1>2. SumFunctionOnSet(f, S) \in Nat /\ SumFunctionOnSet(g, S) \in Nat
  BY SumType
<1> QED BY <1>1, <1>2

\* Fewer members, less sum.
LEMMA SumOfFewer ==
    ASSUME NEW f, NEW S, IsFiniteSet(S), \A x \in S : f[x] \in Nat, NEW T \in SUBSET S
    PROVE  SumFunctionOnSet(f, T) <= SumFunctionOnSet(f, S)
<1> DEFINE Sum(u) == SumFunctionOnSet(f, u)
           Bad == {u \in SUBSET S : T \subseteq u /\ ~(Sum(T) <= Sum(u))}
<1>1. \A u \in SUBSET S : Sum(u) \in Nat /\ IsFiniteSet(u)
  BY SumType, FS_Subset
<1>2. SUFFICES ASSUME Bad # {} PROVE FALSE
  OBVIOUS
<1>3. PICK m \in Bad : \A u \in Bad : u \subseteq m => u = m
  <2>1. Bad \in SUBSET (SUBSET S)
    OBVIOUS
  <2> HIDE DEF Bad
  <2> QED BY <1>2, <2>1, LeastSet
<1>4. PICK x \in m : x \notin T
  <2>1. T \notin Bad
    BY <1>1
  <2>2. T \subseteq m
    BY <1>3
  <2>3. m # T
    <3> HIDE DEF Bad
    <3> QED BY <1>3, <2>1
  <2> QED BY <2>2, <2>3
<1>5. Sum(m) = f[x] + Sum(m \ {x}) /\ Sum(m \ {x}) \in Nat /\ f[x] \in Nat
  BY <1>1, <1>3, SumWithout
<1>6. Sum(T) <= Sum(m \ {x})
  BY <1>3, <1>4
<1>7. Sum(T) \in Nat /\ ~(Sum(T) <= Sum(m))
  BY <1>1, <1>3
<1> HIDE DEF Sum
<1> QED BY <1>5, <1>6, <1>7

\* No member is greater than the sum.
LEMMA SumOfOne ==
    ASSUME NEW f, NEW S, IsFiniteSet(S), \A x \in S : f[x] \in Nat, NEW y \in S
    PROVE  f[y] <= SumFunctionOnSet(f, S)
<1>1. /\ SumFunctionOnSet(f, S \ {y}) \in Nat
      /\ SumFunctionOnSet(f, S) = f[y] + SumFunctionOnSet(f, S \ {y})
  BY SumWithout
<1>2. f[y] \in Nat
  OBVIOUS
<1> QED BY <1>1, <1>2

\* The sum of h is that of f and, where h has more, of g.
LEMMA SumAdds ==
    ASSUME NEW f, NEW g, NEW h, NEW S, IsFiniteSet(S), NEW T \in SUBSET S,
           \A x \in S : f[x] \in Nat /\ (x \in T => g[x] \in Nat)
                        /\ h[x] = IF x \in T THEN f[x] + g[x] ELSE f[x]
    PROVE  SumFunctionOnSet(h, S) = SumFunctionOnSet(f, S) + SumFunctionOnSet(g, T)
<1> DEFINE F(u) == SumFunctionOnSet(f, u)
           H(u) == SumFunctionOnSet(h, u)
           G(u) == SumFunctionOnSet(g, u \cap T)
           Bad == {u \in SUBSET S : H(u) # F(u) + G(u)}
<1>1. T = S \cap T
  OBVIOUS
<1>2. SUFFICES ASSUME Bad # {} PROVE FALSE
  BY <1>1
<1>3. PICK m \in Bad : IsFiniteSet(m) /\ \A u \in Bad : u \subseteq m => u = m
  <2>1. Bad \in SUBSET (SUBSET S)
    OBVIOUS
  <2> HIDE DEF Bad
  <2> QED BY <1>2, <2>1, LeastSet
<1>4. m # {}
  <2>1. SumFunctionOnSet(f, {}) = 0 /\ SumFunctionOnSet(g, {}) = 0 /\ SumFunctionOnSet(h, {}) = 0
    BY SumOfNone
  <2>2. {} \cap T = {}
    OBVIOUS
  <2>3. {} \notin Bad
    BY <2>1, <2>2
  <2> HIDE DEF Bad
  <2> QED BY <1>3, <2>3
<1>5. PICK x : x \in m
  BY <1>4
<1>6. \A y \in m : f[y] \in Nat /\ h[y] \in Nat /\ (y \in T => g[y] \in Nat)
  BY <1>3
<1>7. /\ F(m \ {x}) \in Nat /\ F(m) = f[x] + F(m \ {x})
      /\ H(m \ {x}) \in Nat /\ H(m) = h[x] + H(m \ {x})
  BY <1>3, <1>5, <1>6, SumWithout
<1>8. H(m \ {x}) = F(m \ {x}) + G(m \ {x})
  BY <1>3, <1>5
<1>9. IsFiniteSet(m \cap T) /\ G(m) \in Nat /\ G(m \ {x}) \in Nat
  <2>1. IsFiniteSet(m \cap T) /\ IsFiniteSet((m \ {x}) \cap T)
    BY <1>3, FS_Subset
  <2> QED BY <1>6, <2>1, SumType
<1>10. CASE x \in T
  <2>1. (m \ {x}) \cap T = (m \cap T) \ {x}
    OBVIOUS
  <2>2. G(m) = g[x] + G(m \ {x}) /\ g[x] \in Nat
    BY <1>5, <1>6, <1>9, <1>10, <2>1, SumWithout
  <2>3. h[x] = f[x] + g[x] /\ f[x] \in Nat
    BY <1>3, <1>5, <1>10
  <2>4. H(m) # F(m) + G(m)
    BY <1>3
  <2> HIDE DEF F, G, H
  <2> QED BY <1>7, <1>8, <1>9, <2>2, <2>3, <2>4
<1>11. CASE x \notin T
  <2>1. (m \ {x}) \cap T = m \cap T
    BY <1>11
  <2>2. h[x] = f[x] /\ f[x] \in Nat
    BY <1>3, <1>5, <1>11
  <2>3. H(m) # F(m) + G(m) /\ G(m) = G(m \ {x})
    BY <1>3, <2>1
  <2> HIDE DEF F, G, H
  <2> QED BY <1>7, <1>8, <1>9, <2>2, <2>3
<1> QED BY <1>10, <1>11

---------------------------------------------------------------------------
(* Hunger *)

\* The types of what the judgements work with.
AppetiteOK ==
    /\ DOMAIN ratio \subseteq Tenants /\ armed \subseteq DOMAIN ratio
    /\ anchored \subseteq Tenants
    /\ DOMAIN state \subseteq Tenants
    /\ \A t \in DOMAIN state : state[t] \in JudgementState
    /\ wanted \in [Tenants -> 0 .. Hold]
    /\ fed \in [Tenants -> 0 .. LongAgo]

\* Contrary judgements of a sated tenant are its own wanting ones; the age of a hungry
\* one's state is no more than the time since it became hungry; one that has no anchor
\* starts from nothing.
Earned(t) ==
    /\ t \notin anchored => ~state[t].hungry /\ state[t].streak = 0
    /\ ~state[t].hungry => state[t].streak <= wanted[t]
    /\ state[t].hungry => state[t].since <= fed[t]

AppetiteInv == AppetiteOK /\ \A t \in DOMAIN state : Earned(t)

---------------------------------------------------------------------------

\* The bounds of the counters are numbers.
LEMMA Numbers == Hold \in Nat \ {0} /\ LongAgo \in Nat
<1>1. \A m, n \in Nat \ {0} : m * n \in Nat
  OBVIOUS
<1> QED BY <1>1, RedistAssumption DEF LongAgo

\* A state grows older and nothing else; a new one is fresh.
LEMMA AgedIs ==
    ASSUME AppetiteInv, NEW d \in {1, 2}, NEW t \in DOMAIN Aged(d)
    PROVE  /\ DOMAIN Aged(d) = DOMAIN state \cup armed
           /\ Aged(d)[t] \in JudgementState
           /\ t \in DOMAIN state =>
                /\ Aged(d)[t].hungry = state[t].hungry /\ Aged(d)[t].streak = state[t].streak
                /\ Aged(d)[t].since = AtMost(state[t].since + d, LongAgo)
           /\ t \notin DOMAIN state => Aged(d)[t] = Fresh
<1>1. LongAgo \in Nat /\ Hold \in Nat
  BY Numbers
<1>2. ASSUME t \in DOMAIN state PROVE state[t] \in JudgementState
  BY <1>2 DEF AppetiteInv, AppetiteOK
<1>3. DOMAIN Aged(d) = DOMAIN state \cup armed
  BY DEF Aged
<1>4. CASE t \in DOMAIN state
  <2>1. Aged(d)[t] = [state[t] EXCEPT !.since = AtMost(@ + d, LongAgo)]
    BY <1>4 DEF Aged
  <2>2. AtMost(state[t].since + d, LongAgo) \in 0 .. LongAgo
    BY <1>1, <1>2, <1>4 DEF JudgementState, AtMost
  <2> QED BY <1>2, <1>3, <1>4, <2>1, <2>2 DEF JudgementState
<1>5. CASE t \notin DOMAIN state
  <2>1. Aged(d)[t] = Fresh
    BY <1>3, <1>5 DEF Aged
  <2>2. Fresh \in JudgementState
    BY <1>1 DEF Fresh, JudgementState
  <2> QED BY <1>3, <1>5, <2>1, <2>2
<1> QED BY <1>4, <1>5

\* Before anybody is judged there is nothing to back.
LEMMA AppetiteAtFirst == Init => AppetiteInv
  BY Numbers DEF Init, AppetiteInv, AppetiteOK, EmptyDict

\* Registration, ratio and disarming keep the evidence.
LEMMA AppetiteByHttp ==
    ASSUME AppetiteInv, NEW t \in Tenants,
           \/ \E r \in Ratios : Register(t, r) \/ SetRatio(t, r)
           \/ Deregister(t) \/ Arm(t) \/ Release(t)
    PROVE  AppetiteInv'
<1>1. ASSUME NEW r \in Ratios, Register(t, r) \/ SetRatio(t, r) PROVE AppetiteInv'
  BY <1>1 DEF AppetiteInv, AppetiteOK, Earned, Register, SetRatio, Put
<1>2. CASE Deregister(t)
  <2>1. AppetiteOK'
    BY <1>2, Numbers DEF AppetiteInv, AppetiteOK, Deregister, Drop
  <2>2. ASSUME NEW n \in DOMAIN state' PROVE Earned(n)'
    <3>1. n \in DOMAIN state /\ n # t /\ state'[n] = state[n] /\ n \in Tenants
      BY <1>2 DEF Deregister, Drop, AppetiteInv, AppetiteOK
    <3> QED BY <1>2, <3>1 DEF Deregister, AppetiteInv, AppetiteOK, Earned
  <2> QED BY <2>1, <2>2 DEF AppetiteInv
<1>3. CASE Arm(t) \/ Release(t)
  BY <1>3 DEF AppetiteInv, AppetiteOK, Earned, Arm, Release
<1> QED BY <1>1, <1>2, <1>3

\* A tick ages, counts and pays; what was judged stands.
LEMMA AppetiteByTick ==
    ASSUME AppetiteInv, NEW d \in {1, 2}, Tick(d)
    PROVE  AppetiteInv'
<1>1. LongAgo \in Nat /\ Hold \in Nat
  BY Numbers
<1>2. fed' \in [Tenants -> 0 .. LongAgo] /\ \A t \in Tenants : fed'[t] = AtMost(fed[t] + d, LongAgo)
  BY <1>1 DEF AppetiteInv, AppetiteOK, Tick, AtMost
<1>3. DOMAIN state' = DOMAIN state /\ \A t \in DOMAIN state : state'[t] = Aged(d)[t] /\ t \in DOMAIN Aged(d)
  BY DEF Tick, Older, Aged
<1>4. ASSUME NEW t \in DOMAIN state PROVE state'[t] \in JudgementState /\ Earned(t)'
  <2>1. state[t] \in JudgementState /\ Earned(t) /\ t \in Tenants
    BY DEF AppetiteInv, AppetiteOK
  <2>2. fed[t] \in 0 .. LongAgo /\ wanted[t] \in 0 .. Hold /\ UNCHANGED <<wanted, anchored>>
    BY <2>1 DEF AppetiteInv, AppetiteOK, Tick
  <2>3. state'[t] \in JudgementState
    BY <1>3, AgedIs
  <2>4. /\ state'[t].hungry = state[t].hungry /\ state'[t].streak = state[t].streak
        /\ state'[t].since = AtMost(state[t].since + d, LongAgo)
    BY <1>3, AgedIs
  <2> QED BY <1>1, <1>2, <2>1, <2>2, <2>3, <2>4 DEF Earned, JudgementState, AtMost
<1> QED BY <1>2, <1>3, <1>4 DEF AppetiteInv, AppetiteOK, Tick

\* A judgement of a tenant: what it does to hunger, streak and age, and to the count of
\* wanting judgements w and the time f since it became hungry.
LEMMA JudgedIs ==
    ASSUME NEW s \in JudgementState, NEW wants \in BOOLEAN
    PROVE  /\ Judged(s, wants) \in JudgementState
           /\ Judged(s, wants).hungry = s.hungry =>
                /\ Judged(s, wants).since = s.since
                /\ Judged(s, wants).streak = 0 \/ (wants # s.hungry /\ Judged(s, wants).streak <= s.streak + 1)
           /\ Judged(s, wants).hungry # s.hungry =>
                /\ Judged(s, wants) = [hungry |-> wants, streak |-> 0, since |-> 0]
                /\ s.streak + 1 >= Hold /\ s.since >= LongAgo /\ wants # s.hungry
<1>1. Hold \in Nat \ {0} /\ LongAgo \in Nat
  BY Numbers
<1>2. AtMost(s.streak + 1, Hold) \in 0 .. Hold /\ AtMost(s.streak + 1, Hold) <= s.streak + 1
  BY <1>1 DEF JudgementState, AtMost
<1>3. CASE wants = s.hungry
  BY <1>1, <1>3 DEF Judged, JudgementState
<1>4. CASE wants # s.hungry /\ s.streak + 1 >= Hold /\ s.since >= LongAgo
  <2>1. Judged(s, wants) = [hungry |-> wants, streak |-> 0, since |-> 0]
    BY <1>4 DEF Judged
  <2> QED BY <1>1, <1>4, <2>1 DEF JudgementState
<1>5. CASE wants # s.hungry /\ ~(s.streak + 1 >= Hold /\ s.since >= LongAgo)
  <2>1. Judged(s, wants) = [s EXCEPT !.streak = AtMost(@ + 1, Hold)]
    BY <1>5 DEF Judged
  <2> QED BY <1>2, <1>5, <2>1 DEF JudgementState
<1> QED BY <1>3, <1>4, <1>5

\* A judgement that is started over is that of a sated tenant without a streak.
LEMMA StartedOver ==
    ASSUME NEW s \in JudgementState
    PROVE  LET r == [s EXCEPT !.hungry = FALSE, !.streak = 0]
           IN r \in JudgementState /\ ~r.hungry /\ r.streak = 0
<1> DEFINE sated == [s EXCEPT !.hungry = FALSE]
<1>1. sated \in JudgementState
  BY DEF JudgementState
<1>2. [s EXCEPT !.hungry = FALSE, !.streak = 0] = [sated EXCEPT !.streak = 0]
  BY Zenon
<1> HIDE DEF sated
<1>3. [sated EXCEPT !.streak = 0] \in JudgementState
  BY <1>1, Numbers DEF JudgementState
<1>4. ~[s EXCEPT !.hungry = FALSE, !.streak = 0].hungry /\ [s EXCEPT !.hungry = FALSE, !.streak = 0].streak = 0
  BY DEF JudgementState
<1> QED BY <1>2, <1>3, <1>4

\* What an evaluation does to one tenant that is armed, and to one that is not.
LEMMA EvaluateIs ==
    ASSUME AppetiteInv, NEW d \in {1, 2}, NEW shows \in [armed -> {"wants", "leaves", "mute"}],
           Evaluate(d, shows), NEW t \in Tenants
    PROVE  /\ t \in DOMAIN state' <=> t \in DOMAIN state \cup armed
           /\ t \in armed => state'[t] = Evaluated(t, Aged(d)[t], shows[t])
           /\ t \in DOMAIN state \ armed => state'[t] = Aged(d)[t]
           /\ t \in anchored' <=> IF t \in armed THEN shows[t] # "mute" ELSE t \in anchored
           /\ wanted'[t] = IF t \notin armed THEN wanted[t]
                           ELSE IF shows[t] # "wants" THEN 0
                           ELSE IF t \in anchored THEN AtMost(wanted[t] + 1, Hold) ELSE wanted[t]
           /\ fed'[t] = IF TurnsHungry(t) THEN 0 ELSE AtMost(fed[t] + d, LongAgo)
<1>1. DOMAIN Aged(d) = DOMAIN state \cup armed
  BY DEF Aged
<1> QED BY <1>1 DEF Evaluate, AppetiteInv, AppetiteOK

\* An evaluation moves the evidence with the judgements.
LEMMA AppetiteByEvaluation ==
    ASSUME AppetiteInv, NEW d \in {1, 2}, NEW shows \in [armed -> {"wants", "leaves", "mute"}],
           Evaluate(d, shows)
    PROVE  AppetiteInv'
<1>1. LongAgo \in Nat /\ Hold \in Nat \ {0}
  BY Numbers
<1>2. ASSUME NEW t \in Tenants PROVE wanted'[t] \in 0 .. Hold /\ fed'[t] \in 0 .. LongAgo
  <2>1. wanted[t] \in 0 .. Hold /\ fed[t] \in 0 .. LongAgo
    BY DEF AppetiteInv, AppetiteOK
  <2> QED BY <1>1, <2>1, EvaluateIs DEF AtMost
<1>3. wanted' \in [Tenants -> 0 .. Hold] /\ fed' \in [Tenants -> 0 .. LongAgo]
  BY <1>2 DEF Evaluate
<1>4. DOMAIN state' \subseteq Tenants /\ anchored' \subseteq Tenants /\ UNCHANGED <<ratio, armed>>
  BY DEF Evaluate, Aged, AppetiteInv, AppetiteOK
<1>5. ASSUME NEW t \in DOMAIN state' PROVE state'[t] \in JudgementState /\ Earned(t)'
  <2>1. t \in Tenants /\ t \in DOMAIN state \cup armed /\ t \in DOMAIN Aged(d)
    BY <1>4, EvaluateIs DEF Aged
  <2>2. wanted[t] \in 0 .. Hold /\ fed[t] \in 0 .. LongAgo
    BY <2>1 DEF AppetiteInv, AppetiteOK
  <2>3. t \in DOMAIN state => Earned(t) /\ state[t] \in JudgementState
    BY DEF AppetiteInv, AppetiteOK
  <2> DEFINE s == Aged(d)[t]
  <2>4. /\ s \in JudgementState
        /\ t \notin anchored => ~s.hungry /\ s.streak = 0
        /\ ~s.hungry => s.streak <= wanted[t]
        /\ s.hungry => s.since <= AtMost(fed[t] + d, LongAgo)
    <3>1. CASE t \in DOMAIN state
      BY <1>1, <2>1, <2>2, <2>3, <3>1, AgedIs DEF Earned, JudgementState, AtMost
    <3>2. CASE t \notin DOMAIN state
      BY <2>1, <2>2, <3>2, AgedIs DEF Fresh
    <3> QED BY <3>1, <3>2
  <2>5. Hungry(t)' <=> state'[t].hungry
    BY DEF Hungry
  <2>6. Hungry(t) <=> s.hungry
    BY <2>1, AgedIs DEF Hungry, Fresh
  <2> HIDE DEF s
  <2>7. CASE t \notin armed
    <3>1. state'[t] = s /\ wanted'[t] = wanted[t] /\ (t \in anchored' <=> t \in anchored)
      BY <2>1, <2>7, EvaluateIs DEF s
    <3>2. fed'[t] = AtMost(fed[t] + d, LongAgo)
      BY <2>1, <2>5, <2>6, <3>1, EvaluateIs DEF TurnsHungry
    <3> QED BY <2>4, <3>1, <3>2 DEF Earned
  <2>8. CASE t \in armed /\ shows[t] = "mute"
    <3>1. state'[t] = [s EXCEPT !.hungry = FALSE, !.streak = 0]
      BY <2>1, <2>8, EvaluateIs DEF s, Evaluated
    <3>2. wanted'[t] \in 0 .. Hold
      BY <1>2, <2>1
    <3>3. state'[t] \in JudgementState /\ ~state'[t].hungry /\ state'[t].streak = 0
      BY <2>4, <3>1, StartedOver
    <3> QED BY <3>2, <3>3 DEF Earned
  <2>9. CASE t \in armed /\ shows[t] # "mute" /\ t \notin anchored
    <3>1. state'[t] = s
      BY <2>1, <2>9, EvaluateIs DEF s, Evaluated
    <3>2. wanted'[t] \in 0 .. Hold
      BY <1>2, <2>1
    <3> QED BY <2>4, <2>9, <3>1, <3>2 DEF Earned
  <2>10. CASE t \in armed /\ shows[t] # "mute" /\ t \in anchored
    <3> DEFINE wants == shows[t] = "wants"
               j == Judged(s, wants)
    <3>1. state'[t] = j
      BY <2>1, <2>10, EvaluateIs DEF s, Evaluated
    <3>2. t \in anchored'
      BY <2>1, <2>10, EvaluateIs
    <3>3. /\ j \in JudgementState
          /\ j.hungry = s.hungry =>
               /\ j.since = s.since
               /\ j.streak = 0 \/ (wants # s.hungry /\ j.streak <= s.streak + 1)
          /\ j.hungry # s.hungry => j = [hungry |-> wants, streak |-> 0, since |-> 0]
      BY <2>4, JudgedIs
    <3>4. wanted'[t] = IF wants THEN AtMost(wanted[t] + 1, Hold) ELSE 0
      BY <2>1, <2>10, EvaluateIs
    <3>5. fed'[t] = IF j.hungry /\ ~s.hungry THEN 0 ELSE AtMost(fed[t] + d, LongAgo)
      BY <2>1, <2>5, <2>6, <3>1, EvaluateIs DEF TurnsHungry
    <3> HIDE DEF j
    <3>6. ~j.hungry => j.streak <= wanted'[t]
      BY <1>1, <2>2, <2>4, <3>3, <3>4 DEF JudgementState, AtMost
    <3>7. j.hungry => j.since <= fed'[t]
      <4>1. CASE j.hungry = s.hungry
        BY <2>4, <3>3, <3>5, <4>1
      <4>2. CASE j.hungry # s.hungry
        <5>1. j.since = 0
          BY <3>3, <4>2
        <5>2. j.hungry \in BOOLEAN /\ s.hungry \in BOOLEAN
          BY <2>4, <3>3 DEF JudgementState
        <5>3. j.hungry => fed'[t] = 0
          BY <3>5, <4>2, <5>2
        <5> QED BY <5>1, <5>3
      <4> QED BY <4>1, <4>2
    <3> QED BY <3>1, <3>2, <3>3, <3>6, <3>7 DEF Earned
  <2> QED BY <2>7, <2>8, <2>9, <2>10
<1> QED BY <1>3, <1>4, <1>5 DEF AppetiteInv, AppetiteOK

---------------------------------------------------------------------------
(* The theorems *)

\* Every step keeps the evidence.
LEMMA AppetiteIsKept == AppetiteInv /\ [Next]_vars => AppetiteInv'
<1> SUFFICES ASSUME AppetiteInv, [Next]_vars PROVE AppetiteInv'
    OBVIOUS
<1>1. CASE UNCHANGED vars
  BY <1>1 DEF AppetiteInv, AppetiteOK, Earned, vars
<1>2. CASE Next
  BY <1>2, AppetiteByHttp, AppetiteByTick, AppetiteByEvaluation DEF Next, Budgets
<1> QED BY <1>1, <1>2

\* Streaks and ages are backed by what the tenant itself has shown.
THEOREM AppetiteInvariant == Spec => []AppetiteInv
  BY AppetiteAtFirst, AppetiteIsKept, PTL DEF Spec

\* Hunger changes only when a tenant that is armed is judged, or is forgotten.
LEMMA HungerMoves ==
    ASSUME AppetiteInv, Next, NEW t \in Tenants, ~(Hungry(t)' <=> Hungry(t))
    PROVE  \/ t \notin anchored' /\ ~Hungry(t)'
           \/ \E d \in {1, 2}, shows \in [armed -> {"wants", "leaves", "mute"}] :
                 Evaluate(d, shows) /\ t \in armed \cap anchored /\ shows[t] # "mute"
<1>1. ASSUME NEW n \in Tenants, Deregister(n) PROVE t \notin anchored' /\ ~Hungry(t)'
  BY <1>1 DEF Deregister, Drop, Hungry
<1>2. ASSUME NEW n \in Tenants, NEW r \in Ratios, Register(n, r) \/ SetRatio(n, r)
      PROVE FALSE
  BY <1>2 DEF Register, SetRatio, Hungry
<1>3. ASSUME NEW n \in Tenants, Arm(n) \/ Release(n)
      PROVE FALSE
  BY <1>3 DEF Arm, Release, Hungry
<1>4. ASSUME NEW d \in {1, 2}, Tick(d) PROVE FALSE
  <2>1. DOMAIN state' = DOMAIN state
    BY <1>4 DEF Tick, Older
  <2>2. t \in DOMAIN state => state'[t].hungry = state[t].hungry
    BY <1>4, AgedIs DEF Tick, Older, Aged
  <2> QED BY <2>1, <2>2 DEF Hungry
<1>5. ASSUME NEW d \in {1, 2}, NEW shows \in [armed -> {"wants", "leaves", "mute"}], Evaluate(d, shows),
             ~(t \in armed \cap anchored /\ shows[t] # "mute")
      PROVE  t \notin anchored' /\ ~Hungry(t)'
  <2>1. CASE t \in armed /\ shows[t] = "mute"
    <3>1. t \in DOMAIN Aged(d)
      BY <2>1 DEF Aged
    <3>2. state'[t] = [Aged(d)[t] EXCEPT !.hungry = FALSE, !.streak = 0]
      BY <1>5, <2>1, EvaluateIs DEF Evaluated
    <3>3. ~state'[t].hungry
      BY <3>1, <3>2, AgedIs, StartedOver
    <3> QED BY <1>5, <2>1, <3>3, EvaluateIs DEF Hungry
  <2>2. CASE ~(t \in armed /\ shows[t] = "mute") /\ t \in DOMAIN state \cup armed
    <3>1. t \in DOMAIN Aged(d) /\ t \in DOMAIN state'
      BY <1>5, <2>2, EvaluateIs DEF Aged
    <3>2. state'[t] = Aged(d)[t]
      BY <1>5, <2>2, EvaluateIs DEF Evaluated
    <3>3. Aged(d)[t].hungry <=> Hungry(t)
      BY <3>1, AgedIs DEF Hungry, Fresh
    <3> QED BY <3>1, <3>2, <3>3 DEF Hungry
  <2>3. CASE t \notin DOMAIN state \cup armed
    BY <1>5, <2>3, EvaluateIs DEF Hungry
  <2> QED BY <2>1, <2>2, <2>3
<1> QED BY <1>1, <1>2, <1>3, <1>4, <1>5 DEF Next, Budgets

\* A judgement that changes hunger rests on Hold of them, or on the length of Dwell.
LEMMA JudgedMoves ==
    ASSUME AppetiteInv, NEW t \in Tenants, ~(Hungry(t)' <=> Hungry(t)),
           NEW d \in {1, 2}, NEW shows \in [armed -> {"wants", "leaves", "mute"}],
           Evaluate(d, shows), t \in armed \cap anchored, shows[t] # "mute"
    PROVE  /\ Hungry(t)' => wanted'[t] = Hold
           /\ ~Hungry(t)' => fed'[t] = LongAgo
<1> DEFINE s == Aged(d)[t]
           wants == shows[t] = "wants"
<1>1. LongAgo \in Nat /\ Hold \in Nat \ {0}
  BY Numbers
<1>2. wanted[t] \in 0 .. Hold /\ fed[t] \in 0 .. LongAgo
  BY DEF AppetiteInv, AppetiteOK
<1>3. t \in DOMAIN Aged(d) /\ t \in DOMAIN state'
  BY EvaluateIs DEF Aged
<1>4. s \in JudgementState /\ (s.hungry <=> Hungry(t))
  BY <1>3, AgedIs DEF Hungry, Fresh
<1>5. ~s.hungry => s.streak <= wanted[t]
  BY <1>2, <1>3, AgedIs DEF AppetiteInv, Earned, Fresh
<1>6. s.hungry => s.since <= AtMost(fed[t] + d, LongAgo)
  <2> SUFFICES ASSUME Hungry(t) PROVE s.since <= AtMost(fed[t] + d, LongAgo)
      BY <1>4
  <2>1. t \in DOMAIN state /\ state[t] \in JudgementState /\ state[t].since <= fed[t]
    BY DEF Hungry, AppetiteInv, AppetiteOK, Earned
  <2>2. s.since = AtMost(state[t].since + d, LongAgo)
    BY <1>3, <2>1, AgedIs
  <2> QED BY <1>1, <1>2, <2>1, <2>2 DEF JudgementState, AtMost
<1>7. state'[t] = Judged(s, wants)
  BY EvaluateIs DEF Evaluated
<1> HIDE DEF s
<1>8. Judged(s, wants).hungry # s.hungry
  BY <1>3, <1>4, <1>7 DEF Hungry
<1>9. /\ Judged(s, wants) = [hungry |-> wants, streak |-> 0, since |-> 0]
      /\ s.streak + 1 >= Hold /\ s.since >= LongAgo /\ wants # s.hungry
  BY <1>4, <1>8, JudgedIs
<1>10. Hungry(t)' <=> wants
  <2>1. Judged(s, wants).hungry \in BOOLEAN /\ s.hungry \in BOOLEAN
    BY <1>4, JudgedIs DEF JudgementState
  <2>2. Hungry(t)' <=> Judged(s, wants).hungry
    BY <1>3, <1>7 DEF Hungry
  <2> QED BY <1>8, <1>9, <2>1, <2>2
<1>11. ASSUME wants PROVE wanted'[t] = Hold
  <2>1. wanted'[t] = AtMost(wanted[t] + 1, Hold)
    BY <1>11, EvaluateIs
  <2>2. s.streak <= wanted[t] /\ s.streak \in Nat
    BY <1>4, <1>5, <1>9, <1>11 DEF JudgementState
  <2> QED BY <1>1, <1>2, <1>9, <2>1, <2>2 DEF AtMost
<1>12. ASSUME ~wants PROVE fed'[t] = LongAgo
  <2>1. fed'[t] = AtMost(fed[t] + d, LongAgo)
    BY <1>10, <1>12, EvaluateIs DEF TurnsHungry
  <2>2. s.hungry /\ s.since \in Nat
    BY <1>4, <1>9, <1>12 DEF JudgementState
  <2> QED BY <1>1, <1>2, <1>6, <1>9, <2>1, <2>2 DEF AtMost
<1> QED BY <1>10, <1>11, <1>12

\* A tenant becomes hungry after Hold judgements running of its own.
THEOREM HungerNeedsEvidence == Spec => HungerIsEarned
<1>1. AppetiteInv /\ [Next]_vars => [\A t \in Tenants : TurnsHungry(t) => wanted'[t] = Hold]_vars
  <2> SUFFICES ASSUME AppetiteInv, Next, NEW t \in Tenants, TurnsHungry(t) PROVE wanted'[t] = Hold
      OBVIOUS
  <2> QED BY HungerMoves, JudgedMoves DEF TurnsHungry
<1> QED BY AppetiteInvariant, <1>1, PTL DEF Spec, HungerIsEarned

\* One that is judged sated has been hungry for Dwell periods.
THEOREM HungerIsSteady == Spec => NoSwing
<1>1. AppetiteInv /\ [Next]_vars =>
        [\A t \in Tenants : Hungry(t) /\ ~Hungry(t)' /\ t \in anchored' => fed'[t] = LongAgo]_vars
  <2> SUFFICES ASSUME AppetiteInv, Next, NEW t \in Tenants, Hungry(t), ~Hungry(t)', t \in anchored'
               PROVE  fed'[t] = LongAgo
      OBVIOUS
  <2> QED BY HungerMoves, JudgedMoves
<1> QED BY AppetiteInvariant, <1>1, PTL DEF Spec, NoSwing

---------------------------------------------------------------------------
(* Budgets *)

\* The types that the judgements leave out.  The registered are finitely many, or their
\* sums would mean nothing.
BudgetOK ==
    /\ \A t \in DOMAIN ratio : ratio[t] \in Ratios
    /\ IsFiniteSet(DOMAIN ratio)
    /\ \A t \in DOMAIN extra : extra[t] \in 0 .. Pool
    /\ evalAge \in 0 .. EvalTicks
    /\ DOMAIN bud \subseteq Tenants
    /\ \A t \in DOMAIN bud : bud[t] \in Nat \ {0}
    /\ grown \in BOOLEAN

\* The base shares and the extras that are paid on to the armed fit the pool, if no
\* share was added or raised since the extras were computed.
PoolHolds == ~grown => ArmedSum + SumFunctionOnSet(extra, armed \cap DOMAIN extra) <= Pool

BudgetInv == BudgetOK /\ PoolHolds /\ ExtrasFit

\* A quotient of naturals.
LEMMA Quotient ==
    ASSUME NEW a \in Nat, NEW b \in Nat \ {0}
    PROVE  a \div b \in Nat /\ b * (a \div b) <= a /\ a < b * (a \div b) + b
OBVIOUS

\* A proportional part is no more than what is divided.
LEMMA Part ==
    ASSUME NEW p \in Nat, NEW r \in Nat, NEW all \in Nat \ {0}, r <= all
    PROVE  (p * r) \div all \in Nat /\ all * ((p * r) \div all) <= p * r /\ (p * r) \div all <= p
<1> DEFINE q == (p * r) \div all
<1>1. p * r \in Nat /\ p * all \in Nat /\ p * r <= all * p
  OBVIOUS
<1>2. q \in Nat /\ all * q <= p * r
  BY <1>1, Quotient
<1>3. all * q <= all * p
  BY <1>1, <1>2
<1> HIDE DEF q
<1>4. q <= p
  BY <1>2, <1>3
<1> QED BY <1>2, <1>4 DEF q

\* Proportional parts together are no more than what is divided.
LEMMA PartsTogether ==
    ASSUME NEW f, NEW S, IsFiniteSet(S), NEW p \in Nat, \A x \in S : f[x] \in Nat \ {0}
    PROVE  LET all == SumFunction([x \in S |-> f[x]])
               part == [x \in S |-> (p * f[x]) \div all]
           IN  /\ \A x \in S : part[x] \in 0 .. p
               /\ SumFunctionOnSet(part, S) <= p
<1> DEFINE all == SumFunction([x \in S |-> f[x]])
           part == [x \in S |-> (p * f[x]) \div all]
<1>1. all = SumFunctionOnSet(f, S) /\ all \in Nat
  <2>1. all = SumFunctionOnSet([x \in S |-> f[x]], S)
    BY DEF SumFunction
  <2>2. SumFunctionOnSet([x \in S |-> f[x]], S) = SumFunctionOnSet(f, S)
    BY SumSame
  <2>3. SumFunctionOnSet(f, S) \in Nat
    BY SumType
  <2> QED BY <2>1, <2>2, <2>3
<1>2. CASE S = {}
  <2>1. SumFunctionOnSet(part, {}) = 0
    BY SumOfNone
  <2> QED BY <1>2, <2>1
<1>3. CASE S # {}
  <2> HIDE DEF all
  <2>1. \A x \in S : f[x] <= all
    BY <1>1, SumOfOne
  <2>2. all # 0
    BY <1>1, <1>3, <2>1
  <2>3. \A x \in S : part[x] \in Nat /\ all * part[x] <= p * f[x] /\ part[x] <= p
    BY <1>1, <2>1, <2>2, Part
  <2> HIDE DEF part
  <2>4. all * SumFunctionOnSet(part, S) <= p * all
    BY <1>1, <2>3, SumScales
  <2>5. SumFunctionOnSet(part, S) \in Nat
    BY <2>3, SumType
  <2>6. SumFunctionOnSet(part, S) <= p
    BY <1>1, <2>2, <2>4, <2>5
  <2> QED BY <2>3, <2>6 DEF part, all
<1> QED BY <1>2, <1>3

\* The sum over all of a function's domain.
LEMMA SumOfDomain ==
    ASSUME NEW f, NEW S, IsFiniteSet(S), \A x \in S : f[x] \in Nat
    PROVE  SumFunction([x \in S |-> f[x]]) = SumFunctionOnSet(f, S)
<1>1. SumFunction([x \in S |-> f[x]]) = SumFunctionOnSet([x \in S |-> f[x]], S)
  BY DEF SumFunction
<1>2. SumFunctionOnSet([x \in S |-> f[x]], S) = SumFunctionOnSet(f, S)
  BY SumSame
<1> QED BY <1>1, <1>2

\* What is armed, and what sums of it are.
LEMMA ArmedIs ==
    ASSUME AppetiteInv, BudgetOK
    PROVE  /\ IsFiniteSet(armed) /\ armed \subseteq Tenants /\ armed \subseteq DOMAIN ratio
           /\ \A t \in armed : ratio[t] \in Nat \ {0}
           /\ ArmedSum = SumFunctionOnSet(ratio, armed)
           /\ ArmedSum \in Nat
           /\ IsFiniteSet(armed \cap DOMAIN extra)
           /\ \A t \in DOMAIN extra : extra[t] \in Nat
           /\ SumFunctionOnSet(extra, armed \cap DOMAIN extra) \in Nat
<1>1. IsFiniteSet(armed) /\ armed \subseteq Tenants /\ armed \subseteq DOMAIN ratio
  BY FS_Subset DEF AppetiteInv, AppetiteOK, BudgetOK
<1>2. \A t \in armed : ratio[t] \in Nat \ {0}
  BY <1>1, PoolAssumption DEF BudgetOK
<1>3. ArmedSum = SumFunctionOnSet(ratio, armed)
  BY <1>1, <1>2, SumOfDomain DEF ArmedSum
<1>4. ArmedSum \in Nat
  BY <1>1, <1>2, <1>3, SumType
<1>5. IsFiniteSet(armed \cap DOMAIN extra)
  BY <1>1, FS_Subset
<1>6. \A t \in DOMAIN extra : extra[t] \in Nat
  BY PoolAssumption DEF BudgetOK
<1>7. SumFunctionOnSet(extra, armed \cap DOMAIN extra) \in Nat
  BY <1>5, <1>6, SumType
<1> QED BY <1>1, <1>2, <1>3, <1>4, <1>5, <1>6, <1>7

\* Who loses a share, or has it cut, leaves the others theirs.
LEMMA LessHolds ==
    ASSUME AppetiteInv, BudgetOK, PoolHolds, grown' = grown, armed' \subseteq armed,
           \A t \in armed' : ratio'[t] \in Nat /\ ratio'[t] <= ratio[t],
           DOMAIN extra' \subseteq DOMAIN extra, \A t \in DOMAIN extra' : extra'[t] = extra[t]
    PROVE  PoolHolds'
<1> DEFINE paid == armed \cap DOMAIN extra
           paidOn == armed' \cap DOMAIN extra'
<1>1. /\ IsFiniteSet(armed) /\ IsFiniteSet(paid)
      /\ \A t \in armed : ratio[t] \in Nat
      /\ \A t \in paid : extra[t] \in Nat
      /\ ArmedSum = SumFunctionOnSet(ratio, armed) /\ ArmedSum \in Nat
      /\ SumFunctionOnSet(extra, paid) \in Nat
  BY ArmedIs
<1>2. IsFiniteSet(armed') /\ IsFiniteSet(paidOn)
  BY <1>1, FS_Subset
<1>3. ArmedSum' = SumFunctionOnSet(ratio', armed') /\ ArmedSum' \in Nat
  <2>1. ArmedSum' = SumFunctionOnSet(ratio', armed')
    BY <1>2, SumOfDomain DEF ArmedSum
  <2> QED BY <1>2, <2>1, SumType
<1>4. SumFunctionOnSet(ratio', armed') <= SumFunctionOnSet(ratio, armed')
  BY <1>1, <1>2, SumMonotone
<1>5. SumFunctionOnSet(ratio, armed') <= SumFunctionOnSet(ratio, armed)
  BY <1>1, SumOfFewer
<1>6. SumFunctionOnSet(ratio, armed') \in Nat
  BY <1>1, <1>2, SumType
<1>7. SumFunctionOnSet(extra', paidOn) = SumFunctionOnSet(extra, paidOn)
  <2>1. \A t \in paidOn : extra'[t] \in Nat /\ extra'[t] = extra[t]
    BY <1>1
  <2> QED BY <1>2, <2>1, SumSame
<1>8. SumFunctionOnSet(extra, paidOn) <= SumFunctionOnSet(extra, paid)
  BY <1>1, SumOfFewer
<1>9. SumFunctionOnSet(extra, paidOn) \in Nat
  <2>1. \A t \in paidOn : extra[t] \in Nat
    BY <1>1
  <2> QED BY <1>2, <2>1, SumType
<1>10. SUFFICES ASSUME ~grown PROVE ArmedSum' + SumFunctionOnSet(extra', paidOn) <= Pool
  BY DEF PoolHolds
<1>11. ArmedSum + SumFunctionOnSet(extra, paid) <= Pool
  BY <1>10 DEF PoolHolds
<1> HIDE DEF paid, paidOn
<1> QED BY <1>1, <1>3, <1>4, <1>5, <1>6, <1>7, <1>8, <1>9, <1>11, PoolAssumption

\* Before anything is registered no budget is owed.
LEMMA BudgetsAtFirst == Init => BudgetInv
<1> SUFFICES ASSUME Init PROVE BudgetInv
  OBVIOUS
<1>1. BudgetOK
  <2>1. DOMAIN ratio = {} /\ DOMAIN extra = {} /\ DOMAIN bud = {}
    BY DEF Init, EmptyDict
  <2>2. IsFiniteSet(DOMAIN ratio)
    BY <2>1, FS_EmptySet
  <2>3. evalAge \in 0 .. EvalTicks
    <3>1. EvalTicks \in Nat
      BY RedistAssumption
    <3> QED BY <3>1 DEF Init
  <2>4. grown \in BOOLEAN
    BY DEF Init
  <2> QED BY <2>1, <2>2, <2>3, <2>4 DEF BudgetOK
<1>2. SumFunctionOnSet(extra, armed \cap DOMAIN extra) = 0
  BY SumOfNone DEF Init
<1>3. ArmedSum = 0
  BY SumOfNone DEF Init, ArmedSum, SumFunction
<1>4. SumFunction(bud) = 0
  BY SumOfNone DEF Init, EmptyDict, SumFunction
<1> QED BY <1>1, <1>2, <1>3, <1>4, PoolAssumption DEF BudgetInv, PoolHolds, ExtrasFit

\* What a request does to shares and extras leaves the pool holding.
LEMMA BudgetsByHttp ==
    ASSUME AppetiteInv, BudgetInv, NEW t \in Tenants,
           \/ \E r \in Ratios : Register(t, r) \/ SetRatio(t, r)
           \/ Deregister(t) \/ Arm(t) \/ Release(t)
    PROVE  BudgetInv'
<1> USE DEF BudgetInv
<1>1. \A n \in armed : ratio[n] \in Nat /\ n \in DOMAIN ratio
  BY ArmedIs
<1>2. Ratios \subseteq Nat
  BY PoolAssumption
<1>3. ASSUME NEW r \in Ratios, Register(t, r) PROVE BudgetInv'
  <2>1. DOMAIN ratio' = DOMAIN ratio \cup {t} /\ \A n \in DOMAIN ratio' : ratio'[n] = IF n = t THEN r ELSE ratio[n]
    BY <1>3 DEF Register, Put
  <2>2. IsFiniteSet(DOMAIN ratio')
    BY <2>1, FS_AddElement DEF BudgetOK
  <2>3. BudgetOK'
    BY <1>3, <2>1, <2>2 DEF BudgetOK, Register
  <2>4. PoolHolds'
    BY <1>1, <1>3, <2>1, LessHolds DEF Register
  <2> QED BY <1>3, <2>3, <2>4 DEF Register, ExtrasFit
<1>4. ASSUME NEW r \in Ratios, SetRatio(t, r) PROVE BudgetInv'
  <2>1. DOMAIN ratio' = DOMAIN ratio /\ \A n \in DOMAIN ratio' : ratio'[n] = IF n = t THEN r ELSE ratio[n]
    BY <1>4 DEF SetRatio
  <2>2. grown' \in BOOLEAN
    BY <1>4 DEF SetRatio, BudgetOK
  <2>3. BudgetOK'
    BY <1>4, <2>1, <2>2 DEF BudgetOK, SetRatio
  <2>4. PoolHolds' /\ ExtrasFit'
    <3>1. CASE grown'
      BY <3>1 DEF PoolHolds, ExtrasFit
    <3>2. CASE ~grown'
      <4>1. ~grown /\ ~(t \in armed /\ r > ratio[t])
        BY <1>4, <3>2 DEF SetRatio
      <4>2. \A n \in armed : ratio'[n] \in Nat /\ ratio'[n] <= ratio[n]
        BY <1>1, <1>2, <2>1, <4>1
      <4>3. grown' = grown
        BY <3>2, <4>1, <2>2 DEF BudgetOK
      <4>4. PoolHolds'
        BY <1>4, <4>2, <4>3, LessHolds DEF SetRatio
      <4> QED BY <1>4, <4>1, <4>4 DEF SetRatio, ExtrasFit
    <3> QED BY <3>1, <3>2
  <2> QED BY <2>3, <2>4
<1>5. CASE Deregister(t)
  <2>1. DOMAIN ratio' = DOMAIN ratio \ {t} /\ \A n \in DOMAIN ratio' : ratio'[n] = ratio[n]
    BY <1>5 DEF Deregister, Drop
  <2>2. DOMAIN extra' = DOMAIN extra \ {t} /\ \A n \in DOMAIN extra' : extra'[n] = extra[n]
    BY <1>5 DEF Deregister, Drop
  <2>3. IsFiniteSet(DOMAIN ratio')
    BY <2>1, FS_RemoveElement DEF BudgetOK
  <2>4. BudgetOK'
    BY <1>5, <2>1, <2>2, <2>3 DEF BudgetOK, Deregister
  <2>5. PoolHolds'
    BY <1>1, <1>5, <2>1, <2>2, LessHolds DEF Deregister
  <2> QED BY <1>5, <2>4, <2>5 DEF Deregister, ExtrasFit
<1>6. CASE Arm(t)
  <2>1. BudgetOK'
    BY <1>6 DEF BudgetOK, Arm
  <2>2. CASE grown'
    BY <2>1, <2>2 DEF PoolHolds, ExtrasFit
  <2>3. CASE ~grown'
    <3>1. ~grown /\ armed' = armed
      BY <1>6, <2>3 DEF Arm
    <3>2. ArmedSum' = ArmedSum
      BY <1>6, <3>1 DEF Arm, ArmedSum
    <3> QED BY <1>6, <2>1, <3>1, <3>2 DEF Arm, PoolHolds, ExtrasFit
  <2> QED BY <2>2, <2>3
<1>7. CASE Release(t)
  <2>1. BudgetOK'
    BY <1>7 DEF BudgetOK, Release
  <2>2. PoolHolds'
    BY <1>1, <1>7, LessHolds DEF Release
  <2> QED BY <1>7, <2>1, <2>2 DEF Release, ExtrasFit
<1> QED BY <1>3, <1>4, <1>5, <1>6, <1>7

\* Nobody armed has nothing; while the shares fit, each has its own.
LEMMA BaseIs ==
    ASSUME AppetiteInv, BudgetOK
    PROVE  /\ DOMAIN Base = armed
           /\ \A t \in armed : Base[t] \in Nat \ {0} /\ (ArmedSum <= Pool => Base[t] = ratio[t])
<1>1. DOMAIN Base = armed
  BY DEF Base
<1>2. ASSUME NEW t \in armed PROVE Base[t] \in Nat \ {0} /\ (ArmedSum <= Pool => Base[t] = ratio[t])
  <2>1. ratio[t] \in Nat \ {0} /\ ArmedSum \in Nat /\ Pool \in Nat
    BY ArmedIs, PoolAssumption
  <2>2. CASE ArmedSum <= Pool
    BY <2>1, <2>2 DEF Base
  <2>3. CASE ~(ArmedSum <= Pool)
    <3> DEFINE part == (Pool * ratio[t]) \div ArmedSum
    <3>1. part \in Nat
      <4>1. Pool * ratio[t] \in Nat /\ ArmedSum \in Nat \ {0}
        BY <2>1, <2>3, PoolAssumption
      <4> QED BY <4>1, Quotient
    <3>2. Base[t] = IF part < 1 THEN 1 ELSE part
      BY <2>3 DEF Base
    <3> HIDE DEF part
    <3> QED BY <2>3, <3>1, <3>2
  <2> QED BY <2>2, <2>3
<1> QED BY <1>1, <1>2

\* The sum of budgets that are shares and, for some, extras.
LEMMA PaidSum ==
    ASSUME AppetiteInv, BudgetOK, ArmedSum <= Pool, NEW e, NEW S \in SUBSET armed, NEW b,
           \A t \in S : e[t] \in Nat,
           b = [t \in armed |-> IF t \in S THEN Base[t] + e[t] ELSE Base[t]]
    PROVE  SumFunction(b) = ArmedSum + SumFunctionOnSet(e, S)
<1>1. /\ IsFiniteSet(armed) /\ ArmedSum = SumFunctionOnSet(ratio, armed)
      /\ \A t \in armed : ratio[t] \in Nat /\ Base[t] = ratio[t]
  BY ArmedIs, BaseIs
<1>2. SumFunction(b) = SumFunctionOnSet(b, armed)
  BY DEF SumFunction
<1>3. \A t \in armed : /\ ratio[t] \in Nat /\ (t \in S => e[t] \in Nat)
                       /\ b[t] = IF t \in S THEN ratio[t] + e[t] ELSE ratio[t]
  BY <1>1
<1>4. SumFunctionOnSet(b, armed) = SumFunctionOnSet(ratio, armed) + SumFunctionOnSet(e, S)
  BY <1>1, <1>3, SumAdds
<1> QED BY <1>1, <1>2, <1>4

\* A tick pays what was judged; between evaluations extras only go.
LEMMA BudgetsByTick ==
    ASSUME AppetiteInv, BudgetInv, NEW d \in {1, 2}, Tick(d)
    PROVE  BudgetInv'
<1> USE DEF BudgetInv
<1> DEFINE S == IF Idle THEN armed \cap DOMAIN extra ELSE {}
<1>1. bud' = [t \in armed |-> IF t \in S THEN Base[t] + extra[t] ELSE Base[t]]
  BY DEF Tick
<1>2. \A t \in S : extra[t] \in Nat
  BY ArmedIs
<1>3. BudgetOK'
  <2>1. \A t \in DOMAIN bud' : bud'[t] \in Nat \ {0}
    <3>1. \A t \in armed : Base[t] \in Nat \ {0}
      BY BaseIs
    <3> HIDE DEF S
    <3> QED BY <1>1, <1>2, <3>1
  <2>2. DOMAIN bud' \subseteq Tenants
    BY <1>1, ArmedIs
  <2>3. evalAge' \in 0 .. EvalTicks
    BY RedistAssumption DEF Tick, AtMost, BudgetOK
  <2> QED BY <2>1, <2>2, <2>3 DEF Tick, BudgetOK
<1>4. PoolHolds'
  BY DEF Tick, PoolHolds, ArmedSum
<1>5. ASSUME ~grown' PROVE SumFunction(bud') <= Pool
  <2>1. ArmedSum + SumFunctionOnSet(extra, armed \cap DOMAIN extra) <= Pool
    BY <1>5 DEF Tick, PoolHolds
  <2>2. /\ ArmedSum \in Nat /\ Pool \in Nat
        /\ SumFunctionOnSet(extra, armed \cap DOMAIN extra) \in Nat
    BY ArmedIs, PoolAssumption
  <2>3. SumFunction(bud') = ArmedSum + SumFunctionOnSet(extra, S)
    <3>1. S \in SUBSET armed
      OBVIOUS
    <3>2. ArmedSum <= Pool
      BY <2>1, <2>2
    <3> HIDE DEF S
    <3> QED BY <1>1, <1>2, <3>1, <3>2, PaidSum
  <2>4. SumFunctionOnSet(extra, S) <= SumFunctionOnSet(extra, armed \cap DOMAIN extra)
    <3>1. CASE Idle
      BY <3>1, <2>2
    <3>2. CASE ~Idle
      <4>1. S = {} /\ SumFunctionOnSet(extra, {}) = 0
        BY <3>2, SumOfNone
      <4> QED BY <2>2, <4>1
    <3> QED BY <3>1, <3>2
  <2>5. SumFunctionOnSet(extra, S) \in Nat
    <3>1. IsFiniteSet(S)
      BY ArmedIs, FS_EmptySet
    <3> HIDE DEF S
    <3> QED BY <1>2, <3>1, SumType
  <2> HIDE DEF S
  <2> QED BY <2>1, <2>2, <2>3, <2>4, <2>5
<1> QED BY <1>3, <1>4, <1>5 DEF ExtrasFit

\* An evaluation hands out no more than the idle gave up.
LEMMA BudgetsByEvaluation ==
    ASSUME AppetiteInv, BudgetInv, NEW d \in {1, 2},
           NEW shows \in [armed -> {"wants", "leaves", "mute"}], Evaluate(d, shows)
    PROVE  BudgetInv'
<1> USE DEF BudgetInv
<1> DEFINE want == Wanting(state', shows)
           p == Pool - ArmedSum
<1>1. /\ IsFiniteSet(armed) /\ armed \subseteq Tenants
      /\ \A t \in armed : ratio[t] \in Nat \ {0}
      /\ ArmedSum \in Nat /\ Pool \in Nat
  BY ArmedIs, PoolAssumption
<1>2. p \in Nat /\ ArmedSum <= Pool
  BY <1>1 DEF Evaluate, Idle
<1>3. want \in SUBSET armed
  BY DEF Wanting
<1>4. extra' = ExtraFor(want)
  BY DEF Evaluate
<1> HIDE DEF want
<1>5. IsFiniteSet(want) /\ \A t \in want : ratio[t] \in Nat \ {0}
  BY <1>1, <1>3, FS_Subset
<1>6. DOMAIN extra' = want /\ \A t \in want : extra'[t] \in 0 .. p
  <2>1. \A t \in want : ExtraFor(want)[t] \in 0 .. p
    BY <1>2, <1>5, PartsTogether DEF ExtraFor
  <2> QED BY <1>4, <2>1 DEF ExtraFor
<1>7. SumFunctionOnSet(extra', want) <= p
  BY <1>2, <1>4, <1>5, PartsTogether DEF ExtraFor
<1>8. bud' = [t \in armed |-> IF t \in want THEN Base[t] + extra'[t] ELSE Base[t]]
  BY <1>6 DEF Evaluate
<1>9. \A t \in want : extra'[t] \in Nat
  BY <1>2, <1>6
<1>10. SumFunction(bud') = ArmedSum + SumFunctionOnSet(extra', want)
  BY <1>2, <1>3, <1>8, <1>9, PaidSum
<1>11. SumFunctionOnSet(extra', want) \in Nat
  BY <1>5, <1>9, SumType
<1>12. ArmedSum + SumFunctionOnSet(extra', want) <= Pool
  BY <1>1, <1>7, <1>11
<1>13. PoolHolds'
  <2>1. armed' \cap DOMAIN extra' = want
    BY <1>3, <1>6 DEF Evaluate
  <2>2. ArmedSum' = ArmedSum
    BY DEF Evaluate, ArmedSum
  <2> QED BY <1>12, <2>1, <2>2 DEF PoolHolds
<1>14. BudgetOK'
  <2>1. \A t \in DOMAIN bud' : bud'[t] \in Nat \ {0}
    <3>1. \A t \in armed : Base[t] \in Nat \ {0}
      BY BaseIs
    <3> QED BY <1>8, <1>9, <3>1
  <2>2. DOMAIN bud' \subseteq Tenants
    BY <1>1, <1>8
  <2>3. \A t \in DOMAIN extra' : extra'[t] \in 0 .. Pool
    BY <1>1, <1>2, <1>6
  <2>4. evalAge' = 0 /\ grown' = FALSE /\ ratio' = ratio
    BY DEF Evaluate
  <2>5. 0 \in 0 .. EvalTicks
    BY RedistAssumption
  <2>6. (\A t \in DOMAIN ratio : ratio[t] \in Ratios) /\ IsFiniteSet(DOMAIN ratio)
    BY DEF BudgetOK
  <2> QED BY <2>1, <2>2, <2>3, <2>4, <2>5, <2>6 DEF BudgetOK
<1> QED BY <1>10, <1>12, <1>13, <1>14 DEF ExtrasFit

\* The budgets' types, and that they fit.
THEOREM BudgetInvariant == Spec => [](AppetiteInv /\ BudgetInv)
<1>1. AppetiteInv /\ BudgetInv /\ [Next]_vars => BudgetInv'
  <2> SUFFICES ASSUME AppetiteInv, BudgetInv, [Next]_vars PROVE BudgetInv'
    OBVIOUS
  <2>1. CASE UNCHANGED vars
    BY <2>1 DEF BudgetInv, BudgetOK, PoolHolds, ExtrasFit, ArmedSum, vars
  <2>2. CASE Next
    BY <2>2, BudgetsByHttp, BudgetsByTick, BudgetsByEvaluation DEF Next, Budgets
  <2> QED BY <2>1, <2>2
<1> QED BY AppetiteInvariant, BudgetsAtFirst, <1>1, PTL DEF Spec

\* Shares, states, extras and budgets are of their types; nobody who is armed gets nothing.
THEOREM BudgetTypeCorrect == Spec => []TypeOK
<1>1. AppetiteInv /\ BudgetInv => TypeOK
  BY DEF AppetiteInv, AppetiteOK, BudgetInv, BudgetOK, TypeOK
<1> QED BY BudgetInvariant, <1>1, PTL

\* The budgets of a tick, extras that are paid on included, fit the pool unless a share
\* was added or raised since the last evaluation, for any number of tenants and shares.
THEOREM BudgetsFit == Spec => []ExtrasFit
<1>1. BudgetInv => ExtrasFit
  BY DEF BudgetInv
<1> QED BY BudgetInvariant, <1>1, PTL

---------------------------------------------------------------------------
(* The ratio engine *)

\* A set of integers between bounds has a greatest and a least.
LEMMA Extremes ==
    ASSUME NEW a \in Int, NEW b \in Int, NEW S \in SUBSET (a .. b), S # {}
    PROVE  /\ Max(S) \in S /\ \A x \in S : x <= Max(S)
           /\ Min(S) \in S /\ \A x \in S : Min(S) <= x
<1> DEFINE U == a .. b
<1>1. IsFiniteSet(U)
  BY FS_Interval
<1>2. \E x \in S : \A y \in S : x >= y
  <2> DEFINE C == {{y \in a .. b : x <= y} : x \in S}
  <2>1. C \in SUBSET (SUBSET U) /\ C # {}
    OBVIOUS
  <2>2. PICK m \in C : \A u \in C : u \subseteq m => u = m
    <3> HIDE DEF C, U
    <3> QED BY <1>1, <2>1, LeastSet
  <2>3. PICK x \in S : m = {y \in a .. b : x <= y}
    BY <2>2
  <2>4. ASSUME NEW z \in S, ~(x >= z) PROVE FALSE
    <3>1. {y \in a .. b : z <= y} \subseteq m /\ x \in m /\ x \notin {y \in a .. b : z <= y}
      BY <2>3, <2>4
    <3>2. {y \in a .. b : z <= y} \in C
      OBVIOUS
    <3> HIDE DEF C
    <3> QED BY <2>2, <3>1, <3>2
  <2> QED BY <2>4
<1>3. \E x \in S : \A y \in S : x <= y
  <2> DEFINE C == {{y \in a .. b : y <= x} : x \in S}
  <2>1. C \in SUBSET (SUBSET U) /\ C # {}
    OBVIOUS
  <2>2. PICK m \in C : \A u \in C : u \subseteq m => u = m
    <3> HIDE DEF C, U
    <3> QED BY <1>1, <2>1, LeastSet
  <2>3. PICK x \in S : m = {y \in a .. b : y <= x}
    BY <2>2
  <2>4. ASSUME NEW z \in S, ~(x <= z) PROVE FALSE
    <3>1. {y \in a .. b : y <= z} \subseteq m /\ x \in m /\ x \notin {y \in a .. b : y <= z}
      BY <2>3, <2>4
    <3>2. {y \in a .. b : y <= z} \in C
      OBVIOUS
    <3> HIDE DEF C
    <3> QED BY <2>2, <3>1, <3>2
  <2> QED BY <2>4
<1> QED BY <1>2, <1>3 DEF Max, Min

\* The greater of two numbers.
LEMMA MaxOfTwo ==
    ASSUME NEW a \in Int, NEW b \in Int
    PROVE  Max({a, b}) = IF a >= b THEN a ELSE b
<1>1. CASE a >= b
  <2>1. \A x \in {a, b} : (\A y \in {a, b} : x >= y) => x = a
    BY <1>1
  <2>2. \E x \in {a, b} : \A y \in {a, b} : x >= y
    BY <1>1
  <2> QED BY <1>1, <2>1, <2>2 DEF Max
<1>2. CASE ~(a >= b)
  <2>1. \A x \in {a, b} : (\A y \in {a, b} : x >= y) => x = b
    BY <1>2
  <2>2. \E x \in {a, b} : \A y \in {a, b} : x >= y
    BY <1>2
  <2> QED BY <1>2, <2>1, <2>2 DEF Max
<1> QED BY <1>1, <1>2

\* The smaller of two numbers.
LEMMA MinOfTwo ==
    ASSUME NEW a \in Int, NEW b \in Int
    PROVE  Min({a, b}) = IF a <= b THEN a ELSE b
<1>1. CASE a <= b
  <2>1. \A x \in {a, b} : (\A y \in {a, b} : x <= y) => x = a
    BY <1>1
  <2>2. \E x \in {a, b} : \A y \in {a, b} : x <= y
    BY <1>1
  <2> QED BY <1>1, <2>1, <2>2 DEF Min
<1>2. CASE ~(a <= b)
  <2>1. \A x \in {a, b} : (\A y \in {a, b} : x <= y) => x = b
    BY <1>2
  <2>2. \E x \in {a, b} : \A y \in {a, b} : x <= y
    BY <1>2
  <2> QED BY <1>2, <2>1, <2>2 DEF Min
<1> QED BY <1>1, <1>2

\* The percentage is never one that libbless takes for unset.
LEMMA LimitPctIs == ASSUME NEW s \in 1 .. Grid PROVE LimitPct(s) \in 1 .. 99
<1>1. (100 * s) \div Grid \in Nat
  BY GridAssumption, Quotient
<1> DEFINE q == (100 * s) \div Grid
<1> HIDE DEF q
<1>2. q \in Nat
  BY <1>1 DEF q
<1> DEFINE m == Min({99, q})
<1>3. m \in Int /\ m <= 99
  BY <1>2, MinOfTwo
<1> HIDE DEF m
<1>4. Max({1, m}) = IF 1 >= m THEN 1 ELSE m
  BY <1>3, MaxOfTwo
<1>5. Max({1, m}) \in 1 .. 99
  BY <1>3, <1>4
<1> QED BY <1>5 DEF LimitPct, m, q

\* A candidate takes the least share of time that makes r of its SMs; with one solution
\* its SMs are a candidate's.
LEMMA TimeForIs ==
    ASSUME NEW r \in Nat \ {0}, NEW s \in Nat \ {0}
    PROVE  /\ TimeFor(r, s) \in Nat \ {0}
           /\ r <= s * TimeFor(r, s)
           /\ \A t \in Nat : r <= s * t => TimeFor(r, s) <= t
<1> DEFINE q == (r + s - 1) \div s
<1>1. q \in Nat /\ s * q <= r + s - 1 /\ r + s - 1 < s * q + s
  BY Quotient
<1> HIDE DEF q
<1>2. r <= s * q
  BY <1>1
<1>3. q # 0
  BY <1>1, <1>2
<1>4. ASSUME NEW t \in Nat, r <= s * t PROVE q <= t
  <2>1. CASE t + 1 <= q
    <3>1. s * (t + 1) <= s * q
      BY <1>1, <2>1
    <3> QED BY <1>1, <1>4, <3>1
  <2> QED BY <1>1, <2>1
<1> QED BY <1>1, <1>2, <1>3, <1>4 DEF q, TimeFor

\* The members of Candidates are solutions, and every solution's SMs are those of one.
LEMMA CandidateIs ==
    ASSUME NEW r \in Nat \ {0}, NEW m \in 0 .. Grid, NEW p \in 0 .. Fine, NEW c \in Candidates(r, m, p)
    PROVE  /\ c = <<c[1], c[2]>> /\ c[2] = TimeFor(r, c[1])
           /\ c[1] \in 1 .. Grid /\ c[1] <= m
           /\ c[2] \in 1 .. Fine /\ c[2] <= p /\ c[1] * c[2] >= r
<1>1. PICK s \in 1 .. Grid : /\ s * Fine >= r /\ s <= m /\ r <= s * p
                             /\ c = <<s, TimeFor(r, s)>>
  BY DEF Candidates
<1>2. s \in Nat \ {0} /\ Fine \in Nat /\ p \in Nat
  BY GridAssumption
<1> DEFINE t == TimeFor(r, s)
<1>3. t \in Nat \ {0} /\ r <= s * t /\ t <= Fine /\ t <= p
  BY <1>1, <1>2, TimeForIs
<1> HIDE DEF t
<1>4. c = <<s, t>> /\ t = TimeFor(r, s)
  BY <1>1 DEF t
<1> QED BY <1>1, <1>2, <1>3, <1>4

\* With a solution its SMs are a candidate's, in no more time.
LEMMA SolutionHasCandidate ==
    ASSUME NEW r \in Nat \ {0}, NEW m \in 0 .. Grid, NEW p \in 0 .. Fine,
           NEW s \in 1 .. Grid, NEW t \in 1 .. Fine, s <= m, t <= p, s * t >= r
    PROVE  <<s, TimeFor(r, s)>> \in Candidates(r, m, p) /\ TimeFor(r, s) <= t
<1>1. s \in Nat \ {0} /\ t \in Nat /\ p \in Nat /\ Fine \in Nat
  BY GridAssumption
<1>2. s * t <= s * Fine /\ s * t <= s * p
  BY <1>1
<1>3. s * Fine >= r /\ r <= s * p
  BY <1>1, <1>2
<1>4. TimeFor(r, s) <= t
  BY <1>1, TimeForIs
<1> QED BY <1>3, <1>4 DEF Candidates

\* Squares keep the order.
LEMMA Squares ==
    ASSUME NEW f \in Nat \ {0}, NEW x \in Nat, NEW y \in Nat
    PROVE  /\ x <= y => f * x * x <= f * y * y
           /\ x < y => f * x * x < f * y * y
<1>1. ASSUME x <= y PROVE x * x <= y * y
  <2>1. x * x <= x * y /\ x * y <= y * y
    BY <1>1
  <2> QED BY <2>1
<1>2. ASSUME x < y PROVE x * x < y * y
  <2>1. x * x <= x * y /\ x * y < y * y
    BY <1>2
  <2> QED BY <2>1
<1>3. f * x * x = f * (x * x) /\ f * y * y = f * (y * y)
  OBVIOUS
<1> DEFINE a == x * x
           b == y * y
<1>4. a \in Nat /\ b \in Nat
  OBVIOUS
<1>5. (a <= b => f * a <= f * b) /\ (a < b => f * a < f * b)
  <2> HIDE DEF a, b
  <2> QED BY <1>4
<1> QED BY <1>1, <1>2, <1>3, <1>5

\* Where s lies of the root, as AsNear measures it.
LEMMA Doubled ==
    ASSUME NEW r \in Nat, NEW s \in Nat
    PROVE  /\ NotBelowRoot(s, r) => 4 * r * Grid <= Fine * (2 * s) * (2 * s)
           /\ NotAboveRoot(s, r) => Fine * (2 * s) * (2 * s) <= 4 * r * Grid
           /\ NotBelowRoot(s, r) \/ NotAboveRoot(s, r)
<1>1. Grid \in Nat /\ Fine \in Nat
  BY GridAssumption
<1> DEFINE root == r * Grid
           sq == s * s * Fine
<1>2. root \in Nat /\ sq \in Nat /\ 4 * r * Grid = 4 * root /\ Fine * (2 * s) * (2 * s) = 4 * sq
  BY <1>1
<1>3. /\ NotBelowRoot(s, r) <=> sq >= root
      /\ NotAboveRoot(s, r) <=> sq <= root
  BY DEF NotBelowRoot, NotAboveRoot
<1> HIDE DEF root, sq
<1> QED BY <1>2, <1>3

\* s that is not below the root is as near as what is above it, s that is not above the
\* root as near as what is below it.
LEMMA NearOutside ==
    ASSUME NEW r \in Nat, NEW s \in Nat, NEW z \in Nat
    PROVE  /\ NotBelowRoot(s, r) /\ s <= z => AsNear(s, z, r)
           /\ NotAboveRoot(s, r) /\ z <= s => AsNear(s, z, r)
<1>1. Grid \in Nat /\ Fine \in Nat \ {0}
  BY GridAssumption
<1> DEFINE root == 4 * r * Grid
           mid == Fine * (s + z) * (s + z)
           own == Fine * (2 * s) * (2 * s)
<1>2. root \in Nat /\ mid \in Nat /\ own \in Nat /\ s + z \in Nat /\ 2 * s \in Nat
  BY <1>1
<1>3. /\ 2 * s <= s + z => own <= mid
      /\ s + z <= 2 * s => mid <= own
  BY <1>1, <1>2, Squares
<1>4. (NotBelowRoot(s, r) => root <= own) /\ (NotAboveRoot(s, r) => own <= root)
  BY Doubled
<1>5. AsNear(s, z, r) <=> IF s <= z THEN s = z \/ root <= mid ELSE root >= mid
  BY DEF AsNear
<1> HIDE DEF root, mid, own
<1> QED BY <1>2, <1>3, <1>4, <1>5

\* What is as near as s and on the same side of the root lies outside of s.
LEMMA NothingBetween ==
    ASSUME NEW r \in Nat, NEW s \in Nat, NEW z \in Nat, AsNear(s, z, r)
    PROVE  /\ z < s => ~NotBelowRoot(z, r)
           /\ z > s => ~NotAboveRoot(z, r)
<1>1. Grid \in Nat /\ Fine \in Nat \ {0}
  BY GridAssumption
<1> DEFINE root == 4 * r * Grid
           mid == Fine * (s + z) * (s + z)
           its == Fine * (2 * z) * (2 * z)
<1>2. root \in Nat /\ mid \in Nat /\ its \in Nat /\ s + z \in Nat /\ 2 * z \in Nat
  BY <1>1
<1>3. /\ 2 * z < s + z => its < mid
      /\ s + z < 2 * z => mid < its
  BY <1>1, <1>2, Squares
<1>4. (NotBelowRoot(z, r) => root <= its) /\ (NotAboveRoot(z, r) => its <= root)
  BY Doubled
<1>5. IF s <= z THEN s = z \/ root <= mid ELSE root >= mid
  BY DEF AsNear
<1> HIDE DEF root, mid, its
<1> QED BY <1>2, <1>3, <1>4, <1>5

\* Of any set of SM shares one is as near the root as all others.
LEMMA NearestExists ==
    ASSUME NEW r \in Nat, NEW S \in SUBSET (1 .. Grid), S # {}
    PROVE  \E s \in S : \A z \in S : AsNear(s, z, r)
<1>1. Grid \in Nat /\ Fine \in Nat \ {0} /\ S \subseteq Nat
  BY GridAssumption
<1> DEFINE Above == {s \in S : NotBelowRoot(s, r)}
           Below == {s \in S : NotAboveRoot(s, r)}
<1>2. S = Above \cup Below /\ Above \in SUBSET (1 .. Grid) /\ Below \in SUBSET (1 .. Grid)
  BY <1>1, Doubled
<1> DEFINE a == Min(Above)
           b == Max(Below)
<1>3. ASSUME Above # {} PROVE a \in Above /\ \A z \in Above : a <= z
  <2>1. 1 \in Int /\ Grid \in Int
    BY <1>1
  <2> HIDE DEF Above, Below
  <2> QED BY <1>2, <1>3, <2>1, Extremes
<1>4. ASSUME Below # {} PROVE b \in Below /\ \A z \in Below : z <= b
  <2>1. 1 \in Int /\ Grid \in Int
    BY <1>1
  <2> HIDE DEF Above, Below
  <2> QED BY <1>2, <1>4, <2>1, Extremes
<1>5. ASSUME Above # {} PROVE \A z \in Above : AsNear(a, z, r)
  <2> HIDE DEF a
  <2> QED BY <1>1, <1>3, <1>5, NearOutside
<1>6. ASSUME Below # {} PROVE \A z \in Below : AsNear(b, z, r)
  <2> HIDE DEF b
  <2> QED BY <1>1, <1>4, <1>6, NearOutside
<1>7. CASE Below = {}
  BY <1>2, <1>3, <1>5, <1>7
<1>8. CASE Above = {}
  BY <1>2, <1>4, <1>6, <1>8
<1>9. CASE Above # {} /\ Below # {}
  <2>1. a \in Nat /\ b \in Nat /\ a \in S /\ b \in S
    BY <1>1, <1>3, <1>4, <1>9
  <2>2. NotBelowRoot(a, r) /\ NotAboveRoot(b, r)
    BY <1>3, <1>4, <1>9
  <2>3. \A z \in Above : a <= z /\ AsNear(a, z, r)
    BY <1>3, <1>5, <1>9
  <2>4. \A z \in Below : z <= b /\ AsNear(b, z, r)
    BY <1>4, <1>6, <1>9
  <2> HIDE DEF a, b, Above, Below
  <2>5. CASE a <= b
    <3>1. a = b
      <4>1. Fine * (2 * b) * (2 * b) <= 4 * r * Grid /\ 4 * r * Grid <= Fine * (2 * a) * (2 * a)
        BY <2>1, <2>2, Doubled
      <4>2. a < b => Fine * (2 * a) * (2 * a) < Fine * (2 * b) * (2 * b)
        <5>1. 2 * a \in Nat /\ 2 * b \in Nat /\ (a < b => 2 * a < 2 * b)
          BY <2>1
        <5> QED BY <1>1, <5>1, Squares
      <4>3. Fine * (2 * a) * (2 * a) \in Nat /\ Fine * (2 * b) * (2 * b) \in Nat /\ 4 * r * Grid \in Nat
        BY <1>1, <2>1
      <4> QED BY <2>1, <2>5, <4>1, <4>2, <4>3
    <3> QED BY <1>2, <2>1, <2>3, <2>4, <3>1
  <2>6. CASE ~(a <= b) /\ AsNear(a, b, r)
    <3>1. 4 * r * Grid >= Fine * (a + b) * (a + b)
      BY <2>6 DEF AsNear
    <3>2. ASSUME NEW z \in Below PROVE AsNear(a, z, r)
      <4>1. z \in Nat /\ z <= b /\ ~(a <= z)
        BY <1>1, <1>2, <2>1, <2>4, <2>6
      <4>2. Fine * (a + z) * (a + z) <= Fine * (a + b) * (a + b)
        <5>1. a + z \in Nat /\ a + b \in Nat /\ a + z <= a + b
          BY <2>1, <4>1
        <5> QED BY <1>1, <5>1, Squares
      <4>3. Fine * (a + z) * (a + z) \in Nat /\ Fine * (a + b) * (a + b) \in Nat /\ 4 * r * Grid \in Nat
        BY <1>1, <2>1, <4>1
      <4>4. 4 * r * Grid >= Fine * (a + z) * (a + z)
        BY <3>1, <4>2, <4>3
      <4> QED BY <4>1, <4>4 DEF AsNear
    <3> QED BY <1>2, <2>1, <2>3, <3>2
  <2>7. CASE ~(a <= b) /\ ~AsNear(a, b, r)
    <3>1. ~(4 * r * Grid >= Fine * (a + b) * (a + b))
      BY <2>7 DEF AsNear
    <3>2. ASSUME NEW z \in Above PROVE AsNear(b, z, r)
      <4>1. z \in Nat /\ a <= z /\ b <= z
        BY <1>1, <1>2, <2>1, <2>3, <2>7
      <4>2. Fine * (a + b) * (a + b) <= Fine * (b + z) * (b + z)
        <5>1. a + b \in Nat /\ b + z \in Nat /\ a + b <= b + z
          BY <2>1, <4>1
        <5> QED BY <1>1, <5>1, Squares
      <4>3. Fine * (b + z) * (b + z) \in Nat /\ Fine * (a + b) * (a + b) \in Nat /\ 4 * r * Grid \in Nat
        BY <1>1, <2>1, <4>1
      <4>4. 4 * r * Grid <= Fine * (b + z) * (b + z)
        BY <3>1, <4>2, <4>3
      <4> QED BY <4>1, <4>4 DEF AsNear
    <3> QED BY <1>2, <2>1, <2>4, <3>2
  <2> QED BY <2>5, <2>6, <2>7
<1> QED BY <1>7, <1>8, <1>9

\* Of candidates one is preferred, for any class.
LEMMA PreferredExists ==
    ASSUME NEW r \in Nat \ {0}, NEW m \in 0 .. Grid, NEW p \in 0 .. Fine, NEW class,
           Candidates(r, m, p) # {}
    PROVE  Preferred(Candidates(r, m, p), class, r) # {}
<1> DEFINE C == Candidates(r, m, p)
           S == {c[1] : c \in C}
<1>1. S \in SUBSET (1 .. Grid) /\ S # {}
  BY CandidateIs
<1>2. Grid \in Nat /\ 1 \in Int /\ Grid \in Int
  BY GridAssumption
<1>3. CASE class = "COMPUTE_BOUND"
  <2>1. Max(S) \in S /\ \A x \in S : x <= Max(S)
    <3> HIDE DEF S
    <3> QED BY <1>1, <1>2, Extremes
  <2>2. PICK c \in C : c[1] = Max(S)
    BY <2>1
  <2>3. ASSUME NEW d \in C PROVE c[1] >= d[1]
    <3>1. d[1] \in S /\ d[1] \in Nat /\ c[1] \in Nat
      BY <1>1, <1>2, <2>2
    <3> HIDE DEF S, C
    <3> QED BY <2>1, <2>2, <3>1
  <2>4. c \in Preferred(C, class, r)
    <3> HIDE DEF C
    <3> QED BY <1>3, <2>3 DEF Preferred
  <2> QED BY <2>4
<1>4. CASE class = "MEMORY_BOUND"
  <2>1. Min(S) \in S /\ \A x \in S : Min(S) <= x
    <3> HIDE DEF S
    <3> QED BY <1>1, <1>2, Extremes
  <2>2. PICK c \in C : c[1] = Min(S)
    BY <2>1
  <2>3. ASSUME NEW d \in C PROVE c[1] <= d[1]
    <3>1. d[1] \in S
      OBVIOUS
    <3> HIDE DEF S, C
    <3> QED BY <2>1, <2>2, <3>1
  <2>4. c \in Preferred(C, class, r)
    <3> HIDE DEF C
    <3> QED BY <1>4, <2>3 DEF Preferred
  <2> QED BY <2>4
<1>5. CASE class # "COMPUTE_BOUND" /\ class # "MEMORY_BOUND"
  <2>1. PICK s \in S : \A z \in S : AsNear(s, z, r)
    <3> HIDE DEF S
    <3> QED BY <1>1, NearestExists
  <2>2. PICK c \in C : c[1] = s
    BY <2>1
  <2>3. ASSUME NEW d \in C PROVE AsNear(c[1], d[1], r)
    BY <2>1, <2>2
  <2>4. c \in Preferred(C, class, r)
    <3> HIDE DEF C
    <3> QED BY <1>5, <2>3 DEF Preferred
  <2> QED BY <2>4
<1> QED BY <1>3, <1>4, <1>5

\* Of candidates there is one that leaves the least, with the smallest s.
LEMMA BestFitIs ==
    ASSUME NEW r \in Nat \ {0}, NEW m \in 0 .. Grid, NEW p \in 0 .. Fine,
           NEW P \in SUBSET Candidates(r, m, p), P # {}
    PROVE  BestFit(P, m, p) \in P
<1> DEFINE W(c) == Waste(c, m, p)
<1>1. Grid \in Nat /\ Fine \in Nat /\ m \in Int /\ p \in Int
  BY GridAssumption
<1>2. ASSUME NEW c \in P PROVE c[1] \in 1 .. Grid /\ W(c) \in 0 .. Grid * Fine
  <2>1. c[1] \in 1 .. Grid /\ c[2] \in 1 .. Fine
    BY CandidateIs
  <2>2. Max({0, m - c[1]}) \in 0 .. Grid /\ Max({0, p - c[2]}) \in 0 .. Fine
    <3>1. m - c[1] \in Int /\ m - c[1] <= Grid /\ p - c[2] \in Int /\ p - c[2] <= Fine
      BY <1>1, <2>1
    <3>2. ASSUME NEW k \in Int, NEW x \in Nat, k <= x PROVE Max({0, k}) \in 0 .. x
      BY <3>2, MaxOfTwo
    <3> QED BY <1>1, <3>1, <3>2
  <2>3. ASSUME NEW x \in 0 .. Grid, NEW y \in 0 .. Fine PROVE x * y \in 0 .. Grid * Fine
    <3>1. x * y \in Nat /\ x * y <= Grid * y /\ Grid * y <= Grid * Fine
      BY <1>1
    <3>2. Grid * y \in Nat /\ Grid * Fine \in Nat
      BY <1>1
    <3> QED BY <3>1, <3>2
  <2> QED BY <2>1, <2>2, <2>3 DEF Waste
<1> HIDE DEF W
<1> DEFINE V == {W(c) : c \in P}
           n == Grid * Fine
<1>3. V \in SUBSET (0 .. n) /\ V # {}
  BY <1>2
<1>4. 0 \in Int /\ n \in Int
  BY <1>1
<1>5. Min(V) \in V /\ \A x \in V : Min(V) <= x
  <2> HIDE DEF V, n
  <2> QED BY <1>3, <1>4, Extremes
<1> DEFINE Q == {c \in P : W(c) = Min(V)}
           S == {c[1] : c \in Q}
<1>6. S \in SUBSET (1 .. Grid) /\ S # {}
  BY <1>2, <1>5
<1>7. Min(S) \in S /\ \A x \in S : Min(S) <= x
  <2>1. 1 \in Int /\ Grid \in Int
    BY <1>1
  <2> HIDE DEF S, V, Q
  <2> QED BY <1>6, <2>1, Extremes
<1>8. PICK c \in Q : c[1] = Min(S)
  BY <1>7
<1>9. ASSUME NEW d \in P PROVE W(c) < W(d) \/ (W(c) = W(d) /\ c[1] <= d[1])
  <2>1. W(d) \in V /\ W(c) = Min(V) /\ W(c) \in Nat /\ W(d) \in Nat
    BY <1>1, <1>2, <1>8
  <2>2. W(c) <= W(d)
    BY <1>5, <2>1
  <2>3. CASE W(c) = W(d)
    <3>1. d[1] \in S
      BY <2>1, <2>3
    <3> QED BY <1>7, <1>8, <2>3, <3>1
  <2> QED BY <2>1, <2>2, <2>3
<1>10. c \in P
  OBVIOUS
<1>11. \E x \in P : \A d \in P : W(x) < W(d) \/ (W(x) = W(d) /\ x[1] <= d[1])
  BY <1>9, <1>10
<1> QED BY <1>11 DEF BestFit, W

\* The decision is the preferred of the candidates.
LEMMA DecisionIs ==
    ASSUME NEW r \in Int, NEW m \in 0 .. Grid, NEW p \in 0 .. Fine, NEW class, Feasible(r, m, p)
    PROVE  /\ r \in Nat \ {0}
           /\ Decision(r, class, m, p) \in Preferred(Candidates(r, m, p), class, r)
           /\ Decision(r, class, m, p) \in Candidates(r, m, p)
<1>1. r \in Nat \ {0} /\ Candidates(r, m, p) # {}
  BY DEF Feasible, InRange
<1> DEFINE P == Preferred(Candidates(r, m, p), class, r)
<1>2. P # {} /\ P \in SUBSET Candidates(r, m, p)
  <2>1. P # {}
    BY <1>1, PreferredExists
  <2> QED BY <2>1 DEF Preferred
<1>3. BestFit(P, m, p) \in P
  <2> HIDE DEF P
  <2> QED BY <1>1, <1>2, BestFitIs
<1> QED BY <1>1, <1>2, <1>3 DEF Decision

---------------------------------------------------------------------------
(* The ledger *)

\* The types, with what TimeSum needs to mean something.
LedgerOK ==
    /\ LedgerTypeOK
    /\ ledger = [n \in DOMAIN ledger |-> ledger[n]] /\ IsFiniteSet(DOMAIN ledger)
    /\ phase \in {"decided", "removed"} =>
        /\ job.new \in Workloads /\ job.s \in 1 .. Grid /\ job.t \in 1 .. Fine

\* From the decision to the entry there is room for what was decided, beside every
\* single entry on the SMs and, if nobody insisted, in time: the ledger only loses
\* entries meanwhile.
Room ==
    phase \in {"decided", "removed"} =>
        /\ \A n \in DOMAIN ledger : ledger[n].s + job.s <= Grid
        /\ ~job.insists => TimeSum(ledger) + job.t <= Fine

LedgerInv == LedgerOK /\ Room /\ PairsFit

\* A ledger's entries.
IsLedger(led) ==
    /\ IsFiniteSet(DOMAIN led)
    /\ \A n \in DOMAIN led : led[n] \in [s : 1 .. Grid, t : 1 .. Fine]

\* The time of a ledger is a sum over its names.
LEMMA TimeSumIs ==
    ASSUME NEW led, IsLedger(led)
    PROVE  /\ TimeSum(led) \in Nat
           /\ \A S, f : S = DOMAIN led /\ f = [n \in S |-> led[n].t]
                => TimeSum(led) = SumFunctionOnSet(f, S) /\ \A n \in S : f[n] \in Nat
<1> DEFINE f == [n \in DOMAIN led |-> led[n].t]
<1>1. TimeSum(led) = SumFunctionOnSet(f, DOMAIN led)
  BY DEF TimeSum, SumFunction
<1>2. \A n \in DOMAIN led : f[n] \in Nat
  BY GridAssumption DEF IsLedger
<1> HIDE DEF f
<1>3. SumFunctionOnSet(f, DOMAIN led) \in Nat
  BY <1>2, SumType DEF IsLedger
<1> QED BY <1>1, <1>2, <1>3 DEF f

\* A ledger with fewer entries holds no more time.
LEMMA TimeSumOfFewer ==
    ASSUME NEW led, IsLedger(led), NEW K \in SUBSET DOMAIN led, NEW less,
           DOMAIN less = K, \A n \in K : less[n] = led[n]
    PROVE  IsLedger(less) /\ TimeSum(less) <= TimeSum(led)
<1> DEFINE D == DOMAIN led
           f == [n \in D |-> led[n].t]
           g == [n \in K |-> less[n].t]
<1>1. IsLedger(less)
  BY FS_Subset DEF IsLedger
<1>2. TimeSum(led) = SumFunctionOnSet(f, D) /\ \A n \in D : f[n] \in Nat
  BY TimeSumIs
<1>3. TimeSum(less) = SumFunctionOnSet(g, K) /\ \A n \in K : g[n] \in Nat
  BY <1>1, TimeSumIs
<1>4. \A n \in K : g[n] = f[n]
  OBVIOUS
<1>5. IsFiniteSet(D) /\ IsFiniteSet(K) /\ K \in SUBSET D
  BY <1>1 DEF IsLedger
<1> HIDE DEF f, g, D
<1>6. SumFunctionOnSet(g, K) = SumFunctionOnSet(f, K)
  BY <1>3, <1>4, <1>5, SumSame
<1>7. SumFunctionOnSet(f, K) <= SumFunctionOnSet(f, D)
  BY <1>2, <1>5, SumOfFewer
<1> QED BY <1>1, <1>2, <1>3, <1>6, <1>7

\* An entry adds no more than its own time.
LEMMA TimeSumOfMore ==
    ASSUME NEW led, IsLedger(led), NEW n, NEW e \in [s : 1 .. Grid, t : 1 .. Fine]
    PROVE  IsLedger(Put(led, {n}, e)) /\ TimeSum(Put(led, {n}, e)) <= TimeSum(led) + e.t
<1> DEFINE more == Put(led, {n}, e)
           D == DOMAIN led
           M == DOMAIN more
           f == [k \in D |-> led[k].t]
           g == [k \in M |-> more[k].t]
<1>1. M = D \cup {n} /\ more[n] = e /\ \A k \in D \ {n} : more[k] = led[k]
  BY DEF Put
<1>2. IsLedger(more)
  <2>1. IsFiniteSet(D \cup {n})
    BY FS_AddElement DEF IsLedger
  <2> HIDE DEF more
  <2> QED BY <1>1, <2>1 DEF IsLedger
<1> HIDE DEF more
<1>3. TimeSum(led) = SumFunctionOnSet(f, D) /\ \A k \in D : f[k] \in Nat
  BY TimeSumIs
<1>4. TimeSum(more) = SumFunctionOnSet(g, M) /\ \A k \in M : g[k] \in Nat
  BY <1>2, TimeSumIs
<1>5. /\ n \in M /\ g[n] = e.t /\ M \ {n} = D \ {n}
      /\ \A k \in M \ {n} : g[k] = f[k]
      /\ e.t \in Nat
  BY <1>1, GridAssumption
<1>6. IsFiniteSet(D) /\ IsFiniteSet(M)
  BY <1>2 DEF IsLedger
<1> HIDE DEF f, g, D, M
<1>7. SumFunctionOnSet(g, M) = g[n] + SumFunctionOnSet(g, M \ {n})
  BY <1>4, <1>5, <1>6, SumWithout
<1>8. IsFiniteSet(M \ {n})
  BY <1>6, FS_RemoveElement
<1>9. SumFunctionOnSet(g, M \ {n}) = SumFunctionOnSet(f, M \ {n})
  BY <1>4, <1>5, <1>8, SumSame
<1>10. SumFunctionOnSet(f, D \ {n}) <= SumFunctionOnSet(f, D)
  BY <1>3, <1>6, SumOfFewer
<1>11. SumFunctionOnSet(f, D \ {n}) \in Nat /\ SumFunctionOnSet(f, D) \in Nat
  <2>1. IsFiniteSet(D \ {n})
    BY <1>5, <1>8
  <2> QED BY <1>3, <1>6, <2>1, SumType
<1> QED BY <1>2, <1>3, <1>4, <1>5, <1>7, <1>9, <1>10, <1>11 DEF more

\* What the view says is free.
LEMMA ViewIs ==
    ASSUME LedgerOK
    PROVE  /\ IsLedger(ledger) /\ TimeSum(ledger) \in Nat
           /\ FreeTime \in 0 .. Fine /\ (FreeTime > 0 => TimeSum(ledger) + FreeTime = Fine)
           /\ FreeSm \in 0 .. Grid /\ \A n \in DOMAIN ledger : ledger[n].s + FreeSm <= Grid
<1>1. IsLedger(ledger)
  BY DEF LedgerOK, LedgerTypeOK, IsLedger
<1>2. TimeSum(ledger) \in Nat
  BY <1>1, TimeSumIs
<1>3. Grid \in Nat /\ Fine \in Nat
  BY GridAssumption
<1>4. FreeTime \in 0 .. Fine /\ (FreeTime > 0 => TimeSum(ledger) + FreeTime = Fine)
  BY <1>2, <1>3 DEF FreeTime
<1>5. FreeSm \in 0 .. Grid /\ \A n \in DOMAIN ledger : ledger[n].s + FreeSm <= Grid
  <2>1. CASE DOMAIN ledger = {}
    <3>1. ledger = EmptyDict
      BY <2>1 DEF LedgerOK, EmptyDict
    <3> QED BY <1>3, <2>1, <3>1 DEF FreeSm
  <2>2. CASE DOMAIN ledger # {}
    <3> DEFINE S == {ledger[n].s : n \in DOMAIN ledger}
    <3>1. ledger # EmptyDict
      BY <2>2 DEF EmptyDict
    <3>2. S \in SUBSET (1 .. Grid) /\ S # {}
      BY <1>1, <2>2 DEF IsLedger
    <3>3. Max(S) \in S /\ \A x \in S : x <= Max(S)
      <4>1. 1 \in Int /\ Grid \in Int
        BY <1>3
      <4> HIDE DEF S
      <4> QED BY <3>2, <4>1, Extremes
    <3>4. FreeSm = Grid - Max(S)
      BY <3>1 DEF FreeSm
    <3>5. ASSUME NEW n \in DOMAIN ledger PROVE ledger[n].s \in S
      OBVIOUS
    <3> DEFINE top == Max(S)
    <3>6. top \in 1 .. Grid /\ FreeSm = Grid - top /\ \A n \in DOMAIN ledger : ledger[n].s <= top
      BY <3>2, <3>3, <3>4, <3>5
    <3>7. FreeSm \in 0 .. Grid /\ \A n \in DOMAIN ledger : ledger[n].s + FreeSm <= Grid
      <4>1. \A n \in DOMAIN ledger : ledger[n].s \in 1 .. Grid
        BY <1>1 DEF IsLedger
      <4> HIDE DEF top, S
      <4> QED BY <1>3, <3>6, <4>1
    <3> QED BY <3>7
  <2> QED BY <2>1, <2>2
<1> QED BY <1>1, <1>2, <1>4, <1>5

\* The empty ledger satisfies everything.
LEMMA LedgerAtFirst == LedgerInit => LedgerInv /\ EngineIsExact
<1> SUFFICES ASSUME LedgerInit PROVE LedgerInv /\ EngineIsExact
  OBVIOUS
<1>1. DOMAIN ledger = {} /\ ledger = [n \in DOMAIN ledger |-> ledger[n]] /\ phase = "idle"
  BY DEF LedgerInit, EmptyDict
<1>2. IsFiniteSet(DOMAIN ledger)
  BY <1>1, FS_EmptySet
<1> QED BY <1>1, <1>2 DEF LedgerInv, LedgerOK, LedgerTypeOK, Room, PairsFit, EngineIsExact

\* What a decision is, with the view it was made with.
LEMMA StartSwapIs ==
    ASSUME LedgerInv, NEW old \in Workloads, NEW new \in Workloads, NEW r \in Requests,
           NEW class \in Classes, NEW min \in Insisted, StartSwap(old, new, r, class, min)
    PROVE  /\ ledger' = ledger
           /\ job'.new = new /\ job'.r = r /\ job'.class = class
           /\ job'.freeSm = FreeSm /\ job'.freeTime \in 0 .. Fine
           /\ job'.insists = (min > FreeTime) /\ (~job'.insists => job'.freeTime = FreeTime)
           /\ \/ /\ phase' = "decided" /\ Feasible(r, FreeSm, job'.freeTime)
                 /\ job'.s = Decision(r, class, FreeSm, job'.freeTime)[1]
                 /\ job'.t = Decision(r, class, FreeSm, job'.freeTime)[2]
                 /\ job'.pct = LimitPct(job'.s)
              \/ phase' = "refused" /\ ~Feasible(r, FreeSm, job'.freeTime)
<1>1. FreeTime \in 0 .. Fine /\ min \in 0 .. Fine
  BY ViewIs, RequestAssumption DEF LedgerInv
<1> DEFINE time == Max({FreeTime, min})
<1>2. time \in 0 .. Fine /\ (~(min > FreeTime) => time = FreeTime)
  <2>1. time = IF FreeTime >= min THEN FreeTime ELSE min
    BY <1>1, GridAssumption, MaxOfTwo
  <2> QED BY <1>1, <2>1
<1> DEFINE Job(c) == [old |-> old, new |-> new, r |-> r, class |-> class,
                      freeSm |-> FreeSm, freeTime |-> time, insists |-> min > FreeTime,
                      s |-> c[1], t |-> c[2], pct |-> LimitPct(c[1])]
<1>3. /\ ledger' = ledger
      /\ \/ /\ Feasible(r, FreeSm, time) /\ job' = Job(Decision(r, class, FreeSm, time))
            /\ phase' = "decided"
         \/ ~Feasible(r, FreeSm, time) /\ job' = Job(<<0, 0>>) /\ phase' = "refused"
  BY DEF StartSwap
<1> HIDE DEF time
<1>4. CASE /\ Feasible(r, FreeSm, time) /\ job' = Job(Decision(r, class, FreeSm, time))
           /\ phase' = "decided"
  BY <1>2, <1>3, <1>4
<1>5. CASE ~Feasible(r, FreeSm, time) /\ job' = Job(<<0, 0>>) /\ phase' = "refused"
  BY <1>2, <1>3, <1>5
<1> QED BY <1>3, <1>4, <1>5

\* A step that takes entries out, or none, and leaves what is decided as it is.
LEMMA LedgerOfFewer ==
    ASSUME LedgerInv, DOMAIN ledger' \subseteq DOMAIN ledger,
           ledger' = [n \in DOMAIN ledger' |-> ledger[n]],
           phase' \in {"idle", "refused", "decided", "removed"},
           phase' \in {"decided", "removed"} => phase \in {"decided", "removed"} /\ job' = job
    PROVE  LedgerInv'
<1>1. IsLedger(ledger) /\ TimeSum(ledger) \in Nat /\ Fine \in Nat /\ Grid \in Nat
  BY ViewIs, GridAssumption DEF LedgerInv
<1>2. \A n \in DOMAIN ledger' : ledger'[n] = ledger[n]
  OBVIOUS
<1>3. IsLedger(ledger') /\ TimeSum(ledger') <= TimeSum(ledger)
  BY <1>1, <1>2, TimeSumOfFewer
<1>4. LedgerOK'
  BY <1>2, <1>3 DEF LedgerInv, LedgerOK, LedgerTypeOK, IsLedger
<1>5. Room'
  <2>1. TimeSum(ledger') \in Nat
    BY <1>3, TimeSumIs
  <2> SUFFICES ASSUME phase' \in {"decided", "removed"}
               PROVE  /\ \A n \in DOMAIN ledger' : ledger'[n].s + job'.s <= Grid
                      /\ ~job'.insists => TimeSum(ledger') + job'.t <= Fine
    BY DEF Room
  <2>2. job' = job /\ job.t \in Nat /\ Room
    BY <1>1 DEF LedgerInv, LedgerOK
  <2>3. \A n \in DOMAIN ledger' : ledger'[n].s + job'.s <= Grid
    BY <1>2, <2>2 DEF Room
  <2>4. ~job'.insists => TimeSum(ledger) + job.t <= Fine
    BY <2>2 DEF Room
  <2> QED BY <1>1, <1>3, <2>1, <2>2, <2>3, <2>4
<1>6. PairsFit'
  BY <1>2 DEF LedgerInv, PairsFit
<1> QED BY <1>4, <1>5, <1>6 DEF LedgerInv

\* A decision is made with room for what it decides.
LEMMA LedgerByStart ==
    ASSUME LedgerInv, NEW old \in Workloads, NEW new \in Workloads, NEW r \in Requests,
           NEW class \in Classes, NEW min \in Insisted, StartSwap(old, new, r, class, min)
    PROVE  LedgerInv'
<1>1. /\ IsLedger(ledger) /\ TimeSum(ledger) \in Nat /\ Fine \in Nat /\ Grid \in Nat /\ r \in Int
      /\ FreeTime \in 0 .. Fine /\ (FreeTime > 0 => TimeSum(ledger) + FreeTime = Fine)
      /\ FreeSm \in 0 .. Grid /\ \A n \in DOMAIN ledger : ledger[n].s + FreeSm <= Grid
  BY ViewIs, GridAssumption, RequestAssumption DEF LedgerInv
<1>2. ledger' = ledger /\ job'.new = new /\ job'.freeTime \in 0 .. Fine
  BY StartSwapIs
<1>3. ~job'.insists => job'.freeTime = FreeTime
  BY StartSwapIs
<1>4. \/ /\ phase' = "decided" /\ Feasible(r, FreeSm, job'.freeTime)
         /\ job'.s = Decision(r, class, FreeSm, job'.freeTime)[1]
         /\ job'.t = Decision(r, class, FreeSm, job'.freeTime)[2]
         /\ job'.pct = LimitPct(job'.s)
      \/ phase' = "refused" /\ ~Feasible(r, FreeSm, job'.freeTime)
  BY StartSwapIs
<1>5. CASE phase' = "refused"
  <2>1. ledger' = [n \in DOMAIN ledger' |-> ledger[n]]
    BY <1>2 DEF LedgerInv, LedgerOK
  <2> QED BY <1>2, <1>5, <2>1, LedgerOfFewer
<1>6. CASE phase' = "decided"
  <2> DEFINE time == job'.freeTime
             d == Decision(r, class, FreeSm, time)
  <2>1. Feasible(r, FreeSm, time) /\ time \in 0 .. Fine
    BY <1>2, <1>4, <1>6
  <2>2. r \in Nat \ {0} /\ d \in Candidates(r, FreeSm, time)
    BY <1>1, <2>1, DecisionIs
  <2>3. d[1] \in 1 .. Grid /\ d[1] <= FreeSm /\ d[2] \in 1 .. Fine /\ d[2] <= time
    BY <1>1, <2>1, <2>2, CandidateIs
  <2>4. job'.s = d[1] /\ job'.t = d[2] /\ job'.pct = LimitPct(job'.s)
    BY <1>4, <1>6
  <2> HIDE DEF d
  <2>5. job'.s \in 1 .. Grid /\ job'.t \in 1 .. Fine /\ job'.pct \in 1 .. 99
    BY <2>3, <2>4, LimitPctIs
  <2>6. LedgerOK'
    BY <1>2, <1>6, <2>5 DEF LedgerInv, LedgerOK, LedgerTypeOK
  <2>7. Room'
    <3>1. \A n \in DOMAIN ledger' : ledger'[n].s + job'.s <= Grid
      <4>1. \A n \in DOMAIN ledger : ledger[n].s \in 1 .. Grid
        BY <1>1 DEF IsLedger
      <4> QED BY <1>1, <1>2, <2>3, <2>4, <4>1
    <3>2. ~job'.insists => TimeSum(ledger) + job'.t <= Fine
      BY <1>1, <1>3, <2>3, <2>4, <2>5
    <3> QED BY <1>2, <3>1, <3>2 DEF Room
  <2>8. PairsFit'
    BY <1>2 DEF LedgerInv, PairsFit
  <2> QED BY <2>6, <2>7, <2>8 DEF LedgerInv
<1> QED BY <1>4, <1>5, <1>6

\* What is entered has the room it was decided with.
LEMMA LedgerByPlace ==
    ASSUME LedgerInv, Place
    PROVE  LedgerInv' /\ (~job.insists => TimeSum(ledger') <= Fine)
<1>1. /\ phase = "removed" /\ phase' = "idle"
      /\ ledger' = Put(ledger, {job.new}, [s |-> job.s, t |-> job.t])
  BY DEF Place
<1>2. job.new \in Workloads /\ job.s \in 1 .. Grid /\ job.t \in 1 .. Fine
  BY <1>1 DEF LedgerInv, LedgerOK
<1>3. IsLedger(ledger) /\ TimeSum(ledger) \in Nat /\ Grid \in Nat /\ Fine \in Nat
  BY ViewIs, GridAssumption DEF LedgerInv
<1> DEFINE e == [s |-> job.s, t |-> job.t]
<1>4. e \in [s : 1 .. Grid, t : 1 .. Fine] /\ e.s = job.s /\ e.t = job.t
  BY <1>2
<1> HIDE DEF e
<1>5. IsLedger(Put(ledger, {job.new}, e)) /\ TimeSum(Put(ledger, {job.new}, e)) <= TimeSum(ledger) + e.t
  BY <1>3, <1>4, TimeSumOfMore
<1>6. ledger' = Put(ledger, {job.new}, e)
  BY <1>1 DEF e
<1>7. IsLedger(ledger') /\ TimeSum(ledger') <= TimeSum(ledger) + job.t
  BY <1>4, <1>5, <1>6
<1>8. /\ DOMAIN ledger' = DOMAIN ledger \cup {job.new}
      /\ ledger' = [n \in DOMAIN ledger' |-> ledger'[n]]
      /\ \A n \in DOMAIN ledger' : ledger'[n] = IF n = job.new THEN e ELSE ledger[n]
  BY <1>6 DEF Put
<1>9. LedgerOK'
  <2>1. DOMAIN ledger' \subseteq Workloads
    BY <1>2, <1>8 DEF LedgerInv, LedgerOK, LedgerTypeOK
  <2> QED BY <1>1, <1>7, <1>8, <2>1 DEF LedgerOK, LedgerTypeOK, IsLedger
<1>10. Room'
  BY <1>1 DEF Room
<1>11. PairsFit'
  <2>1. \A n \in DOMAIN ledger : ledger[n].s + job.s <= Grid /\ ledger[n].s \in Nat
    BY <1>1, <1>3 DEF LedgerInv, Room, IsLedger
  <2>2. ASSUME NEW n \in DOMAIN ledger', NEW m \in DOMAIN ledger', n # m
        PROVE  ledger'[n].s + ledger'[m].s <= Grid
    <3>1. CASE n = job.new
      <4>1. m \in DOMAIN ledger /\ ledger'[m] = ledger[m] /\ ledger'[n] = e
        BY <1>8, <2>2, <3>1
      <4> QED BY <1>2, <1>4, <2>1, <4>1
    <3>2. CASE m = job.new
      <4>1. n \in DOMAIN ledger /\ ledger'[n] = ledger[n] /\ ledger'[m] = e
        BY <1>8, <2>2, <3>2
      <4> QED BY <1>2, <1>4, <2>1, <4>1
    <3>3. CASE n # job.new /\ m # job.new
      <4>1. /\ n \in DOMAIN ledger /\ ledger'[n] = ledger[n]
            /\ m \in DOMAIN ledger /\ ledger'[m] = ledger[m]
        BY <1>8, <3>3
      <4> QED BY <2>2, <4>1 DEF LedgerInv, PairsFit
    <3> QED BY <3>1, <3>2, <3>3
  <2> QED BY <2>2 DEF PairsFit
<1>12. ~job.insists => TimeSum(ledger') <= Fine
  <2>1. ~job.insists => TimeSum(ledger) + job.t <= Fine
    BY <1>1 DEF LedgerInv, Room
  <2>2. TimeSum(ledger') \in Nat
    BY <1>7, TimeSumIs
  <2> QED BY <1>2, <1>3, <1>7, <2>1, <2>2
<1> QED BY <1>9, <1>10, <1>11, <1>12 DEF LedgerInv

\* Every step keeps the room.
LEMMA LedgerIsKept == LedgerInv /\ [LedgerNext]_ledgerVars => LedgerInv'
<1> SUFFICES ASSUME LedgerInv, [LedgerNext]_ledgerVars PROVE LedgerInv'
  OBVIOUS
<1>1. ledger = [n \in DOMAIN ledger |-> ledger[n]] /\ phase \in {"idle", "refused", "decided", "removed"}
  BY DEF LedgerInv, LedgerOK, LedgerTypeOK
<1>2. ASSUME NEW old \in Workloads, NEW new \in Workloads, NEW r \in Requests,
             NEW class \in Classes, NEW min \in Insisted, StartSwap(old, new, r, class, min)
      PROVE  LedgerInv'
  BY <1>2, LedgerByStart
<1>3. CASE Refuse
  BY <1>1, <1>3, LedgerOfFewer DEF Refuse
<1>4. CASE GiveUp
  BY <1>1, <1>4, LedgerOfFewer DEF GiveUp
<1>5. CASE Remove
  BY <1>5, LedgerOfFewer DEF Remove, Drop
<1>6. CASE Place
  BY <1>6, LedgerByPlace
<1>7. ASSUME NEW n \in Workloads, Reclaim(n) PROVE LedgerInv'
  BY <1>1, <1>7, LedgerOfFewer DEF Reclaim, Drop
<1>8. CASE UNCHANGED ledgerVars
  BY <1>1, <1>8, LedgerOfFewer DEF ledgerVars
<1> QED BY <1>2, <1>3, <1>4, <1>5, <1>6, <1>7, <1>8 DEF LedgerNext

\* What is free when a swap is decided is still free when its standby is entered.
THEOREM LedgerInvariant == LedgerSpec => []LedgerInv
<1>1. LedgerInit => LedgerInv
  BY LedgerAtFirst
<1>2. LedgerInv /\ [LedgerNext]_ledgerVars => LedgerInv'
  BY LedgerIsKept
<1> QED BY <1>1, <1>2, PTL DEF LedgerSpec

\* Every entry is a share of the GPU, and no limit is one that libbless ignores.
THEOREM LedgerTypeCorrect == LedgerSpec => []LedgerTypeOK
<1>1. LedgerInv => LedgerTypeOK
  BY DEF LedgerInv, LedgerOK
<1> QED BY <1>1, LedgerInvariant, PTL

\* Any two tenants of the ledger fit the SMs side by side.
THEOREM PairsFitTogether == LedgerSpec => []PairsFit
<1>1. LedgerInv => PairsFit
  BY DEF LedgerInv
<1> QED BY <1>1, LedgerInvariant, PTL

\* An entry whose caller did not insist leaves the time not oversold, also after others
\* did insist: with time oversold the view has none, and only who insists is decided.
THEOREM TimeNotOversold == LedgerSpec => TimeIsNotOversold
<1> DEFINE A == phase = "removed" /\ phase' = "idle" /\ ~job.insists => TimeSum(ledger') <= Fine
<1>1. LedgerInv /\ [LedgerNext]_ledgerVars => [A]_ledgerVars
  <2> SUFFICES ASSUME LedgerInv, LedgerNext, phase = "removed", phase' = "idle", ~job.insists
               PROVE  TimeSum(ledger') <= Fine
    BY DEF A
  <2>1. Place
    BY DEF LedgerNext, StartSwap, Refuse, GiveUp, Remove, Reclaim
  <2> QED BY <2>1, LedgerByPlace
<1> QED BY <1>1, LedgerInvariant, PTL DEF LedgerSpec, TimeIsNotOversold

\* A refusal is right: what asks for something and is refused has no solution.
LEMMA RefusalIsRight ==
    ASSUME NEW j, j.r \in Int, j.freeSm \in 0 .. Grid, j.freeTime \in 0 .. Fine,
           ~Feasible(j.r, j.freeSm, j.freeTime), NEW c \in Solutions(j)
    PROVE  j.r <= 0
<1>1. /\ c[1] \in 1 .. Grid /\ c[2] \in 1 .. Fine
      /\ c[1] <= j.freeSm /\ c[2] <= j.freeTime /\ c[1] * c[2] >= j.r
  BY DEF Solutions
<1>2. Grid \in Nat /\ Fine \in Nat
  BY GridAssumption
<1>3. ASSUME j.r > 0 PROVE FALSE
  <2>1. j.r \in Nat \ {0}
    BY <1>3
  <2>2. Candidates(j.r, j.freeSm, j.freeTime) # {}
    BY <1>1, <2>1, SolutionHasCandidate
  <2>3. j.r <= Grid * Fine
    <3> DEFINE s == c[1]
               t == c[2]
    <3>1. s \in 1 .. Grid /\ t \in 1 .. Fine /\ s * t >= j.r
      BY <1>1
    <3> HIDE DEF s, t
    <3>2. s * t <= Grid * t /\ Grid * t <= Grid * Fine
      BY <1>2, <3>1
    <3>3. s * t \in Nat /\ Grid * t \in Nat /\ Grid * Fine \in Nat
      BY <1>2, <3>1
    <3> QED BY <2>1, <3>1, <3>2, <3>3
  <2> QED BY <2>1, <2>2, <2>3 DEF Feasible, InRange
<1> QED BY <1>3

\* A decision is what the definition of the engine asks for.
LEMMA DecisionIsRight ==
    ASSUME NEW j, j.r \in Int, j.freeSm \in 0 .. Grid, j.freeTime \in 0 .. Fine,
           Feasible(j.r, j.freeSm, j.freeTime), NEW d,
           d = Decision(j.r, j.class, j.freeSm, j.freeTime), j.s = d[1], j.t = d[2]
    PROVE  /\ <<j.s, j.t>> \in Solutions(j)
           /\ \A c \in Solutions(j) :
                /\ j.class = "COMPUTE_BOUND" => c[1] <= j.s
                /\ j.class = "MEMORY_BOUND" => c[1] >= j.s
                /\ j.class = "other" =>
                    /\ NotBelowRoot(j.s, j.r) /\ c[1] < j.s => ~NotBelowRoot(c[1], j.r)
                    /\ NotAboveRoot(j.s, j.r) /\ c[1] > j.s => ~NotAboveRoot(c[1], j.r)
                /\ c[1] = j.s => j.t <= c[2]
<1> DEFINE C == Candidates(j.r, j.freeSm, j.freeTime)
<1>1. j.r \in Nat \ {0} /\ d \in Preferred(C, j.class, j.r) /\ d \in C
  BY DecisionIs
<1>2. /\ d[1] \in 1 .. Grid /\ d[1] <= j.freeSm /\ d[2] = TimeFor(j.r, d[1])
      /\ d[2] \in 1 .. Fine /\ d[2] <= j.freeTime /\ d[1] * d[2] >= j.r
  BY <1>1, CandidateIs
<1>3. <<j.s, j.t>> \in Solutions(j)
  BY <1>2 DEF Solutions
<1>4. ASSUME NEW c \in Solutions(j)
      PROVE  /\ j.class = "COMPUTE_BOUND" => c[1] <= j.s
             /\ j.class = "MEMORY_BOUND" => c[1] >= j.s
             /\ j.class = "other" =>
                 /\ NotBelowRoot(j.s, j.r) /\ c[1] < j.s => ~NotBelowRoot(c[1], j.r)
                 /\ NotAboveRoot(j.s, j.r) /\ c[1] > j.s => ~NotAboveRoot(c[1], j.r)
             /\ c[1] = j.s => j.t <= c[2]
  <2>1. /\ c[1] \in 1 .. Grid /\ c[2] \in 1 .. Fine
        /\ c[1] <= j.freeSm /\ c[2] <= j.freeTime /\ c[1] * c[2] >= j.r
    BY DEF Solutions
  <2> DEFINE k == <<c[1], TimeFor(j.r, c[1])>>
  <2>2. k \in C /\ TimeFor(j.r, c[1]) <= c[2] /\ k[1] = c[1]
    BY <1>1, <2>1, SolutionHasCandidate
  <2> HIDE DEF C, k
  <2>3. j.class = "COMPUTE_BOUND" => c[1] <= j.s
    BY <1>1, <1>2, <2>1, <2>2 DEF Preferred
  <2>4. j.class = "MEMORY_BOUND" => c[1] >= j.s
    BY <1>1, <1>2, <2>1, <2>2 DEF Preferred
  <2>5. j.class = "other" => AsNear(j.s, c[1], j.r)
    BY <1>1, <1>2, <2>1, <2>2 DEF Preferred
  <2>6. j.s \in Nat /\ c[1] \in Nat /\ j.r \in Nat
    BY <1>1, <1>2, <2>1, GridAssumption
  <2>7. j.class = "other" =>
          /\ c[1] < j.s => ~NotBelowRoot(c[1], j.r)
          /\ c[1] > j.s => ~NotAboveRoot(c[1], j.r)
    BY <2>5, <2>6, NothingBetween
  <2>8. c[1] = j.s => j.t <= c[2]
    BY <1>2, <2>2
  <2> QED BY <2>3, <2>4, <2>7, <2>8
<1> QED BY <1>3, <1>4

\* The engine does what its definition says, whatever the ledger says is free: refusals
\* are right, a decision is the best solution for its class, and of the time no more
\* than that needs.
THEOREM EngineExact == LedgerSpec => []EngineIsExact
<1>1. LedgerInit => EngineIsExact
  BY LedgerAtFirst
<1>2. LedgerInv /\ EngineIsExact /\ [LedgerNext]_ledgerVars => EngineIsExact'
  <2> SUFFICES ASSUME LedgerInv, EngineIsExact, [LedgerNext]_ledgerVars PROVE EngineIsExact'
    OBVIOUS
  <2>1. CASE phase' \in {"refused", "decided"} => phase' = phase /\ job' = job
    BY <2>1 DEF EngineIsExact
  <2>2. ASSUME NEW old \in Workloads, NEW new \in Workloads, NEW r \in Requests,
               NEW class \in Classes, NEW min \in Insisted, StartSwap(old, new, r, class, min)
        PROVE  EngineIsExact'
    <3>1. r \in Int /\ FreeSm \in 0 .. Grid
      BY ViewIs, RequestAssumption DEF LedgerInv
    <3>2. job'.r = r /\ job'.class = class /\ job'.freeSm = FreeSm /\ job'.freeTime \in 0 .. Fine
      BY <2>2, StartSwapIs
    <3>3. \/ /\ phase' = "decided" /\ Feasible(r, FreeSm, job'.freeTime)
             /\ job'.s = Decision(r, class, FreeSm, job'.freeTime)[1]
             /\ job'.t = Decision(r, class, FreeSm, job'.freeTime)[2]
          \/ phase' = "refused" /\ ~Feasible(r, FreeSm, job'.freeTime)
      BY <2>2, StartSwapIs
    <3>4. CASE phase' = "refused"
      <4>1. ~Feasible(job'.r, job'.freeSm, job'.freeTime)
        BY <3>2, <3>3, <3>4
      <4>2. job'.r \in Int /\ job'.freeSm \in 0 .. Grid /\ job'.freeTime \in 0 .. Fine
        BY <3>1, <3>2
      <4>3. job'.r <= 0 \/ Solutions(job') = {}
        BY <4>1, <4>2, RefusalIsRight
      <4> QED BY <3>4, <4>3 DEF EngineIsExact
    <3>5. CASE phase' = "decided"
      <4> DEFINE d == Decision(job'.r, job'.class, job'.freeSm, job'.freeTime)
      <4>1. /\ Feasible(job'.r, job'.freeSm, job'.freeTime)
            /\ job'.s = d[1] /\ job'.t = d[2]
        BY <3>2, <3>3, <3>5
      <4>2. job'.r \in Int /\ job'.freeSm \in 0 .. Grid /\ job'.freeTime \in 0 .. Fine
        BY <3>1, <3>2
      <4>3. /\ <<job'.s, job'.t>> \in Solutions(job')
            /\ \A c \in Solutions(job') :
                 /\ job'.class = "COMPUTE_BOUND" => c[1] <= job'.s
                 /\ job'.class = "MEMORY_BOUND" => c[1] >= job'.s
                 /\ job'.class = "other" =>
                     /\ NotBelowRoot(job'.s, job'.r) /\ c[1] < job'.s => ~NotBelowRoot(c[1], job'.r)
                     /\ NotAboveRoot(job'.s, job'.r) /\ c[1] > job'.s => ~NotAboveRoot(c[1], job'.r)
                 /\ c[1] = job'.s => job'.t <= c[2]
        BY <4>1, <4>2, DecisionIsRight
      <4> QED BY <3>5, <4>3 DEF EngineIsExact
    <3> QED BY <3>3, <3>4, <3>5
  <2>3. CASE Refuse \/ GiveUp \/ Remove \/ Place
    BY <2>1, <2>3 DEF Refuse, GiveUp, Remove, Place
  <2>4. ASSUME NEW n \in Workloads, Reclaim(n) PROVE EngineIsExact'
    BY <2>1, <2>4 DEF Reclaim
  <2>5. CASE UNCHANGED ledgerVars
    BY <2>1, <2>5 DEF ledgerVars
  <2> QED BY <2>2, <2>3, <2>4, <2>5 DEF LedgerNext
<1> QED BY <1>1, <1>2, LedgerInvariant, PTL DEF LedgerSpec

---------------------------------------------------------------------------
(* Pair policies *)

\* Contracts that go together are each one that a GPU can hold.
LEMMA ContractIs ==
    ASSUME NEW list \in Lists, InContract(list)
    PROVE  \A i \in DOMAIN list : list[i] \in Members /\ list[i].r \in 1 .. All
<1>1. PICK n \in 1 .. 3 : list \in [1 .. n -> Members]
  BY DEF Lists
<1> DEFINE D == DOMAIN list
           f == [i \in D |-> list[i].r]
<1>2. D = 1 .. n /\ IsFiniteSet(D)
  <2>1. IsFiniteSet(1 .. n)
    BY FS_Interval
  <2> QED BY <1>1, <2>1
<1>3. \A i \in D : list[i] \in Members /\ list[i].r \in Int
  BY <1>1, PairAssumption DEF Members
<1>4. \A i \in D : f[i] \in Nat /\ f[i] > 0
  BY <1>3 DEF InContract
<1>5. SumFunctionOnSet(f, D) <= All
  BY DEF InContract, SumFunction
<1>6. All \in Nat
  BY GridAssumption DEF All
<1> HIDE DEF f, D
<1>7. ASSUME NEW i \in D PROVE f[i] \in 1 .. All
  <2>1. f[i] <= SumFunctionOnSet(f, D)
    BY <1>2, <1>4, SumOfOne
  <2>2. SumFunctionOnSet(f, D) \in Nat
    BY <1>2, <1>4, SumType
  <2> QED BY <1>4, <1>5, <1>6, <2>1, <2>2
<1> QED BY <1>3, <1>7 DEF f, D

\* What a member's shares owe the contract r, up to the rounding, and what they owe the
\* other members.
Served(r, a) == 2 * (r * Fine - a.sm * a.t) <= All
NoMoreTime(r, a) == (a.t - 1) * Grid < r

\* Alone on a free GPU in the time of its contract a member can only have all SMs.
LEMMA StrictIs ==
    ASSUME NEW q, q.r \in 1 .. All
    PROVE  LET a == StrictMember(q)
           IN Served(q.r, a) /\ NoMoreTime(q.r, a) /\ a.gate = (a.t < Fine) /\ a.sm = All
<1> DEFINE r == q.r
           t == TimeFor(r, Grid)
<1>1. Grid \in Nat \ {0} /\ Fine \in Nat \ {0} /\ r \in Nat \ {0} /\ r <= Grid * Fine
  BY GridAssumption DEF All
<1>2. StrictCandidates(r) = {Grid}
  <2>1. ASSUME NEW g \in 1 .. Grid, r * Grid <= r * g PROVE g = Grid
    <3>1. CASE g < Grid
      <4>1. r * g < r * Grid /\ r * g \in Nat /\ r * Grid \in Nat
        BY <1>1, <3>1
      <4> QED BY <2>1, <4>1
    <3> QED BY <1>1, <3>1
  <2>2. Grid \in 1 .. Grid /\ Grid * Fine >= r /\ r * Grid <= r * Grid
    BY <1>1
  <2> QED BY <2>1, <2>2 DEF StrictCandidates
<1>3. StrictMember(q) = [sm |-> All, t |-> t, gate |-> t < Fine]
  <2>1. (CHOOSE s \in StrictCandidates(r) : TRUE) = Grid
    BY <1>2
  <2> QED BY <2>1 DEF StrictMember, All
<1>4. t \in Nat \ {0} /\ r <= Grid * t
  BY <1>1, TimeForIs
<1>5. Grid * t <= r + Grid - 1
  <2> DEFINE k == r + Grid - 1
  <2>1. k \in Nat /\ t = k \div Grid
    BY <1>1 DEF TimeFor
  <2> HIDE DEF k, t
  <2>2. Grid * t <= k
    BY <1>1, <2>1, Quotient
  <2> QED BY <2>2 DEF k
<1> HIDE DEF t, r
<1>6. 2 * (r * Fine - All * t) <= All
  <2>1. r * Fine <= (Grid * t) * Fine
    BY <1>1, <1>4
  <2>2. (Grid * t) * Fine = All * t
    BY <1>1, <1>4 DEF All
  <2>3. r * Fine \in Nat /\ All * t \in Nat /\ All \in Nat
    BY <1>1, <1>4 DEF All
  <2> QED BY <2>1, <2>2, <2>3
<1>7. (t - 1) * Grid < r
  <2>1. (t - 1) * Grid = Grid * t - Grid /\ Grid * t \in Nat
    BY <1>1, <1>4
  <2> QED BY <1>1, <1>5, <2>1
<1> QED BY <1>3, <1>6, <1>7 DEF Served, NoMoreTime, r

\* Rounding to the nearest step leaves half a step of time, on all SMs.
LEMMA ContractTimeIs ==
    ASSUME NEW r \in 1 .. All
    PROVE  LET a == [sm |-> All, t |-> ContractTime(r), gate |-> TRUE]
           IN Served(r, a) /\ NoMoreTime(r, a)
<1> DEFINE t == ContractTime(r)
<1>1. Grid \in Nat \ {0} /\ Fine \in Nat \ {0} /\ r \in Nat
  BY GridAssumption DEF All
<1>2. t \in Nat /\ 2 * (Grid * t) <= 2 * r + Grid /\ 2 * r + Grid < 2 * (Grid * t) + 2 * Grid
  <2> DEFINE a == 2 * r + Grid
             b == 2 * Grid
  <2>1. a \in Nat /\ b \in Nat \ {0}
    BY <1>1
  <2>2. a \div b \in Nat /\ b * (a \div b) <= a /\ a < b * (a \div b) + b
    <3> HIDE DEF a, b
    <3> QED BY <2>1, Quotient
  <2>3. t = a \div b
    BY DEF ContractTime
  <2>4. b * t = 2 * (Grid * t)
    BY <1>1, <2>2, <2>3
  <2> HIDE DEF t
  <2> QED BY <2>2, <2>3, <2>4
<1> HIDE DEF t
<1> DEFINE p == Grid * t
<1>3. p \in Nat /\ (t - 1) * Grid = p - Grid /\ All * t = p * Fine
  BY <1>1, <1>2 DEF All
<1>4. 2 * p <= 2 * r + Grid /\ 2 * r <= 2 * p + Grid
  <2> HIDE DEF p
  <2>1. 2 * p <= 2 * r + Grid /\ 2 * r + Grid < 2 * p + 2 * Grid
    BY <1>2 DEF p
  <2> QED BY <1>1, <1>3, <2>1
<1> HIDE DEF p
<1>5. (t - 1) * Grid < r
  BY <1>1, <1>3, <1>4
<1>6. 2 * (r * Fine - All * t) <= All
  <2>1. (2 * r) * Fine <= (2 * p + Grid) * Fine
    BY <1>1, <1>3, <1>4
  <2>2. (2 * r) * Fine = 2 * (r * Fine) /\ (2 * p + Grid) * Fine = 2 * (p * Fine) + All
    BY <1>1, <1>3 DEF All
  <2>3. r * Fine \in Nat /\ p * Fine \in Nat /\ All \in Nat
    BY <1>1, <1>3 DEF All
  <2> QED BY <1>3, <2>1, <2>2, <2>3
<1> QED BY <1>5, <1>6 DEF Served, NoMoreTime, t

\* A memory-bound member has all of the time and at least the SMs of its contract.
LEMMA UngatedIs ==
    ASSUME NEW r \in 1 .. All, NEW sm \in {r, All}
    PROVE  2 * (r * Fine - sm * Fine) <= All
<1>1. Fine \in Nat /\ r \in Nat /\ All \in Nat /\ r <= All /\ sm \in Nat /\ r <= sm
  BY GridAssumption DEF All
<1>2. r * Fine <= sm * Fine /\ r * Fine \in Nat /\ sm * Fine \in Nat
  BY <1>1
<1> QED BY <1>1, <1>2

\* One member of those that are decided together.
LEMMA MemberIsServed ==
    ASSUME NEW list \in Lists, NEW policy \in Policies, NEW mps \in BOOLEAN, InContract(list),
           NEW answer, answer = DecidePair(list, policy, mps), NEW i \in DOMAIN list
    PROVE  /\ 2 * (list[i].r * Fine - answer[i].sm * answer[i].t) <= All
           /\ \/ (answer[i].t - 1) * Grid < list[i].r
              \/ /\ list[i].class = "MEMORY_BOUND" /\ policy # "strict"
                 /\ \E j \in {k \in DOMAIN answer : answer[k].gate} : list[j].class = "COMPUTE_BOUND"
                 /\ \A j \in DOMAIN list : list[j].high
           /\ answer[i].t < Fine => answer[i].gate
           /\ answer[i].sm < All => mps /\ Len(list) = 2 /\ policy = "capped_hetero"
<1> DEFINE q == list[i]
           a == answer[i]
           applied == Applied(list, policy, mps)
<1>1. q \in Members /\ q.r \in 1 .. All
  BY ContractIs
<1>2. All \in Nat /\ Fine \in Nat
  BY GridAssumption DEF All
<1>3. /\ DOMAIN answer = DOMAIN list
      /\ \A k \in DOMAIN list : answer[k] = IF applied = "strict" THEN StrictMember(list[k])
                                            ELSE RelaxedMember(list[k], applied)
  BY DEF DecidePair, applied
<1> HIDE DEF applied
<1>4. CASE applied = "strict"
  <2>1. a = StrictMember(q)
    BY <1>3, <1>4
  <2>2. Served(q.r, a) /\ NoMoreTime(q.r, a) /\ a.gate = (a.t < Fine) /\ a.sm = All
    BY <1>1, <2>1, StrictIs
  <2>3. ~(a.sm < All)
    BY <1>2, <2>2
  <2> QED BY <2>2, <2>3 DEF Served, NoMoreTime
<1>5. CASE applied # "strict"
  <2>1. /\ policy # "strict" /\ Hetero(list) /\ \A j \in DOMAIN list : list[j].high
        /\ applied = "capped_hetero" => policy = "capped_hetero" /\ Len(list) = 2 /\ mps
    <3>1. ~(policy = "strict" \/ ~Hetero(list) \/ (\E j \in DOMAIN list : ~list[j].high))
      BY <1>5 DEF applied, Applied
    <3>2. applied = IF policy = "capped_hetero" /\ Len(list) = 2 /\ mps THEN "capped_hetero"
                    ELSE "relaxed_hetero"
      BY <3>1 DEF applied, Applied
    <3> QED BY <3>1, <3>2
  <2>2. a = RelaxedMember(q, applied)
    BY <1>3, <1>5
  <2>3. CASE q.class = "COMPUTE_BOUND"
    <3>1. a = [sm |-> All, t |-> ContractTime(q.r), gate |-> TRUE]
      BY <2>2, <2>3 DEF RelaxedMember
    <3>2. Served(q.r, a) /\ NoMoreTime(q.r, a)
      BY <1>1, <3>1, ContractTimeIs
    <3>3. a.gate /\ ~(a.sm < All)
      BY <1>2, <3>1
    <3> QED BY <3>2, <3>3 DEF Served, NoMoreTime
  <2>4. CASE q.class # "COMPUTE_BOUND"
    <3>1. a = [sm |-> IF applied = "capped_hetero" THEN q.r ELSE All, t |-> Fine, gate |-> FALSE]
      BY <2>2, <2>4 DEF RelaxedMember
    <3>2. q.class = "MEMORY_BOUND"
      BY <2>1, <2>4 DEF Hetero
    <3>3. PICK j \in DOMAIN list : list[j].class = "COMPUTE_BOUND"
      BY <2>1 DEF Hetero
    <3>4. j \in {k \in DOMAIN answer : answer[k].gate}
      BY <1>3, <1>5, <3>3 DEF RelaxedMember
    <3>5. a.sm \in {q.r, All} /\ a.t = Fine /\ (a.sm < All => applied = "capped_hetero")
      BY <1>2, <3>1
    <3>6. 2 * (q.r * Fine - a.sm * a.t) <= All
      BY <1>1, <3>5, UngatedIs
    <3>7. ~(a.t < Fine)
      BY <1>2, <3>5
    <3> QED BY <2>1, <3>2, <3>3, <3>4, <3>5, <3>6, <3>7
  <2> QED BY <2>3, <2>4
<1> QED BY <1>4, <1>5

\* Whatever policy is asked for, contracts that go together are served: each in full up
\* to the rounding, more time only for memory-bound members beside a gated one, and SMs
\* cut only where that is enforced.
THEOREM ContractsServed == LedgerSpec => []ContractsAreServed
<1>1. ContractsAreServed
  BY MemberIsServed DEF ContractsAreServed
<1> QED BY <1>1, PTL

=============================================================================
