-------------------------- MODULE SliceLoopProofs --------------------------
(***************************************************************************)
(* Safety of the slice loop for any tenants, contracts, bounds and holds:  *)
(* types, that what is held is applied, and the pace of the factor.        *)
(***************************************************************************)
EXTENDS SliceLoop, TLAPS

Tenant == [contract : Contracts, ratio : Nat, armed : BOOLEAN]
Streak == [dir : {-1, 0, 1}, cnt : 0 .. Most]

\* The types, dictionary by dictionary.
FeederOK ==
    /\ DOMAIN tenants \subseteq Tenants /\ tenants \in [DOMAIN tenants -> Tenant]
    /\ DOMAIN left \subseteq DOMAIN tenants /\ left \in [DOMAIN left -> 1 .. LeaseS]
FactorsOK ==
    /\ DOMAIN todo \subseteq Tenants /\ todo \in [DOMAIN todo -> Nat]
    /\ DOMAIN base \subseteq Tenants /\ base \in [DOMAIN base -> Nat]
    /\ DOMAIN mult = DOMAIN base /\ mult \in [DOMAIN mult -> Lo .. Hi]
EvidenceOK ==
    /\ DOMAIN streak \subseteq DOMAIN base /\ streak \in [DOMAIN streak -> Streak]
    /\ quiet \in [Tenants -> 0 .. Most]
    /\ sampled \in BOOLEAN /\ judged \subseteq Tenants

\* Nobody is judged twice in a round, nor without a factor.
JudgedOnce == judged \cap DOMAIN todo = {} /\ judged \subseteq DOMAIN base

\* The count of a streak is at most that of the judgements since the last step.
Counts == \A n \in DOMAIN streak : streak[n].cnt <= quiet[n]

IInv == FeederOK /\ FactorsOK /\ EvidenceOK /\ JudgedOnce /\ Counts /\ HeldIsApplied

---------------------------------------------------------------------------
(* Dictionaries *)

\* d[k] = v
LEMMA PutIs ==
    ASSUME NEW d, NEW k, NEW v
    PROVE  /\ DOMAIN Put(d, {k}, v) = DOMAIN d \cup {k}
           /\ Put(d, {k}, v)[k] = v
           /\ \A j \in DOMAIN d \ {k} : Put(d, {k}, v)[j] = d[j]
BY DEF Put

LEMMA PutType ==
    ASSUME NEW T, NEW d, NEW k, NEW v \in T, d \in [DOMAIN d -> T]
    PROVE  Put(d, {k}, v) \in [DOMAIN Put(d, {k}, v) -> T]
BY DEF Put

LEMMA TypesAre == FeederOK /\ FactorsOK /\ EvidenceOK => TypeOK
BY DEF FeederOK, FactorsOK, EvidenceOK, TypeOK, Tenant, Streak

---------------------------------------------------------------------------
(* The judgement of one tenant *)

LEMMA MostIs == Most \in Nat /\ UpHold <= Most /\ DownHold <= Most /\ Most >= 1
BY HoldAssumption DEF Most

LEMMA FactorIs ==
    ASSUME FactorsOK, NEW n
    PROVE  /\ MultOf(n) \in Lo .. Hi
           /\ n \in DOMAIN todo => BaseOf(n) \in Nat
BY FactorAssumption DEF FactorsOK, MultOf, BaseOf

LEMMA ClampedIs ==
    ASSUME NEW m \in Lo .. Hi, NEW dir \in {-1, 0, 1}
    PROVE  /\ Clamped(m + dir) \in Lo .. Hi
           /\ Clamped(m + dir) # m => Clamped(m + dir) = m + dir
           /\ Clamped(m + dir) = m => dir = 0 \/ m \in {Lo, Hi}
BY FactorAssumption DEF Clamped

LEMMA CountedIs ==
    ASSUME EvidenceOK, Counts, NEW n \in Tenants, NEW dir \in {-1, 0, 1}
    PROVE  /\ Counted(n, dir) \in 0 .. Most
           /\ Counted(n, dir) <= quiet[n] + 1
           /\ Counted(n, dir) <= AtMost(quiet[n] + 1)
           /\ AtMost(quiet[n] + 1) \in 0 .. Most
<1>1. quiet[n] \in 0 .. Most
  BY DEF EvidenceOK
<1>2. CASE n \in DOMAIN streak
  <2>1. streak[n].cnt \in 0 .. Most /\ streak[n].cnt <= quiet[n]
    BY <1>2 DEF EvidenceOK, Counts, Streak
  <2> QED BY <1>1, <1>2, <2>1, MostIs DEF Counted, AtMost
<1>3. CASE n \notin DOMAIN streak
  BY <1>1, <1>3, MostIs DEF Counted, AtMost
<1> QED BY <1>2, <1>3

\* A share is a number: the factor is positive.
LEMMA ShareIs ==
    ASSUME FactorsOK, NEW n \in DOMAIN todo, NEW m \in Lo .. Hi
    PROVE  Share(n, m) \in Nat
<1>1. BaseOf(n) \in Nat /\ m \in Nat /\ One \in Nat /\ One > 0
  BY FactorIs, FactorAssumption
<1>2. BaseOf(n) * m \in Nat
  BY <1>1
<1>3. \A x \in Nat : x \div One \in Nat
  BY <1>1
<1> QED BY <1>2, <1>3 DEF Share

\* What a request for a share does to the feeder's tables.
LEMMA PostIs ==
    ASSUME FeederOK, NEW n \in Tenants, NEW s \in Nat, NEW lost \in BOOLEAN, Post(n, s, lost)
    PROVE  /\ FeederOK' /\ DOMAIN tenants' = DOMAIN tenants
           /\ ~lost /\ n \in DOMAIN tenants => tenants'[n].ratio = s /\ n \in DOMAIN left' /\ left'[n] = LeaseS
           /\ \A k \in DOMAIN tenants \ {n} :
                 tenants'[k] = tenants[k] /\ (k \in DOMAIN left => k \in DOMAIN left' /\ left'[k] = left[k])
<1>1. CASE lost \/ n \notin DOMAIN tenants
  BY <1>1 DEF Post, FeederOK
<1>2. CASE ~lost /\ n \in DOMAIN tenants
  <2>1. tenants' = [tenants EXCEPT ![n].ratio = s] /\ left' = Put(left, {n}, LeaseS)
    BY <1>2 DEF Post
  <2>2. [tenants[n] EXCEPT !.ratio = s] \in Tenant /\ [tenants[n] EXCEPT !.ratio = s].ratio = s
    BY <1>2 DEF FeederOK, Tenant
  <2>3. tenants' \in [DOMAIN tenants -> Tenant]
    BY <2>1, <2>2 DEF FeederOK
  <2>4. LeaseS \in 1 .. LeaseS
    BY LeaseAssumption
  <2>5. left' \in [DOMAIN left' -> 1 .. LeaseS] /\ DOMAIN left' = DOMAIN left \cup {n}
    BY <2>1, <2>4, PutIs, PutType DEF FeederOK
  <2>6. FeederOK' /\ DOMAIN tenants' = DOMAIN tenants
    BY <1>2, <2>1, <2>3, <2>5 DEF FeederOK
  <2>7. n \in DOMAIN left' /\ left'[n] = LeaseS /\ \A k \in DOMAIN left \ {n} : k \in DOMAIN left' /\ left'[k] = left[k]
    BY <2>1 DEF Put
  <2>8. tenants'[n] = [tenants[n] EXCEPT !.ratio = s] /\ \A k \in DOMAIN tenants \ {n} : tenants'[k] = tenants[k]
    BY <1>2, <2>1
  <2>9. tenants'[n].ratio = s
    BY <2>2, <2>8
  <2> QED BY <2>6, <2>7, <2>8, <2>9
<1> QED BY <1>1, <1>2

---------------------------------------------------------------------------
(* The steps *)

Rest == FactorsOK /\ EvidenceOK /\ JudgedOnce /\ Counts

LEMMA AtFirst == Init => IInv
<1> SUFFICES ASSUME Init PROVE IInv
  OBVIOUS
<1>1. DOMAIN EmptyDict = {} /\ \A T : EmptyDict \in [{} -> T]
  BY DEF EmptyDict
<1>2. FeederOK /\ FactorsOK
  BY <1>1 DEF Init, FeederOK, FactorsOK
<1>3. EvidenceOK
  <2>1. streak = EmptyDict /\ EmptyDict \in [{} -> Streak]
    BY <1>1 DEF Init
  <2>2. quiet \in [Tenants -> 0 .. Most]
    BY MostIs DEF Init
  <2> QED BY <1>1, <2>1, <2>2 DEF Init, EvidenceOK
<1>4. JudgedOnce /\ Counts
  BY <1>1 DEF Init, JudgedOnce, Counts
<1>5. HeldIsApplied
  BY DEF Init, HeldIsApplied
<1> QED BY <1>2, <1>3, <1>4, <1>5 DEF IInv

LEMMA SafeByRegister ==
    ASSUME IInv, NEW n \in Tenants, NEW c \in Contracts, Register(n, c)
    PROVE  IInv'
<1> DEFINE v == [contract |-> c, ratio |-> c, armed |-> FALSE]
<1>1. v \in Tenant
  BY LeaseAssumption DEF Tenant
<1>2. tenants' = Put(tenants, {n}, v) /\ left' = Drop(left, {n})
  BY DEF Register
<1> HIDE DEF v
<1>3. /\ tenants' \in [DOMAIN tenants' -> Tenant] /\ DOMAIN tenants' = DOMAIN tenants \cup {n}
      /\ \A k \in DOMAIN tenants \ {n} : tenants'[k] = tenants[k]
  <2>1. tenants \in [DOMAIN tenants -> Tenant]
    BY DEF IInv, FeederOK
  <2>2. tenants' \in [DOMAIN tenants' -> Tenant]
    BY <1>1, <1>2, <2>1, PutType
  <2>3. DOMAIN tenants' = DOMAIN tenants \cup {n} /\ \A k \in DOMAIN tenants \ {n} : tenants'[k] = tenants[k]
    BY <1>2 DEF Put
  <2> QED BY <2>2, <2>3
<1>4. /\ left' \in [DOMAIN left' -> 1 .. LeaseS] /\ DOMAIN left' = DOMAIN left \ {n}
      /\ \A k \in DOMAIN left \ {n} : left'[k] = left[k]
  BY <1>2 DEF Drop, IInv, FeederOK
<1>5. FeederOK'
  BY <1>3, <1>4 DEF IInv, FeederOK
<1>6. judged' = judged \ {n} /\ UNCHANGED <<sampled, todo, base, mult, streak, quiet>>
  BY DEF Register, loop
<1>7. Rest'
  BY <1>6 DEF Rest, IInv, FactorsOK, EvidenceOK, JudgedOnce, Counts
<1>8. HeldIsApplied'
  BY <1>3, <1>4, <1>6 DEF IInv, HeldIsApplied
<1> QED BY <1>5, <1>7, <1>8 DEF Rest, IInv

LEMMA SafeByDeregister ==
    ASSUME IInv, NEW n \in Tenants, Deregister(n)
    PROVE  IInv'
<1>2. tenants' = Drop(tenants, {n}) /\ left' = Drop(left, {n})
  BY DEF Deregister
<1>3. /\ tenants' \in [DOMAIN tenants' -> Tenant] /\ DOMAIN tenants' = DOMAIN tenants \ {n}
      /\ \A k \in DOMAIN tenants \ {n} : tenants'[k] = tenants[k]
  BY <1>2 DEF Drop, IInv, FeederOK
<1>4. /\ left' \in [DOMAIN left' -> 1 .. LeaseS] /\ DOMAIN left' = DOMAIN left \ {n}
      /\ \A k \in DOMAIN left \ {n} : left'[k] = left[k]
  BY <1>2 DEF Drop, IInv, FeederOK
<1>5. FeederOK'
  BY <1>3, <1>4 DEF IInv, FeederOK
<1>6. judged' = judged \ {n} /\ UNCHANGED <<sampled, todo, base, mult, streak, quiet>>
  BY DEF Deregister, loop
<1>7. Rest'
  BY <1>6 DEF Rest, IInv, FactorsOK, EvidenceOK, JudgedOnce, Counts
<1>8. HeldIsApplied'
  BY <1>3, <1>4, <1>6 DEF IInv, HeldIsApplied
<1> QED BY <1>5, <1>7, <1>8 DEF Rest, IInv

LEMMA SafeByArm ==
    ASSUME IInv, NEW n \in Tenants, NEW on \in BOOLEAN, Arm(n, on)
    PROVE  IInv'
<1>1. /\ n \in DOMAIN tenants /\ tenants' = [tenants EXCEPT ![n].armed = on]
      /\ UNCHANGED <<left, sampled, todo, base, mult, streak, quiet, judged>>
  BY DEF Arm, loop
<1>2. /\ [tenants[n] EXCEPT !.armed = on] \in Tenant
      /\ [tenants[n] EXCEPT !.armed = on].ratio = tenants[n].ratio
  BY <1>1 DEF IInv, FeederOK, Tenant
<1>3. tenants' \in [DOMAIN tenants -> Tenant] /\ \A k \in DOMAIN tenants : tenants'[k].ratio = tenants[k].ratio
  BY <1>1, <1>2 DEF IInv, FeederOK
<1>4. FeederOK' /\ DOMAIN tenants' = DOMAIN tenants
  BY <1>1, <1>3 DEF IInv, FeederOK
<1>5. Rest'
  BY <1>1 DEF Rest, IInv, FactorsOK, EvidenceOK, JudgedOnce, Counts
<1>6. HeldIsApplied'
  BY <1>1, <1>3, <1>4 DEF IInv, HeldIsApplied
<1> QED BY <1>4, <1>5, <1>6 DEF Rest, IInv

LEMMA SafeBySample ==
    ASSUME IInv, NEW d \in 1 .. MaxSleep, NEW answered \in BOOLEAN, Sample(d, answered)
    PROVE  IInv'
<1>1. Passed(d) /\ judged' = {} /\ sampled' \in BOOLEAN /\ UNCHANGED <<base, mult, streak, quiet>>
  BY DEF Sample, IInv, EvidenceOK
<1>2. DOMAIN tenants' = DOMAIN tenants /\ tenants' \in [DOMAIN tenants -> Tenant]
  <2>1. ASSUME NEW k \in DOMAIN tenants
        PROVE  tenants[k] \in Tenant /\ [tenants[k] EXCEPT !.ratio = tenants[k].contract] \in Tenant
    BY <2>1, LeaseAssumption DEF IInv, FeederOK, Tenant
  <2> QED BY <1>1, <2>1 DEF Passed
<1>3. DOMAIN left' \subseteq DOMAIN left /\ left' \in [DOMAIN left' -> 1 .. LeaseS]
  <2>1. left' = [k \in DOMAIN left \ Ended(d) |-> left[k] - d]
    BY <1>1 DEF Passed
  <2>2. ASSUME NEW k \in DOMAIN left \ Ended(d) PROVE left[k] - d \in 1 .. LeaseS
    <3>1. left[k] \in 1 .. LeaseS /\ ~(left[k] <= d)
      BY <2>2 DEF Ended, IInv, FeederOK
    <3> QED BY <3>1, LeaseAssumption
  <2> QED BY <2>1, <2>2
<1>4. FeederOK'
  BY <1>2, <1>3 DEF IInv, FeederOK
<1>5. DOMAIN todo' \subseteq Tenants /\ todo' \in [DOMAIN todo' -> Nat]
  <2>1. CASE todo' = EmptyDict
    BY <2>1 DEF EmptyDict
  <2>2. CASE todo' = [k \in {j \in DOMAIN tenants : tenants'[j].armed} |-> tenants'[k].ratio]
    <3>1. ASSUME NEW k \in DOMAIN tenants PROVE tenants'[k].ratio \in Nat
      BY <1>2, <3>1 DEF Tenant
    <3> QED BY <2>2, <3>1 DEF IInv, FeederOK
  <2> QED BY <2>1, <2>2 DEF Sample
<1>6. FactorsOK' /\ EvidenceOK'
  BY <1>1, <1>5 DEF IInv, FactorsOK, EvidenceOK
<1>7. JudgedOnce' /\ Counts' /\ HeldIsApplied'
  BY <1>1 DEF IInv, JudgedOnce, Counts, HeldIsApplied
<1> QED BY <1>4, <1>6, <1>7 DEF IInv

\* One tenant is judged: the factor becomes m, the streak's count cnt and the count
\* of quiet judgements q.
LEMMA SafeByJudgement ==
    ASSUME IInv, NEW n \in Tenants, NEW dir \in {-1, 0, 1}, NEW lost \in BOOLEAN,
           NEW m \in Lo .. Hi, NEW cnt \in 0 .. Most, NEW q \in 0 .. Most, cnt <= q,
           Judge(n, dir, lost),
           mult' = Put(mult, {n}, m),
           streak' = Put(streak, {n}, [dir |-> dir, cnt |-> cnt]),
           quiet' = [quiet EXCEPT ![n] = q],
           FeederOK', DOMAIN tenants' = DOMAIN tenants,
           \A k \in DOMAIN tenants \ {n} :
              tenants'[k] = tenants[k] /\ (k \in DOMAIN left => k \in DOMAIN left' /\ left'[k] = left[k]),
           ~lost /\ n \in DOMAIN tenants /\ m \notin {Lo, One, Hi} =>
              tenants'[n].ratio = Share(n, m) /\ n \in DOMAIN left' /\ left'[n] = LeaseS
    PROVE  IInv'
<1>1. /\ n \in DOMAIN todo /\ todo' = Drop(todo, {n}) /\ base' = Put(base, {n}, BaseOf(n))
      /\ judged' = IF lost THEN judged ELSE judged \cup {n}
      /\ sampled' = sampled
  BY DEF Judge
<1>2. BaseOf(n) \in Nat
  BY <1>1, FactorIs DEF IInv
<1>3. DOMAIN todo' = DOMAIN todo \ {n} /\ todo' \in [DOMAIN todo' -> Nat]
  BY <1>1 DEF Drop, IInv, FactorsOK
<1>4. /\ DOMAIN base' = DOMAIN base \cup {n} /\ base' \in [DOMAIN base' -> Nat] /\ base'[n] = BaseOf(n)
      /\ \A k \in DOMAIN base \ {n} : base'[k] = base[k]
  <2>1. base \in [DOMAIN base -> Nat]
    BY DEF IInv, FactorsOK
  <2> QED BY <1>1, <1>2, <2>1 DEF Put
<1>5. /\ DOMAIN mult' = DOMAIN mult \cup {n} /\ mult' \in [DOMAIN mult' -> Lo .. Hi] /\ mult'[n] = m
      /\ \A k \in DOMAIN mult \ {n} : mult'[k] = mult[k]
  <2>1. mult \in [DOMAIN mult -> Lo .. Hi]
    BY DEF IInv, FactorsOK
  <2> QED BY <2>1 DEF Put
<1>6. /\ DOMAIN streak' = DOMAIN streak \cup {n} /\ streak' \in [DOMAIN streak' -> Streak]
      /\ streak'[n].cnt = cnt
      /\ \A k \in DOMAIN streak \ {n} : streak'[k] = streak[k]
  <2> DEFINE v == [dir |-> dir, cnt |-> cnt]
  <2>1. streak \in [DOMAIN streak -> Streak] /\ v \in Streak /\ v.cnt = cnt
    BY DEF IInv, EvidenceOK, Streak
  <2>2. streak' = Put(streak, {n}, v)
    OBVIOUS
  <2> HIDE DEF v
  <2> QED BY <2>1, <2>2 DEF Put
<1>7. /\ quiet' \in [Tenants -> 0 .. Most] /\ quiet'[n] = q
      /\ \A k \in Tenants \ {n} : quiet'[k] = quiet[k]
  BY DEF IInv, EvidenceOK
<1>8. FactorsOK'
  BY <1>3, <1>4, <1>5 DEF IInv, FactorsOK
<1>9. EvidenceOK'
  BY <1>1, <1>4, <1>6, <1>7 DEF IInv, EvidenceOK
<1>10. JudgedOnce'
  BY <1>1, <1>3, <1>4 DEF IInv, JudgedOnce
<1>11. Counts'
  <2>1. ASSUME NEW k \in DOMAIN streak' PROVE streak'[k].cnt <= quiet'[k]
    <3>1. CASE k = n
      BY <3>1, <1>6, <1>7
    <3>2. CASE k # n
      <4>1. k \in DOMAIN streak /\ k \in Tenants /\ streak'[k] = streak[k] /\ quiet'[k] = quiet[k]
        BY <1>6, <1>7, <2>1, <3>2 DEF IInv, EvidenceOK, FactorsOK
      <4> QED BY <4>1 DEF IInv, Counts
    <3> QED BY <3>1, <3>2
  <2> QED BY <2>1 DEF Counts
<1>12. HeldIsApplied'
  <2>1. ASSUME NEW k \in judged', mult'[k] \notin {Lo, One, Hi}, k \in DOMAIN tenants'
        PROVE  /\ tenants'[k].ratio = (base'[k] * mult'[k]) \div One
               /\ k \in DOMAIN left' /\ left'[k] = LeaseS
    <3>1. CASE k = n
      <4>1. ~lost
        BY <1>1, <2>1, <3>1 DEF IInv, JudgedOnce
      <4>2. m \notin {Lo, One, Hi} /\ n \in DOMAIN tenants
        BY <1>5, <2>1, <3>1
      <4> QED BY <1>4, <1>5, <3>1, <4>1, <4>2 DEF Share
    <3>2. CASE k # n
      <4>1. k \in judged
        BY <1>1, <2>1, <3>2
      <4>2. k \in DOMAIN base /\ k \in DOMAIN mult
        BY <4>1 DEF IInv, JudgedOnce, FactorsOK
      <4>3. base'[k] = base[k] /\ mult'[k] = mult[k] /\ k \in DOMAIN tenants
        BY <1>4, <1>5, <2>1, <3>2, <4>2
      <4>4. tenants[k].ratio = (base[k] * mult[k]) \div One /\ k \in DOMAIN left /\ left[k] = LeaseS
        BY <2>1, <4>1, <4>3 DEF IInv, HeldIsApplied
      <4> QED BY <3>2, <4>3, <4>4
    <3> QED BY <3>1, <3>2
  <2> QED BY <2>1 DEF HeldIsApplied
<1> QED BY <1>8, <1>9, <1>10, <1>11, <1>12 DEF IInv

LEMMA SafeByHold ==
    ASSUME IInv, NEW n \in Tenants, NEW dir \in {-1, 0, 1}, NEW lost \in BOOLEAN,
           Hold(n, dir, lost) \/ Bounded(n, dir, lost)
    PROVE  IInv'
<1> DEFINE m == MultOf(n)
           cnt == Counted(n, dir)
           q == AtMost(quiet[n] + 1)
<1>1. /\ Judge(n, dir, lost) /\ n \in DOMAIN todo
      /\ mult' = Put(mult, {n}, m)
      /\ streak' = Put(streak, {n}, [dir |-> dir, cnt |-> cnt])
      /\ quiet' = [quiet EXCEPT ![n] = q]
  BY DEF Hold, Bounded, Judge
<1>2. m \in Lo .. Hi /\ cnt \in 0 .. Most /\ q \in 0 .. Most /\ cnt <= q
  BY FactorIs, CountedIs DEF IInv
<1>3. Share(n, m) \in Nat
  BY <1>1, <1>2, ShareIs DEF IInv
<1>4. Post(n, Share(n, m), lost) \/ (UNCHANGED <<tenants, left>> /\ m \in {Lo, One, Hi})
  <2>1. CASE Hold(n, dir, lost)
    BY <2>1 DEF Hold
  <2>2. CASE Bounded(n, dir, lost)
    <3>1. UNCHANGED <<tenants, left>> /\ Clamped(m + dir) = m /\ dir # 0
      BY <2>2 DEF Bounded, Enough
    <3> QED BY <1>2, <3>1, ClampedIs
  <2> QED BY <2>1, <2>2
<1> HIDE DEF m, cnt, q
<1>5. /\ FeederOK' /\ DOMAIN tenants' = DOMAIN tenants
      /\ \A k \in DOMAIN tenants \ {n} :
            tenants'[k] = tenants[k] /\ (k \in DOMAIN left => k \in DOMAIN left' /\ left'[k] = left[k])
      /\ ~lost /\ n \in DOMAIN tenants /\ m \notin {Lo, One, Hi} =>
            tenants'[n].ratio = Share(n, m) /\ n \in DOMAIN left' /\ left'[n] = LeaseS
  <2>1. CASE Post(n, Share(n, m), lost)
    BY <1>3, <2>1, PostIs DEF IInv
  <2>2. CASE UNCHANGED <<tenants, left>> /\ m \in {Lo, One, Hi}
    BY <2>2 DEF IInv, FeederOK
  <2> QED BY <1>4, <2>1, <2>2
<1> QED BY <1>1, <1>2, <1>5, SafeByJudgement

LEMMA SafeByMove ==
    ASSUME IInv, NEW n \in Tenants, NEW dir \in {-1, 0, 1}, NEW lost \in BOOLEAN, Move(n, dir, lost)
    PROVE  IInv'
<1> DEFINE m == Clamped(MultOf(n) + dir)
           none == 0
<1>1. /\ Judge(n, dir, lost) /\ n \in DOMAIN todo
      /\ mult' = Put(mult, {n}, m)
      /\ streak' = Put(streak, {n}, [dir |-> dir, cnt |-> none])
      /\ quiet' = [quiet EXCEPT ![n] = none]
      /\ Post(n, Share(n, mult'[n]), lost)
  BY DEF Move, Judge
<1>2. m \in Lo .. Hi /\ none \in 0 .. Most /\ none <= none
  BY FactorIs, ClampedIs, MostIs DEF IInv
<1> HIDE DEF m, none
<1>3. mult'[n] = m
  BY <1>1 DEF Put
<1>4. Share(n, m) \in Nat /\ Post(n, Share(n, m), lost)
  BY <1>1, <1>2, <1>3, ShareIs DEF IInv
<1>5. /\ FeederOK' /\ DOMAIN tenants' = DOMAIN tenants
      /\ \A k \in DOMAIN tenants \ {n} :
            tenants'[k] = tenants[k] /\ (k \in DOMAIN left => k \in DOMAIN left' /\ left'[k] = left[k])
      /\ ~lost /\ n \in DOMAIN tenants =>
            tenants'[n].ratio = Share(n, m) /\ n \in DOMAIN left' /\ left'[n] = LeaseS
  BY <1>4, PostIs DEF IInv
<1> QED BY <1>1, <1>2, <1>5, SafeByJudgement

LEMMA SafeByUnknown ==
    ASSUME IInv, NEW n \in Tenants, Unknown(n)
    PROVE  IInv'
<1>1. /\ n \in DOMAIN todo /\ todo' = Drop(todo, {n}) /\ base' = Put(base, {n}, BaseOf(n))
      /\ mult' = Put(mult, {n}, MultOf(n))
      /\ UNCHANGED <<tenants, left, sampled, streak, judged, quiet>>
  BY DEF Unknown
<1>2. BaseOf(n) \in Nat /\ MultOf(n) \in Lo .. Hi
  BY <1>1, FactorIs DEF IInv
<1>3. DOMAIN todo' = DOMAIN todo \ {n} /\ todo' \in [DOMAIN todo' -> Nat]
  BY <1>1 DEF Drop, IInv, FactorsOK
<1>4. /\ DOMAIN base' = DOMAIN base \cup {n} /\ base' \in [DOMAIN base' -> Nat]
      /\ \A k \in DOMAIN base \ {n} : base'[k] = base[k]
  <2>1. base \in [DOMAIN base -> Nat]
    BY DEF IInv, FactorsOK
  <2> QED BY <1>1, <1>2, <2>1 DEF Put
<1>5. /\ DOMAIN mult' = DOMAIN mult \cup {n} /\ mult' \in [DOMAIN mult' -> Lo .. Hi]
      /\ \A k \in DOMAIN mult \ {n} : mult'[k] = mult[k]
  <2>1. mult \in [DOMAIN mult -> Lo .. Hi]
    BY DEF IInv, FactorsOK
  <2> QED BY <1>1, <1>2, <2>1 DEF Put
<1>6. FeederOK' /\ FactorsOK' /\ EvidenceOK' /\ JudgedOnce' /\ Counts'
  BY <1>1, <1>3, <1>4, <1>5 DEF IInv, FeederOK, FactorsOK, EvidenceOK, JudgedOnce, Counts
<1>7. HeldIsApplied'
  <2>1. ASSUME NEW k \in judged PROVE base'[k] = base[k] /\ mult'[k] = mult[k]
    <3>1. k # n /\ k \in DOMAIN base /\ k \in DOMAIN mult
      BY <1>1, <2>1 DEF IInv, JudgedOnce, FactorsOK
    <3> QED BY <1>4, <1>5, <3>1
  <2> QED BY <1>1, <2>1 DEF IInv, HeldIsApplied
<1> QED BY <1>6, <1>7 DEF IInv

LEMMA SafeByRestart ==
    ASSUME IInv, Restart
    PROVE  IInv'
<1>1. /\ todo' = EmptyDict /\ base' = EmptyDict /\ mult' = EmptyDict /\ streak' = EmptyDict
      /\ judged' = {} /\ sampled' = FALSE /\ quiet' = [k \in Tenants |-> 0] /\ UNCHANGED <<tenants, left>>
  BY DEF Restart
<1>2. /\ DOMAIN EmptyDict = {} /\ EmptyDict \in [{} -> Nat]
      /\ EmptyDict \in [{} -> Lo .. Hi] /\ EmptyDict \in [{} -> Streak]
  BY DEF EmptyDict
<1>3. quiet' \in [Tenants -> 0 .. Most]
  BY <1>1, MostIs
<1>4. FeederOK' /\ FactorsOK'
  BY <1>1, <1>2 DEF IInv, FeederOK, FactorsOK
<1>5. EvidenceOK'
  BY <1>1, <1>2, <1>3 DEF EvidenceOK
<1>6. JudgedOnce' /\ Counts'
  BY <1>1, <1>2 DEF JudgedOnce, Counts
<1>7. HeldIsApplied'
  BY <1>1 DEF HeldIsApplied
<1> QED BY <1>4, <1>5, <1>6, <1>7 DEF IInv

LEMMA IInvKept ==
    ASSUME IInv, [Next]_vars
    PROVE  IInv'
<1>1. CASE UNCHANGED vars
  <2>1. FeederOK' /\ FactorsOK' /\ EvidenceOK' /\ JudgedOnce' /\ Counts'
    BY <1>1 DEF vars, loop, IInv, FeederOK, FactorsOK, EvidenceOK, JudgedOnce, Counts
  <2>2. HeldIsApplied'
    BY <1>1 DEF vars, loop, IInv, HeldIsApplied
  <2> QED BY <2>1, <2>2 DEF IInv
<1>2. CASE \E n \in Tenants, c \in Contracts : Register(n, c)
  BY <1>2, SafeByRegister
<1>3. CASE (\E n \in Tenants : Deregister(n)) \/ (\E n \in Tenants, on \in BOOLEAN : Arm(n, on))
  BY <1>3, SafeByDeregister, SafeByArm
<1>4. CASE \E d \in 1 .. MaxSleep, answered \in BOOLEAN : Sample(d, answered)
  BY <1>4, SafeBySample
<1>5. CASE \E n \in Tenants, dir \in {-1, 0, 1}, lost \in BOOLEAN : Hold(n, dir, lost) \/ Bounded(n, dir, lost)
  BY <1>5, SafeByHold
<1>6. CASE \E n \in Tenants, dir \in {-1, 0, 1}, lost \in BOOLEAN : Move(n, dir, lost)
  BY <1>6, SafeByMove
<1>7. CASE (\E n \in Tenants : Unknown(n)) \/ Restart
  BY <1>7, SafeByUnknown, SafeByRestart
<1> QED BY <1>1, <1>2, <1>3, <1>4, <1>5, <1>6, <1>7 DEF Next, Step

---------------------------------------------------------------------------
(* The theorems *)

\* The inductive invariant holds in every reachable state.
THEOREM SliceInvariant == Spec => []IInv
BY AtFirst, IInvKept, PTL DEF Spec

\* The loop's factors stay within BOUND_LO and BOUND_HI, its dictionaries and the
\* feeder's are of their types.
THEOREM SliceTypeCorrect == Spec => []TypeOK
<1>1. IInv => TypeOK
  BY TypesAre DEF IInv
<1> QED BY <1>1, SliceInvariant, PTL

\* A factor inside the bounds that was judged in this round is applied in full by the
\* feeder, and leased anew, whatever requests were lost before.
THEOREM HeldStays == Spec => []HeldIsApplied
<1>1. IInv => HeldIsApplied
  BY DEF IInv
<1> QED BY <1>1, SliceInvariant, PTL

LEMMA StepNeedsQuiet ==
    ASSUME IInv, [Next]_vars, NEW n \in DOMAIN mult \cap DOMAIN mult'
    PROVE  /\ mult'[n] > mult[n] => quiet[n] + 1 >= UpHold
           /\ mult'[n] < mult[n] => quiet[n] + 1 >= DownHold
<1>0. n \in Tenants /\ mult[n] \in Lo .. Hi /\ Lo .. Hi \subseteq Int
  BY FactorAssumption DEF IInv, FactorsOK
<1>1. CASE mult'[n] = mult[n]
  BY <1>0, <1>1
<1>2. ASSUME NEW k \in Tenants, NEW dir \in {-1, 0, 1}, NEW lost \in BOOLEAN, Move(k, dir, lost),
             mult'[n] # mult[n]
      PROVE  /\ mult'[n] > mult[n] => quiet[n] + 1 >= UpHold
             /\ mult'[n] < mult[n] => quiet[n] + 1 >= DownHold
  <2>1. mult' = Put(mult, {k}, Clamped(MultOf(k) + dir)) /\ Enough(k, dir)
        /\ Clamped(MultOf(k) + dir) # MultOf(k)
    BY <1>2 DEF Move
  <2>2. k = n
    BY <1>2, <2>1 DEF Put
  <2>3. MultOf(n) = mult[n]
    BY DEF MultOf
  <2>4. mult'[n] = Clamped(mult[n] + dir)
    BY <2>1, <2>2, <2>3 DEF Put
  <2>5. mult'[n] = mult[n] + dir
    BY <1>0, <2>1, <2>2, <2>3, <2>4, ClampedIs
  <2>6. Counted(n, dir) \in Nat /\ Counted(n, dir) <= quiet[n] + 1 /\ quiet[n] \in Nat
    BY <1>0, CountedIs, MostIs DEF IInv, EvidenceOK
  <2>7. Counted(n, dir) >= (IF dir > 0 THEN UpHold ELSE DownHold)
    BY <2>1, <2>2 DEF Enough
  <2>8. CASE dir = 1
    BY <1>0, <2>5, <2>6, <2>7, <2>8, HoldAssumption
  <2>9. CASE dir = -1
    BY <1>0, <2>5, <2>6, <2>7, <2>9, HoldAssumption
  <2>10. CASE dir = 0
    BY <1>0, <1>2, <2>5, <2>10
  <2> QED BY <2>8, <2>9, <2>10
<1>3. ASSUME NEW k \in Tenants, mult' = Put(mult, {k}, MultOf(k))
      PROVE  mult'[n] = mult[n]
  BY <1>3 DEF Put, MultOf
<1>4. ASSUME UNCHANGED mult PROVE mult'[n] = mult[n]
  BY <1>4
<1>5. CASE Restart
  BY <1>5 DEF Restart, EmptyDict
<1>6. CASE \E k \in Tenants, c \in Contracts : Register(k, c)
  BY <1>1, <1>4, <1>6 DEF Register, loop
<1>7. CASE (\E k \in Tenants : Deregister(k)) \/ (\E k \in Tenants, on \in BOOLEAN : Arm(k, on))
           \/ UNCHANGED vars
  BY <1>1, <1>4, <1>7 DEF Deregister, Arm, loop, vars
<1>8. CASE \E d \in 1 .. MaxSleep, answered \in BOOLEAN : Sample(d, answered)
  BY <1>1, <1>4, <1>8 DEF Sample
<1>9. CASE (\E k \in Tenants, dir \in {-1, 0, 1}, lost \in BOOLEAN : Hold(k, dir, lost) \/ Bounded(k, dir, lost))
           \/ (\E k \in Tenants : Unknown(k))
  BY <1>1, <1>3, <1>9 DEF Hold, Bounded, Unknown
<1>10. CASE \E k \in Tenants, dir \in {-1, 0, 1}, lost \in BOOLEAN : Move(k, dir, lost)
  BY <1>1, <1>2, <1>10
<1> QED BY <1>5, <1>6, <1>7, <1>8, <1>9, <1>10 DEF Next, Step

\* UP_HOLD judgements lie before a raise and DOWN_HOLD before a cut.
THEOREM FactorIsPaced == Spec => Pace
<1>1. IInv /\ [Next]_vars =>
        [\A n \in DOMAIN mult \cap DOMAIN mult' :
            /\ mult'[n] > mult[n] => quiet[n] + 1 >= UpHold
            /\ mult'[n] < mult[n] => quiet[n] + 1 >= DownHold]_vars
  BY StepNeedsQuiet
<1> QED BY <1>1, SliceInvariant, PTL DEF Spec, Pace

---------------------------------------------------------------------------
(* What the loop does to a share is a loan *)

\* The tables as ShareContract sees them: this loop has its leases from the feeder's
\* default and waives nothing.
DealOf ==
    [n \in Tenants |->
        IF n \notin DOMAIN tenants THEN [kind |-> "gone"]
        ELSE [kind |-> IF n \in DOMAIN left THEN "loan" ELSE "contract",
              contract |-> tenants[n].contract,
              applied  |-> tenants[n].ratio]]

Promise == INSTANCE ShareContract WITH Ratios <- Nat, deal <- DealOf

\* A share other than the contract has a lease running.
OnLoanOnly ==
    \A n \in DOMAIN tenants : tenants[n].ratio # tenants[n].contract => n \in DOMAIN left

\* What one step can mean for a tenant: it is as it was, new, gone, lent a share, or
\* given its contract back.
Same(n) ==
    /\ n \in DOMAIN tenants' <=> n \in DOMAIN tenants
    /\ n \in DOMAIN left' <=> n \in DOMAIN left
    /\ n \in DOMAIN tenants => /\ tenants'[n].contract = tenants[n].contract
                              /\ tenants'[n].ratio = tenants[n].ratio
New(n) ==
    /\ n \in DOMAIN tenants' /\ n \notin DOMAIN left'
    /\ tenants'[n].ratio = tenants'[n].contract
Lent(n) ==
    /\ n \in DOMAIN tenants /\ n \in DOMAIN tenants' /\ n \in DOMAIN left'
    /\ tenants'[n].contract = tenants[n].contract
Returned(n) ==
    /\ n \in DOMAIN tenants /\ n \in DOMAIN left
    /\ n \in DOMAIN tenants' /\ n \notin DOMAIN left'
    /\ tenants'[n].contract = tenants[n].contract
    /\ tenants'[n].ratio = tenants[n].contract
Becomes(n) == Same(n) \/ New(n) \/ n \notin DOMAIN tenants' \/ Lent(n) \/ Returned(n)

LEMMA BecomesByPost ==
    ASSUME IInv, NEW m, NEW s, NEW lost, Post(m, s, lost), NEW n
    PROVE  Becomes(n)
<1>1. CASE UNCHANGED <<tenants, left>>
  BY <1>1 DEF Becomes, Same
<1>2. CASE m \in DOMAIN tenants /\ tenants' = [tenants EXCEPT ![m].ratio = s] /\ left' = Put(left, {m}, LeaseS)
  <2>1. DOMAIN tenants' = DOMAIN tenants /\ DOMAIN left' = DOMAIN left \cup {m}
    BY <1>2 DEF Put
  <2>2. CASE n = m
    <3>1. tenants'[m] = [tenants[m] EXCEPT !.ratio = s] /\ tenants[m] \in Tenant
      BY <1>2 DEF IInv, FeederOK
    <3>2. tenants'[m].contract = tenants[m].contract
      BY <3>1 DEF Tenant
    <3> QED BY <1>2, <2>1, <2>2, <3>2 DEF Becomes, Lent
  <2>3. CASE n # m
    BY <1>2, <2>1, <2>3 DEF Becomes, Same
  <2> QED BY <2>2, <2>3
<1> QED BY <1>1, <1>2 DEF Post

LEMMA BecomesByMembership ==
    ASSUME IInv, NEW m \in Tenants, NEW n \in Tenants,
           Deregister(m) \/ \E c \in Contracts : Register(m, c)
    PROVE  Becomes(n)
<1>1. CASE Deregister(m)
  <2>1. tenants' = Drop(tenants, {m}) /\ left' = Drop(left, {m})
    BY <1>1 DEF Deregister
  <2> QED BY <2>1 DEF Drop, Becomes, Same
<1>2. ASSUME NEW c \in Contracts, Register(m, c)
      PROVE  Becomes(n)
  <2> DEFINE v == [contract |-> c, ratio |-> c, armed |-> FALSE]
  <2>1. tenants' = Put(tenants, {m}, v) /\ left' = Drop(left, {m}) /\ v.ratio = v.contract
    BY <1>2 DEF Register
  <2> HIDE DEF v
  <2>2. CASE n = m
    BY <2>1, <2>2 DEF Put, Drop, Becomes, New
  <2>3. CASE n # m
    BY <2>1, <2>3 DEF Put, Drop, Becomes, Same
  <2> QED BY <2>2, <2>3
<1> QED BY <1>1, <1>2

LEMMA BecomesByArm ==
    ASSUME IInv, NEW m \in Tenants, NEW on \in BOOLEAN, Arm(m, on), NEW n
    PROVE  Becomes(n)
<1>1. m \in DOMAIN tenants /\ tenants' = [tenants EXCEPT ![m].armed = on] /\ UNCHANGED left
  BY DEF Arm
<1>2. /\ [tenants[m] EXCEPT !.armed = on].ratio = tenants[m].ratio
      /\ [tenants[m] EXCEPT !.armed = on].contract = tenants[m].contract
  BY <1>1 DEF IInv, FeederOK, Tenant
<1> QED BY <1>1, <1>2 DEF Becomes, Same

LEMMA BecomesBySample ==
    ASSUME IInv, NEW d \in 1 .. MaxSleep, Passed(d), NEW n
    PROVE  Becomes(n)
<1>1. /\ DOMAIN tenants' = DOMAIN tenants /\ DOMAIN left' = DOMAIN left \ Ended(d)
      /\ Ended(d) \subseteq DOMAIN left
  BY DEF Passed, Ended
<1>2. CASE n \in Ended(d)
  <2>1. n \in DOMAIN tenants /\ n \in DOMAIN left
    BY <1>1, <1>2 DEF IInv, FeederOK
  <2>2. tenants'[n] = [tenants[n] EXCEPT !.ratio = tenants[n].contract] /\ tenants[n] \in Tenant
    BY <1>2, <2>1 DEF Passed, IInv, FeederOK
  <2>3. tenants'[n].ratio = tenants[n].contract /\ tenants'[n].contract = tenants[n].contract
    BY <2>2 DEF Tenant
  <2> QED BY <1>1, <1>2, <2>1, <2>3 DEF Becomes, Returned
<1>3. CASE n \notin Ended(d)
  <2>1. n \in DOMAIN tenants => tenants'[n] = tenants[n]
    BY <1>3 DEF Passed
  <2> QED BY <1>1, <1>3, <2>1 DEF Becomes, Same
<1> QED BY <1>2, <1>3

\* Every step does one of these to every tenant.
LEMMA Becoming ==
    ASSUME IInv, [Next]_vars, NEW n \in Tenants
    PROVE  Becomes(n)
<1>0. UNCHANGED <<tenants, left>> => Becomes(n)
  BY DEF Becomes, Same
<1>1. CASE UNCHANGED vars \/ Restart \/ \E m \in Tenants : Unknown(m)
  BY <1>0, <1>1 DEF vars, Restart, Unknown
<1>2. CASE (\E m \in Tenants, c \in Contracts : Register(m, c)) \/ (\E m \in Tenants : Deregister(m))
  BY <1>2, BecomesByMembership
<1>3. CASE \E m \in Tenants, on \in BOOLEAN : Arm(m, on)
  BY <1>3, BecomesByArm
<1>4. CASE \E d \in 1 .. MaxSleep, answered \in BOOLEAN : Sample(d, answered)
  BY <1>4, BecomesBySample DEF Sample
<1>5. CASE \E m \in Tenants, dir \in {-1, 0, 1}, lost \in BOOLEAN :
              Hold(m, dir, lost) \/ Bounded(m, dir, lost) \/ Move(m, dir, lost)
  BY <1>0, <1>5, BecomesByPost DEF Hold, Bounded, Move
<1> QED BY <1>1, <1>2, <1>3, <1>4, <1>5 DEF Next, Step

LEMMA OnLoanOnlyKept ==
    ASSUME IInv, IInv', OnLoanOnly, [Next]_vars
    PROVE  OnLoanOnly'
<1> SUFFICES ASSUME NEW n \in DOMAIN tenants', tenants'[n].ratio # tenants'[n].contract
             PROVE  n \in DOMAIN left'
  BY DEF OnLoanOnly
<1>1. n \in Tenants
  BY DEF IInv, FeederOK
<1> QED BY <1>1, Becoming DEF Becomes, Same, New, Lent, Returned, OnLoanOnly

\* The loop, its restarts and its lost requests leave no share behind: what is not the
\* contract is on lease (slice_loop.py, "renew").
THEOREM AdjustedIsOnLoan == Spec => []OnLoanOnly
<1>1. Init => OnLoanOnly
  BY DEF Init, EmptyDict, OnLoanOnly
<1>2. IInv /\ IInv' /\ OnLoanOnly /\ [Next]_vars => OnLoanOnly'
  BY OnLoanOnlyKept
<1> QED BY <1>1, <1>2, SliceInvariant, PTL DEF Spec

DealTyped == DealOf \in [Tenants -> Promise!Deals]

LEMMA DealType == IInv => DealTyped
<1> SUFFICES ASSUME IInv, NEW n \in Tenants
             PROVE  DealOf[n] \in Promise!Deals
  BY DEF DealTyped, DealOf
<1>1. n \in DOMAIN tenants => tenants[n].contract \in Nat /\ tenants[n].ratio \in Nat
  BY LeaseAssumption DEF IInv, FeederOK, Tenant
<1> QED BY <1>1 DEF DealOf, Promise!Deals, Promise!Gone

LEMMA DealStep ==
    ASSUME IInv, IInv', NEW n \in Tenants, Becomes(n)
    PROVE  Promise!TenantStep(n)
<1>1. /\ n \in DOMAIN tenants => tenants[n].contract \in Nat /\ tenants[n].ratio \in Nat
      /\ n \in DOMAIN tenants' => tenants'[n].contract \in Nat /\ tenants'[n].ratio \in Nat
  BY LeaseAssumption DEF IInv, FeederOK, Tenant
<1>2. CASE Same(n)
  <2>1. DealOf'[n] = DealOf[n]
    BY <1>2 DEF DealOf, Same
  <2> QED BY <2>1 DEF Promise!TenantStep
<1>3. CASE New(n)
  <2>1. Promise!Sign(n)
    BY <1>1, <1>3 DEF DealOf, New, Promise!Sign
  <2> QED BY <2>1 DEF Promise!TenantStep
<1>4. CASE n \notin DOMAIN tenants'
  <2>1. Promise!Leave(n)
    BY <1>4 DEF DealOf, Promise!Leave, Promise!Gone
  <2> QED BY <2>1 DEF Promise!TenantStep
<1>5. CASE Lent(n)
  <2>1. DealOf[n] # Promise!Gone /\ DealOf[n].contract = tenants[n].contract
    BY <1>5 DEF DealOf, Lent, Promise!Gone
  <2>2. DealOf'[n] = [kind |-> "loan", contract |-> tenants[n].contract, applied |-> tenants'[n].ratio]
    BY <1>5 DEF DealOf, Lent
  <2>3. Promise!Adjust(n, "loan")
    BY <1>1, <1>5, <2>1, <2>2 DEF Lent, Promise!Adjust
  <2> QED BY <2>3 DEF Promise!TenantStep
<1>6. CASE Returned(n)
  <2>1. Promise!Return(n)
    BY <1>6 DEF DealOf, Returned, Promise!Return
  <2> QED BY <2>1 DEF Promise!TenantStep
<1> QED BY <1>2, <1>3, <1>4, <1>5, <1>6 DEF Becomes

LEMMA StepLends == IInv /\ IInv' /\ DealTyped' /\ [Next]_vars => [Promise!Next]_DealOf
BY Becoming, DealStep DEF DealTyped, Promise!Next

\* Seen from the contracts the adaptive loop only lends and lets loans end: together with
\* the feeder's other callers it implements ShareContract, whatever it forgets or loses.
THEOREM LoopOnlyLends == Spec => Promise!Spec
<1>1. Init => Promise!Init
  BY DEF Init, EmptyDict, DealOf, Promise!Init, Promise!Gone
<1>2. []IInv /\ [][Next]_vars => [][Promise!Next]_DealOf
  BY DealType, StepLends, PTL
<1> QED BY <1>1, <1>2, SliceInvariant, PTL DEF Spec, Promise!Spec

=============================================================================
