-------------------------- MODULE ClosedLoopProofs --------------------------
(***************************************************************************)
(* Safety of the interference loop for any ladder, any hold times and any  *)
(* observations: types, the order of the stages, no swing, shares only on  *)
(* lease and, as long as no POST is lost, rest is off.                     *)
(***************************************************************************)
EXTENDS ClosedLoop, TLAPS

Shares == [armed : BOOLEAN, share : {Contract} \cup Levels, lease : 0 .. LeaseS]

\* The instants that were reset when the ladder last moved are younger than the move.
Deadband ==
    /\ moved = "TIGHTEN" /\ below # Absent => dwell >= below
    /\ moved = "LOOSEN" /\ above # Absent => dwell >= above \/ dwell >= InterveneHold

\* The ladder is handed off with the level of the mask raised.
SpaceIsRaised == handedOff /\ ~symPromoted => space > 0

\* A raised level has been followed by a message, sent or given up, or was raised for
\* another aggressor.
SpaceIsTried == space > 0 => narrowing # "none"

\* At the last rung the mask was released longer ago than the victim began to suffer.
Stages ==
    /\ symPromoted => handedOff
    /\ sym = "different" /\ level = MaxLevel /\ space = 0 /\ above # Absent
         => spaceAge >= above \/ spaceAge >= SpaceDwell
    /\ SpaceIsRaised

Off(t) == ~feeder[t].armed /\ feeder[t].share = Contract

\* A share of a rung is on lease.
Leased == \A t \in Tenants : feeder[t].lease = 0 => feeder[t].share = Contract

\* The aggressor of a loop at rest is let go.
Resting == alive /\ lastAgg # Nobody /\ level = 0 => Off(lastAgg)

Dynamics == Deadband /\ Stages

---------------------------------------------------------------------------
(* Ages *)

LEMMA CapIs ==
    /\ ChangeCap \in Nat
    /\ MinDwell <= ChangeCap /\ ReleaseHold <= ChangeCap /\ InterveneHold <= ChangeCap
BY TimeAssumption DEF ChangeCap

\* An age grows by the time that passes, up to its cap.
LEMMA AgedIs ==
    ASSUME NEW cap \in Nat, NEW age \in 0 .. cap, NEW d \in Nat
    PROVE  /\ Aged(age, d, cap) \in 0 .. cap
           /\ Aged(age, d, cap) = age + d \/ (Aged(age, d, cap) = cap /\ age + d > cap)
BY DEF Aged

LEMMA AgedIfSetIs ==
    ASSUME NEW cap \in Nat, NEW age \in {Absent} \cup 0 .. cap, NEW d \in Nat
    PROVE  /\ age = Absent => AgedIfSet(age, d, cap) = Absent
           /\ age # Absent => /\ age \in 0 .. cap
                              /\ AgedIfSet(age, d, cap) # Absent
                              /\ AgedIfSet(age, d, cap) = Aged(age, d, cap)
                              /\ AgedIfSet(age, d, cap) \in 0 .. cap
           /\ AgedIfSet(age, d, cap) \in {Absent} \cup 0 .. cap
<1>1. CASE age = Absent
  BY <1>1 DEF AgedIfSet
<1>2. CASE age # Absent
  <2>1. age \in 0 .. cap /\ AgedIfSet(age, d, cap) = Aged(age, d, cap)
    BY <1>2 DEF AgedIfSet
  <2>2. Aged(age, d, cap) \in 0 .. cap
    BY <2>1, AgedIs
  <2>3. Aged(age, d, cap) # Absent
    BY <2>2, NamesAssumption
  <2> QED BY <1>2, <2>1, <2>2, <2>3
<1> QED BY <1>1, <1>2

LEMMA AboveNowIs ==
    ASSUME TypeOK
    PROVE  /\ AboveNow \in {Absent} \cup 0 .. PromoteAfter
           /\ Sustained => AboveNow \in 0 .. PromoteAfter /\ AboveNow = above /\ obs.r = "high"
BY TimeAssumption, NamesAssumption DEF AboveNow, Sustained, TypeOK

---------------------------------------------------------------------------
(* Posts *)

\* One tenant's entry is replaced.
LEMMA Replaced ==
    ASSUME feeder \in [Tenants -> Shares], NEW t, NEW r, t \in Tenants => r \in Shares,
           feeder' = [feeder EXCEPT ![t] = r]
    PROVE  /\ feeder' \in [Tenants -> Shares]
           /\ t \in Tenants => feeder'[t] = r
           /\ Leased /\ (t \in Tenants /\ r.lease = 0 => r.share = Contract) => Leased'
BY DEF Leased

LEMMA EntryIs ==
    ASSUME NEW a \in BOOLEAN, NEW s \in {Contract} \cup Levels, NEW e \in 0 .. LeaseS
    PROVE  [armed |-> a, share |-> s, lease |-> e] \in Shares
BY DEF Shares

LEMMA ReleasePosted ==
    ASSUME TypeOK, NEW t, PostRelease(t)
    PROVE  /\ feeder' \in [Tenants -> Shares]
           /\ Leased => Leased'
           /\ LossyPosts = FALSE /\ Leased /\ t \in Tenants => Off(t)'
<1>0. feeder \in [Tenants -> Shares]
  BY DEF TypeOK, Shares
<1> DEFINE S(got) == IF "ratios_release" \in got /\ feeder[t].lease > 0 THEN Contract ELSE feeder[t].share
           E(got) == IF "ratios_release" \in got THEN 0 ELSE feeder[t].lease
           A(got) == feeder[t].armed /\ "release" \notin got
<1>1. PICK got \in Delivered({"ratios_release", "release"}) :
         feeder' = [feeder EXCEPT ![t] = [armed |-> A(got), share |-> S(got), lease |-> E(got)]]
  BY DEF PostRelease
<1> DEFINE r == [armed |-> A(got), share |-> S(got), lease |-> E(got)]
<1>2. ASSUME t \in Tenants PROVE r \in Shares
  <2>1. feeder[t] \in Shares
    BY <1>0, <1>2
  <2>2. S(got) \in {Contract} \cup Levels /\ E(got) \in 0 .. LeaseS /\ A(got) \in BOOLEAN
    BY <2>1, TimeAssumption DEF Shares
  <2> QED BY <2>2, EntryIs
<1>3. LossyPosts = FALSE => "release" \in got /\ "ratios_release" \in got
  BY <1>1 DEF Delivered
<1>4. feeder' = [feeder EXCEPT ![t] = r]
  BY <1>1
<1>5. ASSUME LossyPosts = FALSE, Leased, t \in Tenants
      PROVE  ~r.armed /\ r.share = Contract
  <2>1. S(got) = Contract
    <3>1. feeder[t] \in Shares
      BY <1>0, <1>5
    <3>2. feeder[t].lease \in 0 .. LeaseS
      BY <3>1 DEF Shares
    <3> QED BY <3>2, <1>3, <1>5, TimeAssumption DEF Leased
  <2>2. ~A(got)
    BY <1>3, <1>5
  <2> QED BY <2>1, <2>2
<1>6. ASSUME Leased, t \in Tenants, r.lease = 0
      PROVE  r.share = Contract
  <2>1. feeder[t].lease \in 0 .. LeaseS
    BY <1>0, <1>6 DEF Shares
  <2>2. CASE "ratios_release" \in got
    BY <2>1, <2>2, <1>6, TimeAssumption DEF Leased
  <2>3. CASE "ratios_release" \notin got
    BY <2>3, <1>6 DEF Leased
  <2> QED BY <2>2, <2>3
<1> HIDE DEF r
<1> QED BY <1>0, <1>2, <1>4, <1>5, <1>6, Replaced DEF Off

LEMMA LevelPosted ==
    ASSUME TypeOK, NEW t, NEW l \in Levels, PostLevel(t, l)
    PROVE  /\ feeder' \in [Tenants -> Shares]
           /\ Leased => Leased'
<1>0. feeder \in [Tenants -> Shares]
  BY DEF TypeOK, Shares
<1> DEFINE S(got) == IF "ratios" \in got THEN l ELSE feeder[t].share
           E(got) == IF "ratios" \in got THEN LeaseS ELSE feeder[t].lease
           A(got) == feeder[t].armed \/ "arm" \in got
<1>1. PICK got \in Delivered({"arm", "ratios"}) :
         feeder' = [feeder EXCEPT ![t] = [armed |-> A(got), share |-> S(got), lease |-> E(got)]]
  BY DEF PostLevel
<1> DEFINE r == [armed |-> A(got), share |-> S(got), lease |-> E(got)]
<1>2. ASSUME t \in Tenants PROVE r \in Shares
  <2>1. feeder[t] \in Shares
    BY <1>0, <1>2
  <2>2. S(got) \in {Contract} \cup Levels /\ E(got) \in 0 .. LeaseS /\ A(got) \in BOOLEAN
    BY <2>1, TimeAssumption DEF Shares
  <2> QED BY <2>2, EntryIs
<1>3. feeder' = [feeder EXCEPT ![t] = r]
  BY <1>1
<1>4. ASSUME Leased, t \in Tenants, r.lease = 0
      PROVE  r.share = Contract
  BY <1>4, TimeAssumption DEF Leased
<1> HIDE DEF r
<1> QED BY <1>0, <1>2, <1>3, <1>4, Replaced

LEMMA Renewed ==
    ASSUME TypeOK, NEW t, Renew(t, level)
    PROVE  /\ feeder' \in [Tenants -> Shares]
           /\ Leased => Leased'
           /\ level = 0 => UNCHANGED feeder
<1>0. feeder \in [Tenants -> Shares] /\ level \in Levels
  BY DEF TypeOK, Shares
<1>1. CASE UNCHANGED feeder
  BY <1>0, <1>1 DEF Leased
<1>2. CASE level # 0 /\ feeder' = [feeder EXCEPT ![t] = [armed |-> feeder[t].armed, share |-> level, lease |-> LeaseS]]
  <2> DEFINE r == [armed |-> feeder[t].armed, share |-> level, lease |-> LeaseS]
  <2>1. feeder' = [feeder EXCEPT ![t] = r]
    BY <1>0, <1>2
  <2>2. ASSUME t \in Tenants PROVE r \in Shares /\ r.lease # 0
    <3>1. feeder[t].armed \in BOOLEAN
      BY <1>0, <2>2 DEF Shares
    <3> QED BY <1>0, <3>1, EntryIs, TimeAssumption
  <2> HIDE DEF r
  <2> QED BY <1>0, <1>2, <2>1, <2>2, Replaced
<1> QED BY <1>1, <1>2 DEF Renew

---------------------------------------------------------------------------
(* The first state *)

LEMMA AtFirst == Init => TypeOK /\ Dynamics /\ Leased /\ Resting
<1> SUFFICES ASSUME Init PROVE TypeOK /\ Dynamics /\ Leased /\ Resting
  OBVIOUS
<1>1. feeder \in [Tenants -> Shares] /\ Leased /\ Resting
  BY TimeAssumption DEF Init, FreshLoop, Shares, Resting, Leased
<1>2. TypeOK
  <2>1. level \in Levels /\ space \in Levels /\ dwell \in 0 .. ChangeCap /\ spaceAge \in 0 .. SpaceDwell
    BY CapIs, TimeAssumption, LadderAssumption DEF Init, FreshLoop, Levels
  <2>2. based \in BOOLEAN
    BY NamesAssumption DEF Init, FreshLoop
  <2> QED BY <1>1, <2>1, <2>2 DEF Init, FreshLoop, TypeOK, Shares
<1>3. Dynamics
  BY DEF Init, FreshLoop, Dynamics, Deadband, Stages, SpaceIsRaised
<1> QED BY <1>1, <1>2, <1>3

---------------------------------------------------------------------------
(* Types *)

LEMMA TypeByElapse ==
    ASSUME TypeOK, NEW d \in 1 .. MaxSleep, Elapse(d)
    PROVE  TypeOK'
<1>0. d \in Nat
  BY TimeAssumption
<1>1. feeder' \in [Tenants -> Shares]
  <2>1. ASSUME NEW t \in Tenants PROVE Expired(feeder[t], d) \in Shares
    <3>1. feeder[t] \in Shares
      BY DEF TypeOK, Shares
    <3>2. /\ feeder[t].armed \in BOOLEAN /\ feeder[t].share \in {Contract} \cup Levels
          /\ feeder[t].lease \in 0 .. LeaseS
          /\ feeder[t] = [armed |-> feeder[t].armed, share |-> feeder[t].share, lease |-> feeder[t].lease]
      BY <3>1 DEF Shares
    <3>3. CASE feeder[t].lease = 0
      BY <3>1, <3>3 DEF Expired
    <3>4. CASE feeder[t].lease # 0 /\ feeder[t].lease <= d
      <4>1. Expired(feeder[t], d) = [armed |-> feeder[t].armed, share |-> Contract, lease |-> 0]
        BY <3>2, <3>4 DEF Expired
      <4> QED BY <3>2, <4>1, EntryIs, TimeAssumption
    <3>5. CASE feeder[t].lease # 0 /\ ~(feeder[t].lease <= d)
      <4>1. Expired(feeder[t], d) =
               [armed |-> feeder[t].armed, share |-> feeder[t].share, lease |-> feeder[t].lease - d]
        BY <3>2, <3>5 DEF Expired
      <4>2. feeder[t].lease - d \in 0 .. LeaseS
        BY <3>2, <3>5, <1>0, TimeAssumption
      <4> QED BY <3>2, <4>1, <4>2, EntryIs
    <3> QED BY <3>3, <3>4, <3>5
  <2> QED BY <2>1 DEF Elapse
<1>2. dwell' \in 0 .. ChangeCap /\ spaceAge' \in 0 .. SpaceDwell
  BY <1>0, AgedIs, CapIs, TimeAssumption DEF Elapse, TypeOK
<1>3. /\ above' \in {Absent} \cup 0 .. PromoteAfter
      /\ below' \in {Absent} \cup 0 .. ReleaseHold
      /\ locked' \in {Absent} \cup 0 .. SymDecide
  BY <1>0, AgedIfSetIs, TimeAssumption DEF Elapse, TypeOK
<1> QED BY <1>1, <1>2, <1>3 DEF Elapse, TypeOK, Shares

LEMMA TypeByObserve ==
    ASSUME TypeOK, NEW o \in Observations, Observe(o)
    PROVE  TypeOK'
<1>1. feeder' \in [Tenants -> Shares]
  BY ReleasePosted DEF Observe, TypeOK, Shares
<1>2. o.tenant \in Tenants \cup {Nobody}
  BY DEF Observations
<1>3. lastAgg' \in Tenants \cup {Nobody} /\ level' \in Levels
  BY <1>2, LadderAssumption DEF Observe, TypeOK, Levels
<1>4. obs' \in Observations \cup {NoObs} /\ pc' \in {"asleep", "awake", "seen", "judged"}
  BY DEF Observe, TypeOK, EndRound
<1>5. /\ based' \in BOOLEAN /\ sym' \in {"undecided", "alike", "different"}
      /\ symTried' \in BOOLEAN /\ symPromoted' \in BOOLEAN /\ handedOff' \in BOOLEAN
      /\ moved' \in {"nothing", "TIGHTEN", "LOOSEN", "SAFE_FALLBACK", "SYM_TRY", "GEN_RESET"}
  BY NamesAssumption DEF Observe, TypeOK, ForgetGeneration
<1>6. /\ above' \in {Absent} \cup 0 .. PromoteAfter
      /\ below' \in {Absent} \cup 0 .. ReleaseHold
      /\ locked' \in {Absent} \cup 0 .. SymDecide
  BY DEF Observe, TypeOK, ForgetGeneration
<1>7. UNCHANGED <<alive, dwell, space, spaceAge>> /\ narrowing' \in {"none", "done", "missed"}
  BY DEF Observe, TypeOK
<1> QED BY <1>1, <1>3, <1>4, <1>5, <1>6, <1>7 DEF TypeOK, Shares

LEMMA AfterCalibration ==
    ASSUME NEW o \in Observations, o.victim
    PROVE  [o EXCEPT !.r = "low", !.better = FALSE] \in Observations
BY DEF Observations

LEMMA NarrowingType ==
    ASSUME TypeOK, Round
    PROVE  narrowing' \in {"none", "done", "missed"}
<1>0. narrowing \in {"none", "done", "missed"} /\ \A sent \in BOOLEAN : Narrowed(sent) \in {"done", "missed"}
  BY DEF TypeOK, Narrowed
<1>1. CASE Tighten \/ Hold
  BY <1>0, <1>1 DEF Tighten, Hold, SpaceRelease, mask
<1>2. CASE Bottom
  BY <1>0, <1>2 DEF Bottom
<1>3. CASE SafeFallback \/ Calibrate \/ SymTry \/ SymVerdict \/ Loosen
  BY <1>0, <1>3 DEF SafeFallback, Calibrate, SymTry, SymVerdict, Loosen, mask
<1>4. CASE AwaitDecision \/ Frozen
  BY <1>0, <1>4 DEF AwaitDecision, Frozen, loop
<1> QED BY <1>1, <1>2, <1>3, <1>4 DEF Round

LEMMA TypeByRound ==
    ASSUME TypeOK, Round
    PROVE  TypeOK'
<1> USE DEF mask
<1>0. /\ level \in Levels /\ SafeLevel \in Levels /\ SafeLevel # 0 /\ SafeLevel < MaxLevel
      /\ (level < MaxLevel => level + 1 \in Levels) /\ (level > 0 => level - 1 \in Levels)
      /\ 0 \in 0 .. ChangeCap /\ 0 \in 0 .. SpaceDwell /\ 0 \in 0 .. SymDecide /\ 0 \in Levels
      /\ 0 \in 0 .. PromoteAfter /\ 0 \in 0 .. ReleaseHold /\ Levels \subseteq Int /\ 0 \notin {Absent}
  BY LadderAssumption, CapIs, TimeAssumption, NamesAssumption DEF TypeOK, Levels
<1>f. feeder \in [Tenants -> Shares]
  BY DEF TypeOK, Shares
<1>o. EndRound => pc' \in {"asleep", "awake", "seen", "judged"} /\ obs' \in Observations \cup {NoObs}
  BY DEF EndRound
<1>s. SpaceRelease => space' \in Levels /\ spaceAge' \in 0 .. SpaceDwell
  BY <1>0 DEF SpaceRelease, TypeOK
<1>n. narrowing' \in {"none", "done", "missed"}
  BY NarrowingType
<1>a. AboveNow \in {Absent} \cup 0 .. PromoteAfter
  BY AboveNowIs
<1>1. CASE SafeFallback
  <2>1. feeder' \in [Tenants -> Shares]
    BY <1>0, <1>1, <1>f, LevelPosted DEF SafeFallback, Actuate
  <2>2. level' \in Levels /\ dwell' \in 0 .. ChangeCap
        /\ moved' \in {"nothing", "TIGHTEN", "LOOSEN", "SAFE_FALLBACK", "SYM_TRY", "GEN_RESET"}
    BY <1>0, <1>1 DEF SafeFallback, TypeOK
  <2> QED BY <1>1, <1>n, <1>o, <2>1, <2>2 DEF SafeFallback, TypeOK, Shares
<1>2. CASE Calibrate
  <2>1. obs' \in Observations \cup {NoObs} /\ pc' \in {"asleep", "awake", "seen", "judged"}
    <3>1. obs \in Observations
      BY <1>2 DEF Calibrate, TypeOK, NoObs
    <3> QED BY <1>2, <1>o, <3>1, AfterCalibration DEF Calibrate, TypeOK
  <2>2. based' \in BOOLEAN /\ sym' \in {"undecided", "alike", "different"}
    BY <1>2 DEF Calibrate, TypeOK
  <2>3. locked' \in {Absent} \cup 0 .. SymDecide
    BY <1>0, <1>2 DEF Calibrate, TypeOK
  <2> QED BY <1>2, <1>n, <2>1, <2>2, <2>3 DEF Calibrate, TypeOK
<1>3. CASE SymTry
  <2>1. feeder' \in [Tenants -> Shares]
    BY <1>0, <1>3, <1>f, LevelPosted DEF SymTry
  <2>2. level' \in Levels /\ dwell' \in 0 .. ChangeCap /\ symTried' \in BOOLEAN
        /\ moved' \in {"nothing", "TIGHTEN", "LOOSEN", "SAFE_FALLBACK", "SYM_TRY", "GEN_RESET"}
    BY <1>0, <1>3 DEF SymTry, TypeOK
  <2> QED BY <1>3, <1>n, <1>o, <2>1, <2>2 DEF SymTry, TypeOK, Shares
<1>4. CASE SymVerdict
  <2>1. symTried' \in BOOLEAN /\ symPromoted' \in BOOLEAN /\ handedOff' \in BOOLEAN
    BY <1>4 DEF SymVerdict, TypeOK
  <2> QED BY <1>4, <1>n, <1>o, <2>1 DEF SymVerdict, TypeOK
<1>5. CASE AwaitDecision
  BY <1>5, <1>n, <1>o DEF AwaitDecision, TypeOK, loop
<1>6. CASE Frozen
  <2>1. feeder' \in [Tenants -> Shares]
    BY <1>6, Renewed DEF Frozen
  <2> QED BY <1>6, <1>n, <1>o, <2>1 DEF Frozen, TypeOK, loop, Shares
<1>7. CASE Tighten
  <2>1. level + 1 \in Levels
    BY <1>0, <1>7 DEF Tighten
  <2>2. feeder' \in [Tenants -> Shares]
    BY <1>7, <2>1, LevelPosted DEF Tighten
  <2>3. dwell' \in 0 .. ChangeCap /\ level' \in Levels /\ above' \in {Absent} \cup 0 .. PromoteAfter
        /\ below' \in {Absent} \cup 0 .. ReleaseHold
    BY <1>0, <1>7, <2>1 DEF Tighten
  <2> QED BY <1>7, <1>n, <1>o, <1>s, <2>2, <2>3 DEF Tighten, TypeOK, Shares
<1>8. CASE Bottom
  <2>1. feeder' \in [Tenants -> Shares]
    BY <1>8, Renewed DEF Bottom
  <2>2. space' \in Levels /\ spaceAge' \in 0 .. SpaceDwell
    BY <1>0, <1>8, LadderAssumption DEF Bottom, TypeOK, Levels
  <2>3. above' \in {Absent} \cup 0 .. PromoteAfter /\ below' \in {Absent} \cup 0 .. ReleaseHold
        /\ handedOff' \in BOOLEAN
    BY <1>8, <1>a DEF Bottom
  <2> QED BY <1>8, <1>n, <1>o, <2>1, <2>2, <2>3 DEF Bottom, TypeOK, Shares
<1>9. CASE Loosen
  <2>1. level - 1 \in Levels
    BY <1>0, <1>9 DEF Loosen, MayLoosen
  <2>2. feeder' \in [Tenants -> Shares]
    BY <1>9, <2>1, LevelPosted, ReleasePosted DEF Loosen, Actuate
  <2>3. dwell' \in 0 .. ChangeCap /\ level' \in Levels /\ above' \in {Absent} \cup 0 .. PromoteAfter
        /\ below' \in {Absent} \cup 0 .. ReleaseHold
    BY <1>0, <1>9, <2>1 DEF Loosen
  <2> QED BY <1>9, <1>n, <1>o, <2>2, <2>3 DEF Loosen, TypeOK, Shares
<1>10. CASE Hold
  <2>1. feeder' \in [Tenants -> Shares]
    BY <1>10, Renewed DEF Hold
  <2>2. above' \in {Absent} \cup 0 .. PromoteAfter
    BY <1>10, <1>a DEF Hold
  <2>3. below' \in {Absent} \cup 0 .. ReleaseHold
    BY <1>0, <1>10 DEF Hold, TypeOK
  <2> QED BY <1>10, <1>n, <1>o, <1>s, <2>1, <2>2, <2>3 DEF Hold, TypeOK, Shares
<1> QED BY <1>1, <1>2, <1>3, <1>4, <1>5, <1>6, <1>7, <1>8, <1>9, <1>10 DEF Round

LEMMA TypeByProcess ==
    ASSUME TypeOK, Crash \/ Stop \/ Restart
    PROVE  TypeOK'
<1>o. EndRound => pc' \in {"asleep", "awake", "seen", "judged"} /\ obs' \in Observations \cup {NoObs}
  BY DEF EndRound
<1>1. CASE Crash
  <2>1. alive' \in BOOLEAN /\ UNCHANGED <<loop, feeder>>
    BY <1>1 DEF Crash
  <2> QED BY <1>1, <1>o, <2>1 DEF Crash, TypeOK, loop
<1>2. CASE Stop
  <2>1. feeder' \in [Tenants -> Shares]
    BY <1>2, ReleasePosted DEF Stop, TypeOK, Shares
  <2>2. alive' \in BOOLEAN /\ UNCHANGED loop /\ EndRound
    BY <1>2 DEF Stop
  <2> QED BY <1>o, <2>1, <2>2 DEF TypeOK, loop, Shares
<1>3. CASE Restart
  <2>1. 0 \in Levels /\ ChangeCap \in 0 .. ChangeCap /\ SpaceDwell \in 0 .. SpaceDwell /\ ExternalBase \in BOOLEAN
    BY CapIs, TimeAssumption, LadderAssumption, NamesAssumption DEF Levels
  <2> QED BY <1>3, <2>1 DEF Restart, TypeOK
<1> QED BY <1>1, <1>2, <1>3

---------------------------------------------------------------------------
(* The deadband and the stages *)

LEMMA DynamicsByElapse ==
    ASSUME TypeOK, Dynamics, NEW d \in 1 .. MaxSleep, Elapse(d)
    PROVE  Dynamics'
<1>0. d \in Nat /\ d > 0
  BY TimeAssumption
<1>1. UNCHANGED <<level, sym, symPromoted, handedOff, space, moved>>
  BY DEF Elapse
<1>2. /\ dwell \in 0 .. ChangeCap /\ dwell' = Aged(dwell, d, ChangeCap)
      /\ spaceAge \in 0 .. SpaceDwell /\ spaceAge' = Aged(spaceAge, d, SpaceDwell)
      /\ above \in {Absent} \cup 0 .. PromoteAfter /\ above' = AgedIfSet(above, d, PromoteAfter)
      /\ below \in {Absent} \cup 0 .. ReleaseHold /\ below' = AgedIfSet(below, d, ReleaseHold)
  BY DEF Elapse, TypeOK
<1>3. /\ dwell' = dwell + d \/ (dwell' = ChangeCap /\ dwell + d > ChangeCap)
      /\ spaceAge' = spaceAge + d \/ (spaceAge' = SpaceDwell /\ spaceAge + d > SpaceDwell)
  BY <1>0, <1>2, AgedIs, CapIs, TimeAssumption
<1>4. below' # Absent => /\ below # Absent /\ below \in 0 .. ReleaseHold
                         /\ below' = Aged(below, d, ReleaseHold)
  BY <1>0, <1>2, AgedIfSetIs, TimeAssumption
<1>5. above' # Absent => /\ above # Absent /\ above \in 0 .. PromoteAfter
                         /\ above' = Aged(above, d, PromoteAfter)
  BY <1>0, <1>2, AgedIfSetIs, TimeAssumption
<1>6. Deadband'
  <2>1. ASSUME moved' = "TIGHTEN", below' # Absent PROVE dwell' >= below'
    <3>1. dwell >= below
      BY <1>1, <1>4, <2>1 DEF Dynamics, Deadband
    <3>2. below' \in Nat /\ below' <= below + d /\ below' <= ReleaseHold
      BY <1>0, <1>4, <2>1, AgedIs, TimeAssumption DEF Aged
    <3> QED BY <1>0, <1>2, <1>3, <1>4, <2>1, <3>1, <3>2, CapIs, TimeAssumption
  <2>2. ASSUME moved' = "LOOSEN", above' # Absent PROVE dwell' >= above' \/ dwell' >= InterveneHold
    <3>1. dwell >= above \/ dwell >= InterveneHold
      BY <1>1, <1>5, <2>2 DEF Dynamics, Deadband
    <3>2. above' \in Nat /\ above' <= above + d
      BY <1>0, <1>5, <2>2, AgedIs, TimeAssumption DEF Aged
    <3> QED BY <1>0, <1>2, <1>3, <1>5, <2>2, <3>1, <3>2, CapIs, TimeAssumption
  <2> QED BY <2>1, <2>2 DEF Deadband
<1>7. Stages'
  <2>1. ASSUME sym' = "different", level' = MaxLevel, space' = 0, above' # Absent
        PROVE  spaceAge' >= above' \/ spaceAge' >= SpaceDwell
    <3>1. spaceAge >= above \/ spaceAge >= SpaceDwell
      BY <1>1, <1>5, <2>1 DEF Dynamics, Stages
    <3>2. above' \in Nat /\ above' <= above + d
      BY <1>0, <1>5, <2>1, AgedIs, TimeAssumption DEF Aged
    <3> QED BY <1>0, <1>2, <1>3, <1>5, <2>1, <3>1, <3>2, TimeAssumption
  <2> QED BY <1>1, <2>1 DEF Dynamics, Stages, SpaceIsRaised
<1> QED BY <1>6, <1>7 DEF Dynamics

LEMMA DynamicsByObserve ==
    ASSUME TypeOK, Dynamics, NEW o \in Observations, Observe(o)
    PROVE  Dynamics'
<1>1. UNCHANGED <<dwell, space, spaceAge>>
  BY DEF Observe
<1>2. CASE o.newGen
  BY <1>1, <1>2 DEF Observe, ForgetGeneration, Dynamics, Deadband, Stages, SpaceIsRaised
<1>3. CASE ~o.newGen
  <2>1. UNCHANGED <<level, sym, symPromoted, handedOff, above, below, moved>>
    BY <1>3 DEF Observe
  <2> QED BY <1>1, <2>1 DEF Dynamics, Deadband, Stages, SpaceIsRaised
<1> QED BY <1>2, <1>3

\* The mask is released only at rest, above the last rung.
LEMMA SpaceKept ==
    ASSUME TypeOK, SpaceRelease, level # 0
    PROVE  UNCHANGED <<space, spaceAge>>
BY DEF SpaceRelease, mask

LEMMA DynamicsByRound ==
    ASSUME TypeOK, Dynamics, Round
    PROVE  Dynamics'
<1> USE DEF mask
<1>0. /\ SafeLevel # MaxLevel /\ MaxLevel # 0 /\ MaxLevel # 1 /\ MaxLevel \in Nat /\ level \in Levels
      /\ dwell \in Nat /\ spaceAge \in Nat /\ 0 # Absent
      /\ below # Absent => below \in Nat
  BY LadderAssumption, CapIs, TimeAssumption, NamesAssumption DEF TypeOK, Levels
<1>a. above # Absent => above \in Nat
  BY TimeAssumption DEF TypeOK
<1>b. AboveNow # Absent => AboveNow \in Nat /\ (AboveNow = 0 \/ (AboveNow = above /\ above # Absent))
  BY <1>0, <1>a DEF AboveNow
<1>1. CASE SafeFallback
  BY <1>0, <1>1 DEF SafeFallback, Dynamics, Deadband, Stages, SpaceIsRaised
<1>2. CASE Calibrate
  BY <1>0, <1>2 DEF Calibrate, Dynamics, Deadband, Stages, SpaceIsRaised
<1>3. CASE SymTry
  BY <1>0, <1>3 DEF SymTry, SymmetricPain, Dynamics, Deadband, Stages, SpaceIsRaised
<1>4. CASE SymVerdict
  BY <1>4 DEF SymVerdict, Dynamics, Deadband, Stages, SpaceIsRaised
<1>5. CASE AwaitDecision \/ Frozen
  BY <1>5 DEF AwaitDecision, Frozen, loop, Dynamics, Deadband, Stages, SpaceIsRaised
<1>7. CASE Tighten
  <2>1. level' = level + 1 /\ moved' = "TIGHTEN" /\ above' = 0 /\ below' = Absent
        /\ UNCHANGED <<sym, symPromoted, handedOff>> /\ ~handedOff
    BY <1>7 DEF Tighten, OnLadder
  <2>2. spaceAge' \in Nat
    BY <1>0, <1>7 DEF Tighten, SpaceRelease
  <2> QED BY <2>1, <2>2 DEF Dynamics, Deadband, Stages, SpaceIsRaised
<1>8. CASE Bottom
  <2>1. /\ sym = "different" /\ ~handedOff /\ ~symPromoted
        /\ level = MaxLevel /\ UNCHANGED <<level, dwell, sym, symPromoted, moved>>
        /\ above' = AboveNow /\ below' = Absent
        /\ handedOff' = (AboveNow >= PromoteAfter)
    BY <1>8, AboveNowIs DEF Bottom, OnLadder, SymmetricPain, TypeOK, Dynamics, Stages
  <2>2. Deadband'
    BY <1>0, <1>b, <2>1 DEF Dynamics, Deadband
  <2>3. CASE AboveNow >= SpaceAfter /\ space < MaxLevel /\ spaceAge >= SpaceDwell
    <3>1. space' = space + 1 /\ space \in Nat
      BY <1>8, <2>3, LadderAssumption DEF Bottom, TypeOK, Levels
    <3> QED BY <2>1, <2>2, <3>1 DEF Dynamics, Stages, SpaceIsRaised
  <2>4. CASE ~(AboveNow >= SpaceAfter /\ space < MaxLevel /\ spaceAge >= SpaceDwell)
    <3>1. UNCHANGED <<space, spaceAge>>
      BY <1>8, <2>4 DEF Bottom
    <3>2. AboveNow # Absent => AboveNow = 0 \/ space # 0 \/ spaceAge >= AboveNow \/ spaceAge >= SpaceDwell
      BY <1>b, <2>1 DEF Dynamics, Stages
    <3>3. AboveNow \in Nat
      BY <1>8, AboveNowIs, TimeAssumption DEF Bottom
    <3>4. AboveNow >= PromoteAfter => space # 0
      BY <1>0, <2>4, <3>2, <3>3, TimeAssumption, NamesAssumption
    <3>5. space' # 0 => space' > 0
      BY <3>1, LadderAssumption DEF TypeOK, Levels
    <3>6. space' = 0 => spaceAge' >= above' \/ spaceAge' >= SpaceDwell
      BY <1>0, <2>1, <3>1, <3>2, <3>3, NamesAssumption
    <3> QED BY <2>1, <2>2, <3>1, <3>4, <3>5, <3>6 DEF Dynamics, Stages, SpaceIsRaised
  <2> QED BY <2>3, <2>4
<1>9. CASE Loosen
  <2>1. level' = level - 1 /\ moved' = "LOOSEN" /\ above' = Absent
        /\ UNCHANGED <<sym, symPromoted, handedOff, space, spaceAge>> /\ ~handedOff
    BY <1>9 DEF Loosen, OnLadder
  <2> QED BY <2>1 DEF Dynamics, Deadband, Stages, SpaceIsRaised
<1>10. CASE Hold
  <2>1. /\ UNCHANGED <<level, dwell, sym, symPromoted, handedOff, moved>> /\ ~handedOff
        /\ above' = AboveNow
        /\ below' = IF obs.r # "low" THEN Absent ELSE IF below = Absent THEN 0 ELSE below
        /\ SpaceRelease
    BY <1>10 DEF Hold, OnLadder
  <2>2. Deadband'
    BY <1>0, <1>a, <1>b, <2>1 DEF Dynamics, Deadband
  <2>3. ASSUME sym' = "different", level' = MaxLevel, space' = 0, above' # Absent
        PROVE  spaceAge' >= above' \/ spaceAge' >= SpaceDwell
    <3>1. UNCHANGED <<space, spaceAge>>
      BY <1>0, <2>1, <2>3, SpaceKept
    <3> QED BY <1>0, <1>b, <2>1, <2>3, <3>1 DEF Dynamics, Stages
  <2> QED BY <2>1, <2>2, <2>3 DEF Dynamics, Stages, SpaceIsRaised
<1> QED BY <1>1, <1>2, <1>3, <1>4, <1>5, <1>7, <1>8, <1>9, <1>10 DEF Round

LEMMA DynamicsByProcess ==
    ASSUME Dynamics, Crash \/ Stop \/ Restart
    PROVE  Dynamics'
<1>1. CASE Crash \/ Stop
  BY <1>1 DEF Crash, Stop, loop, Dynamics, Deadband, Stages, SpaceIsRaised
<1>2. CASE Restart
  BY <1>2 DEF Restart, Dynamics, Deadband, Stages, SpaceIsRaised
<1> QED BY <1>1, <1>2

\* What the loop knows of the mask follows the level of it.
LEMMA TriedByNext ==
    ASSUME TypeOK, SpaceIsTried, [Next]_vars
    PROVE  SpaceIsTried'
<1> USE DEF SpaceIsTried
<1>0. \A sent : Narrowed(sent) # "none"
  BY DEF Narrowed
<1>1. CASE (\E d \in 1 .. MaxSleep : Elapse(d)) \/ Crash \/ Stop \/ UNCHANGED vars
  BY <1>1 DEF Elapse, Crash, Stop, vars, loop
<1>2. ASSUME NEW o \in Observations, Observe(o) PROVE SpaceIsTried'
  BY <1>2 DEF Observe
<1>3. CASE Restart
  BY <1>3 DEF Restart
<1>4. CASE SafeFallback \/ Calibrate \/ SymTry \/ SymVerdict \/ Loosen
  BY <1>4 DEF SafeFallback, Calibrate, SymTry, SymVerdict, Loosen, mask
<1>5. CASE AwaitDecision \/ Frozen
  BY <1>5 DEF AwaitDecision, Frozen, loop
<1>6. CASE Tighten \/ Hold
  BY <1>6 DEF Tighten, Hold, SpaceRelease, mask
<1>7. CASE Bottom
  BY <1>0, <1>7 DEF Bottom
<1> QED BY <1>1, <1>2, <1>3, <1>4, <1>5, <1>6, <1>7 DEF Next, Proceed, Round

---------------------------------------------------------------------------
(* Shares are on lease *)

\* The table changes by a POST about one tenant, or not at all.
Posts ==
    \/ UNCHANGED feeder
    \/ \E t : PostRelease(t) \/ Renew(t, level)
    \/ \E t : \E l \in Levels : PostLevel(t, l)

LEMMA PostsByObserve ==
    ASSUME NEW o \in Observations, Observe(o)
    PROVE  Posts
BY DEF Observe, Posts

LEMMA PostsByRound ==
    ASSUME TypeOK, Round
    PROVE  Posts
<1>0. /\ SafeLevel \in Levels /\ SafeLevel # 0
      /\ (level < MaxLevel => level + 1 \in Levels) /\ (level > 0 => level - 1 \in Levels)
  BY LadderAssumption DEF TypeOK, Levels
<1>1. CASE SafeFallback \/ SymTry \/ Tighten
  BY <1>0, <1>1 DEF SafeFallback, SymTry, Tighten, Actuate, Posts
<1>2. CASE Calibrate \/ SymVerdict \/ AwaitDecision
  BY <1>2 DEF Calibrate, SymVerdict, AwaitDecision, Posts
<1>3. CASE Frozen \/ Bottom \/ Hold
  BY <1>3 DEF Frozen, Bottom, Hold, Posts
<1>4. CASE Loosen
  BY <1>0, <1>4 DEF Loosen, MayLoosen, Actuate, Posts
<1> QED BY <1>1, <1>2, <1>3, <1>4 DEF Round

LEMMA PostsByProcess ==
    ASSUME Crash \/ Stop \/ Restart
    PROVE  Posts
BY DEF Crash, Stop, Restart, Posts

LEMMA LeasedByPosts ==
    ASSUME TypeOK, Leased, Posts
    PROVE  Leased'
<1>1. CASE UNCHANGED feeder
  BY <1>1 DEF Leased
<1>2. ASSUME NEW t, PostRelease(t) \/ Renew(t, level)
      PROVE  Leased'
  BY <1>2, ReleasePosted, Renewed
<1>3. ASSUME NEW t, NEW l \in Levels, PostLevel(t, l)
      PROVE  Leased'
  BY <1>3, LevelPosted
<1> QED BY <1>1, <1>2, <1>3 DEF Posts

\* What time does to an entry: a lease gets shorter or ends, and with it the share.
LEMMA EntryByElapse ==
    ASSUME TypeOK, Leased, NEW d \in 1 .. MaxSleep, Elapse(d), NEW t \in Tenants
    PROVE  /\ feeder[t].lease \in Nat /\ feeder'[t].lease \in Nat
           /\ feeder'[t].lease = 0 => feeder'[t].share = Contract
           /\ feeder'[t].lease = 0 \/ feeder'[t].lease = feeder[t].lease - d
           /\ Off(t) => Off(t)'
<1>0. d \in Nat /\ feeder \in [Tenants -> Shares]
  BY TimeAssumption DEF TypeOK, Shares
<1>1. feeder'[t] = Expired(feeder[t], d)
  BY DEF Elapse
<1>2. PICK a \in BOOLEAN, x \in {Contract} \cup Levels, e \in 0 .. LeaseS :
         feeder[t] = [armed |-> a, share |-> x, lease |-> e]
  BY <1>0 DEF Shares
<1>3. e \in Nat /\ (e = 0 => x = Contract)
  BY <1>2, TimeAssumption DEF Leased
<1>4. CASE e = 0
  BY <1>1, <1>2, <1>3, <1>4 DEF Expired, Off
<1>5. CASE e # 0 /\ e <= d
  <2>1. feeder'[t] = [armed |-> a, share |-> Contract, lease |-> 0]
    BY <1>1, <1>2, <1>5 DEF Expired
  <2> QED BY <1>2, <1>3, <2>1 DEF Off
<1>6. CASE e # 0 /\ ~(e <= d)
  <2>1. feeder'[t] = [armed |-> a, share |-> x, lease |-> e - d]
    BY <1>1, <1>2, <1>6 DEF Expired
  <2>2. e - d \in Nat /\ e - d # 0
    BY <1>0, <1>3, <1>6
  <2> QED BY <1>2, <1>3, <2>1, <2>2 DEF Off
<1> QED BY <1>4, <1>5, <1>6

LEMMA LeasedByElapse ==
    ASSUME TypeOK, Leased, NEW d \in 1 .. MaxSleep, Elapse(d)
    PROVE  Leased'
BY EntryByElapse DEF Leased

---------------------------------------------------------------------------
(* Rest is off, if no POST is lost *)

LEMMA RestingByElapse ==
    ASSUME TypeOK, Leased, Resting, NEW d \in 1 .. MaxSleep, Elapse(d)
    PROVE  Resting'
<1>1. UNCHANGED <<alive, lastAgg, level>> /\ lastAgg \in Tenants \cup {Nobody}
  BY DEF Elapse, TypeOK
<1>2. \A t \in Tenants : Off(t) => Off(t)'
  BY EntryByElapse
<1> QED BY <1>1, <1>2 DEF Resting, Off

LEMMA RestingByObserve ==
    ASSUME LossyPosts = FALSE, TypeOK, Leased, Resting, NEW o \in Observations, Observe(o)
    PROVE  Resting'
<1> DEFINE known == IF o.newGen THEN Nobody ELSE lastAgg
           rung == IF o.newGen THEN 0 ELSE level
<1>1. /\ lastAgg' \in Tenants \cup {Nobody}
      /\ level' = rung /\ UNCHANGED alive
      /\ (IF lastAgg' # known /\ rung = 0 THEN PostRelease(lastAgg') ELSE UNCHANGED feeder)
  BY DEF Observe, Observations, TypeOK
<1>2. CASE lastAgg' # known /\ rung = 0
  <2>1. PostRelease(lastAgg')
    BY <1>1, <1>2
  <2>2. lastAgg' \in Tenants => Off(lastAgg)'
    BY <2>1, ReleasePosted DEF Off
  <2> QED BY <1>1, <2>2 DEF Resting
<1>3. CASE ~(lastAgg' # known /\ rung = 0)
  <2>1. UNCHANGED feeder
    BY <1>1, <1>3
  <2> QED BY <1>1, <1>3, <2>1 DEF Resting, Off
<1> QED BY <1>2, <1>3

LEMMA RestingByRound ==
    ASSUME LossyPosts = FALSE, TypeOK, Leased, Resting, Round
    PROVE  Resting'
<1>0. /\ level \in Levels /\ SafeLevel # 0 /\ level + 1 # 0
      /\ lastAgg \in Tenants \cup {Nobody}
  BY LadderAssumption DEF TypeOK, Levels
<1>1. alive /\ UNCHANGED <<alive, lastAgg>>
  <2>1. CASE Calibrate
    BY <2>1 DEF Calibrate
  <2>2. CASE SafeFallback \/ SymTry \/ SymVerdict \/ Tighten \/ Bottom \/ Loosen \/ Hold
    BY <2>2 DEF SafeFallback, SymTry, SymVerdict, OnLadder, Tighten, Bottom, Loosen, Hold
  <2>3. CASE AwaitDecision \/ Frozen
    BY <2>3 DEF AwaitDecision, Frozen, loop
  <2> QED BY <2>1, <2>2, <2>3 DEF Round
<1>2. CASE UNCHANGED <<level, feeder>>
  BY <1>1, <1>2 DEF Resting, Off
<1>3. CASE level' # 0
  BY <1>3 DEF Resting
<1>4. CASE UNCHANGED level /\ Renew(lastAgg, level)
  <2>1. level = 0 => UNCHANGED feeder
    BY <1>4, Renewed
  <2> QED BY <1>1, <1>4, <2>1 DEF Resting, Off
<1>5. CASE level' = 0 /\ PostRelease(lastAgg)
  <2>1. lastAgg \in Tenants => Off(lastAgg)'
    BY <1>1, <1>5, ReleasePosted DEF Off
  <2> QED BY <1>0, <1>1, <2>1 DEF Resting
<1>a. CASE SafeFallback \/ SymTry \/ Tighten
  BY <1>0, <1>2, <1>3, <1>a DEF SafeFallback, SymTry, Tighten
<1>b. CASE Calibrate \/ SymVerdict \/ AwaitDecision
  BY <1>2, <1>b DEF Calibrate, SymVerdict, AwaitDecision, loop
<1>c. CASE Frozen \/ Bottom \/ Hold
  BY <1>4, <1>c DEF Frozen, Bottom, Hold, loop
<1>d. CASE Loosen
  <2>1. level' = level - 1 /\ Actuate(lastAgg, level - 1)
    BY <1>d DEF Loosen
  <2> QED BY <1>0, <1>3, <1>5, <2>1 DEF Actuate
<1> QED BY <1>a, <1>b, <1>c, <1>d DEF Round

LEMMA RestingByProcess ==
    ASSUME TypeOK, Resting, Crash \/ Stop \/ Restart
    PROVE  Resting'
BY DEF Crash, Stop, Restart, TypeOK, Resting

---------------------------------------------------------------------------
(* The theorems *)

IInv == TypeOK /\ Dynamics /\ SpaceIsTried /\ Leased /\ (LossyPosts = FALSE => Resting)

LEMMA IInvKept ==
    ASSUME IInv, [Next]_vars
    PROVE  IInv'
<1>0. SpaceIsTried'
  BY TriedByNext DEF IInv
<1>1. ASSUME NEW d \in 1 .. MaxSleep, Elapse(d) PROVE IInv'
  BY <1>0, <1>1, TypeByElapse, DynamicsByElapse, LeasedByElapse, RestingByElapse DEF IInv
<1>2. ASSUME NEW o \in Observations, Observe(o) PROVE IInv'
  BY <1>0, <1>2, TypeByObserve, DynamicsByObserve, PostsByObserve, LeasedByPosts, RestingByObserve DEF IInv
<1>3. CASE Round
  BY <1>0, <1>3, TypeByRound, DynamicsByRound, PostsByRound, LeasedByPosts, RestingByRound DEF IInv
<1>4. CASE Crash \/ Stop \/ Restart
  BY <1>0, <1>4, TypeByProcess, DynamicsByProcess, PostsByProcess, LeasedByPosts, RestingByProcess DEF IInv
<1>5. CASE UNCHANGED vars
  BY <1>0, <1>5 DEF vars, loop, IInv, TypeOK, Dynamics, Deadband, Stages, SpaceIsRaised,
     Resting, Leased, Off
<1> QED BY <1>1, <1>2, <1>3, <1>4, <1>5 DEF Next, Proceed

\* The inductive invariant holds in every reachable state.
THEOREM LoopInvariant == Spec => []IInv
<1>1. Init => IInv
  BY AtFirst DEF IInv, SpaceIsTried, Init, FreshLoop
<1>2. IInv /\ [Next]_vars => IInv'
  BY IInvKept
<1> QED BY <1>1, <1>2, PTL DEF Spec

\* main() keeps its locals, and the feeder's tables, within their types: the rung in
\* the ladder, the ages under their caps.
THEOREM LoopTypeCorrect == Spec => []TypeOK
<1>1. IInv => TypeOK
  BY DEF IInv
<1> QED BY <1>1, LoopInvariant, PTL

\* The pair is handed over for relocation because the last rung does not help only after
\* the aggressor was told a narrower mask, or a message that should have told it was
\* given up, or the mask was narrowed for another aggressor than the present one.
THEOREM SpaceComesFirst == Spec => []SpaceBeforeRelocation
<1>1. IInv => SpaceBeforeRelocation
  BY DEF IInv, Dynamics, Stages, SpaceIsRaised, SpaceIsTried, SpaceBeforeRelocation, TypeOK
<1> QED BY <1>1, LoopInvariant, PTL

\* While every POST arrives, a loop at rest has let its aggressor go.
THEOREM RestLetsGo == (LossyPosts = FALSE /\ Spec) => []RestIsOff
<1>1. LossyPosts = FALSE /\ IInv => RestIsOff
  BY DEF IInv, Resting, Off, RestIsOff
<1>2. CASE LossyPosts = FALSE
  <2>1. IInv => RestIsOff
    BY <1>1, <1>2
  <2> QED BY <2>1, LoopInvariant, PTL
<1>3. CASE LossyPosts # FALSE
  BY <1>3
<1> QED BY <1>2, <1>3

\* Whatever is lost: a share other than the contract has a lease running, so no tenant
\* is held down by a loop that has forgotten it (the lease_s of every set_ratio).
THEOREM SharesAreLent == Spec => []Leased
<1>1. IInv => Leased
  BY DEF IInv
<1> QED BY <1>1, LoopInvariant, PTL

\* While the loop is dead every step that is not its restart brings each lease nearer
\* to its end, and a lease that has ended has given the contract back.
RunOut ==
    ~alive /\ ~alive' =>
        \A t \in Tenants : \/ feeder'[t].lease < feeder[t].lease
                           \/ feeder'[t].lease = 0 /\ feeder'[t].share = Contract
RunsOut == [][RunOut]_vars

\* A killed loop lets go within LeaseS steps of time: no lease outlives it by more than
\* its length (what DeadLoopLetsGo adds is that time goes on).
THEOREM DeadLoopRunsOut == Spec => RunsOut
<1>1. ASSUME IInv, [Next]_vars PROVE [RunOut]_vars
  <2> SUFFICES ASSUME Next, ~alive, ~alive', NEW t \in Tenants
               PROVE  \/ feeder'[t].lease < feeder[t].lease
                      \/ feeder'[t].lease = 0 /\ feeder'[t].share = Contract
    BY <1>1 DEF RunOut
  <2>1. ~Round /\ ~Crash /\ ~Stop /\ ~Restart /\ \A o : ~Observe(o)
    BY DEF Round, SafeFallback, Calibrate, SymTry, SymVerdict, AwaitDecision, Frozen, OnLadder, Tighten,
       Bottom, Loosen, Hold, Crash, Stop, Restart, Observe
  <2>2. PICK d \in 1 .. MaxSleep : Elapse(d)
    BY <2>1 DEF Next, Proceed
  <2>3. d \in Nat /\ d > 0
    BY TimeAssumption
  <2> QED BY <1>1, <2>2, <2>3, EntryByElapse DEF IInv
<1>2. IInv /\ [Next]_vars => [RunOut]_vars
  BY <1>1
<1> QED BY <1>2, LoopInvariant, PTL DEF Spec, RunsOut

\* Two moves of the ladder in opposite directions are the hold time of the second
\* apart.
THEOREM LadderIsSteady == Spec => NoSwing
<1> DEFINE Steady ==
       /\ moved = "TIGHTEN" /\ level' = level - 1 /\ moved' = "LOOSEN" => dwell >= ReleaseHold
       /\ moved = "LOOSEN" /\ level' = level + 1 /\ moved' = "TIGHTEN" => dwell >= InterveneHold
<1>1. ASSUME IInv, [Next]_vars PROVE [Steady]_vars
  <2>1. ASSUME moved = "TIGHTEN", moved' = "LOOSEN" PROVE dwell >= ReleaseHold
    <3>1. Loosen
      BY <1>1, <2>1 DEF Next, Proceed, Round, vars, Elapse, Observe, ForgetGeneration, SafeFallback,
         Calibrate, SymTry, SymVerdict, AwaitDecision, Frozen, Tighten, Bottom, Hold, Crash, Stop,
         Restart, loop
    <3>2. below # Absent /\ below >= ReleaseHold /\ dwell >= below
      BY <1>1, <2>1, <3>1 DEF Loosen, MayLoosen, IInv, Dynamics, Deadband
    <3>3. below \in Nat /\ dwell \in Nat
      BY <1>1, <3>2, CapIs, TimeAssumption DEF IInv, TypeOK
    <3> QED BY <3>2, <3>3, TimeAssumption
  <2>2. ASSUME moved = "LOOSEN", moved' = "TIGHTEN" PROVE dwell >= InterveneHold
    <3>1. Tighten
      BY <1>1, <2>2 DEF Next, Proceed, Round, vars, Elapse, Observe, ForgetGeneration, SafeFallback,
         Calibrate, SymTry, SymVerdict, AwaitDecision, Frozen, Loosen, Bottom, Hold, Crash, Stop,
         Restart, loop
    <3>2. AboveNow >= InterveneHold /\ AboveNow # Absent
      BY <3>1 DEF Tighten, Sustained
    <3>3. AboveNow \in Nat /\ dwell \in Nat
      BY <1>1, <3>2, AboveNowIs, CapIs, TimeAssumption DEF IInv, TypeOK
    <3>4. AboveNow = above /\ above # Absent
      BY <3>2, <3>3, TimeAssumption DEF AboveNow
    <3> QED BY <1>1, <2>2, <3>2, <3>3, <3>4, TimeAssumption DEF IInv, Dynamics, Deadband
  <2> QED BY <2>1, <2>2
<1>2. IInv /\ [Next]_vars => [Steady]_vars
  BY <1>1
<1> QED BY <1>2, LoopInvariant, PTL DEF Spec, NoSwing

=============================================================================
