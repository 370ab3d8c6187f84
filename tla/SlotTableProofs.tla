-------------------------- MODULE SlotTableProofs --------------------------
(***************************************************************************)
(* Safety of the slot table for any names, any number of slots and shares  *)
(* of any size (the total wraps around in its word): types, one slot per   *)
(* tenant, tenant_count, and that a slot changes hands only by being freed.*)
(* The strengthening says what a thread in the middle of an operation has  *)
(* done to the table and has not yet counted.                              *)
(***************************************************************************)
EXTENDS SlotTable, FiniteSetTheorems, TLAPS

\* The registry's operations are the HTTP thread's; the idle thread adds and
\* subtracts what it moves.
WhoAdds ==
    /\ work["idle"].at = "add" => work["idle"].next = "mode"
    /\ work["http"].at = "add" => work["http"].next \in {"register", "deregister"}

Covered(n) == \A i \in Slots : id[i] # NoId => i <= n
Held(i) == id[i] # NoId \/ vsm[i] # 0
InUse(n) == n # 0 => Held(n)

\* tenant_count lags behind only in the middle of a registration, and only by the
\* slot that is being registered.
CountInv ==
    /\ InUse(count)
    /\ IF work["http"].at = "add" /\ work["http"].next = "register"
       THEN LET s == work["http"].slot
            IN Held(s) /\ \A i \in Slots \ {s} : id[i] # NoId => i <= count
       ELSE Covered(count)

TableInv == TypeOK /\ WhoAdds /\ OneSlotPerTenant /\ CountInv

---------------------------------------------------------------------------
(* Numbers *)

\* A set of numbers up to n has a greatest one.  (The sets of what is above each of
\* them are ordered by inclusion; a least one belongs to the greatest number.)
LEMMA GreatestExists ==
    ASSUME NEW n \in Nat, NEW S \in SUBSET (1 .. n), S # {}
    PROVE  \E m \in S : \A i \in S : i <= m
<1> DEFINE Above(i) == {j \in S : j > i}
           T == {Above(i) : i \in S}
<1>1. IsFiniteSet(S)
  <2>1. IsFiniteSet(1 .. n)
    BY FS_Interval
  <2> QED BY <2>1, FS_Subset
<1>2. IsWellFoundedOn(StrictSubsetOrdering(S), FiniteSubsetsOf(S))
  BY FS_StrictSubsetOrderingWellFounded
<1>3. T \subseteq FiniteSubsetsOf(S) /\ T # {}
  <2>1. FiniteSubsetsOf(S) = SUBSET S
    BY <1>1, FS_FiniteSubsetsOfFinite
  <2>2. \A i \in S : Above(i) \in SUBSET S
    OBVIOUS
  <2>3. PICK i \in S : TRUE
    OBVIOUS
  <2>4. Above(i) \in T
    BY <2>3
  <2>5. \A V \in T : V \in SUBSET S
    BY <2>2
  <2> HIDE DEF T
  <2> QED BY <2>1, <2>4, <2>5
<1>4. PICK U \in T : \A V \in T : <<V, U>> \notin StrictSubsetOrdering(S)
  <2> HIDE DEF T
  <2> QED BY <1>2, <1>3, WFMin
<1>5. PICK m \in S : U = Above(m)
  BY <1>4
<1>6. ASSUME NEW i \in S, ~ (i <= m) PROVE FALSE
  <2>1. i \in Int /\ m \in Int /\ i > m /\ S \subseteq Int
    BY <1>6
  <2>2. i \in Above(m) /\ i \notin Above(i)
    BY <2>1
  <2>3. Above(i) \subseteq Above(m)
    <3> SUFFICES ASSUME NEW j \in S, j > i PROVE j > m
      OBVIOUS
    <3>1. j \in Int
      BY <2>1
    <3> QED BY <2>1, <3>1
  <2>4. Above(i) \subseteq U /\ Above(i) # U
    BY <1>5, <2>2, <2>3
  <2>5. <<Above(i), U>> \in StrictSubsetOrdering(S)
    BY <1>5, <2>4 DEF StrictSubsetOrdering
  <2> QED BY <1>4, <2>5
<1> QED BY <1>6

\* LastSlot finds what it looks for.
LEMMA LastSlotIs ==
    ASSUME NEW ids
    PROVE  /\ LastSlot(ids) \in 0 .. MaxTenants
           /\ LastSlot(ids) # 0 => ids[LastSlot(ids)] # NoId
           /\ \A i \in Slots : ids[i] # NoId => i <= LastSlot(ids)
<1> DEFINE S == {i \in 1 .. MaxTenants : ids[i] # NoId}
<1>1. \E n \in 0 .. MaxTenants : /\ n # 0 => ids[n] # NoId
                                 /\ \A i \in Slots : ids[i] # NoId => i <= n
  <2>1. CASE S = {}
    <3>1. \A i \in Slots : ids[i] = NoId
      BY <2>1 DEF Slots
    <3>2. 0 \in 0 .. MaxTenants
      BY SlotAssumption
    <3> QED BY <3>1, <3>2
  <2>2. CASE S # {}
    <3>1. PICK m \in S : \A i \in S : i <= m
      BY <2>2, GreatestExists, SlotAssumption
    <3>2. m \in 0 .. MaxTenants /\ ids[m] # NoId
      BY SlotAssumption
    <3> QED BY <3>1, <3>2 DEF Slots
  <2> QED BY <2>1, <2>2, SlotAssumption
<1> QED BY <1>1 DEF LastSlot

\* What is assigned to a word stays in it.
LEMMA WordIsTyped == ASSUME NEW x \in Int PROVE Word(x) \in Words
<1> DEFINE m == 2 * HalfWord
<1>1. m \in Nat \ {0}
  BY TimeAssumption
<1>2. (x + HalfWord) % m \in 0 .. m - 1
  <2> HIDE DEF m
  <2>1. x + HalfWord \in Int
    BY TimeAssumption
  <2> QED BY <1>1, <2>1
<1> QED BY <1>2, TimeAssumption DEF Word, Words

---------------------------------------------------------------------------
(* Types *)

LEMMA WorksAre ==
    /\ Free \in Works /\ Judging \in Works
    /\ Setting("FREE") \in Works /\ Setting("OVERCOMMIT") \in Works
    /\ Free.at = "free" /\ Judging.at = "judge"
    /\ \A m : Setting(m).at = "set" /\ Setting(m).mode = m
  BY DEF Free, Judging, Setting, Works

LEMMA MovesAre ==
    ASSUME NEW i \in Slots, NEW on \in BOOLEAN
    PROVE  /\ Moving(i, on) \in Works /\ Switching(i, on) \in Works
           /\ Moving(i, on).at = "move" /\ Switching(i, on).at = "switch"
  BY DEF Moving, Switching, Works

LEMMA AddingIs ==
    ASSUME TypeOK, NEW slot \in Slots, NEW delta \in Int, NEW next \in {"register", "deregister", "mode"}
    PROVE  /\ Adding(slot, delta, next) \in Works
           /\ Adding(slot, delta, next).at = "add"
           /\ Adding(slot, delta, next).next = next
           /\ Adding(slot, delta, next).slot = slot
<1>1. total + delta \in Int
  BY TimeAssumption DEF TypeOK, Words
<1>2. Word(total + delta) \in Words
  BY <1>1, WordIsTyped
<1> QED BY <1>2 DEF Adding, Works

\* What a thread that is about to write the total has in hand.
LEMMA SumIs ==
    ASSUME TypeOK, NEW c \in Threads, work[c].at = "add"
    PROVE  /\ work[c].slot \in Slots /\ work[c].sum \in Words
           /\ work[c].next \in {"register", "deregister", "mode"}
  BY DEF TypeOK, Works

\* The slot the idle thread is about to look at or to write.
LEMMA MoveIs ==
    ASSUME TypeOK, NEW c \in Threads, work[c].at \in {"move", "switch"}
    PROVE  work[c].slot \in Slots /\ work[c].on \in BOOLEAN
  BY DEF TypeOK, Works

LEMMA ModeIs ==
    ASSUME TypeOK, NEW c \in Threads, work[c].at = "set"
    PROVE  work[c].mode \in {"FREE", "OVERCOMMIT"}
  BY DEF TypeOK, Works

LEMMA TypeAtFirst == Init => TypeOK
  BY SlotAssumption, TimeAssumption, WorksAre DEF Init, TypeOK, Words, Slots

LEMMA TypeIsKept == TypeOK /\ [Next]_vars => TypeOK'
<1> SUFFICES ASSUME TypeOK, [Next]_vars PROVE TypeOK'
    OBVIOUS
<1> USE SlotAssumption, IdAssumption DEF TypeOK, Slots, Threads
<1>v. \A i \in Slots : vsm[i] \in Int /\ -vsm[i] \in Int
  <2> SUFFICES ASSUME NEW i \in Slots PROVE vsm[i] \in Int /\ -vsm[i] \in Int
    OBVIOUS
  <2>1. vsm[i] \in Shares \cup {0} /\ Shares \subseteq Int
    BY ShareAssumption
  <2>2. vsm[i] \in Int
    <3>1. CASE vsm[i] = 0
      BY <3>1
    <3>2. CASE vsm[i] \in Shares
      BY <2>1, <3>2
    <3> QED BY <2>1, <3>1, <3>2
  <2> QED BY <2>2
<1>1. ASSUME NEW t \in Ids \cup {NoId}, NEW v \in Shares, Register(t, v) PROVE TypeOK'
  <2>1. PICK i \in SlotFor(t) : /\ id' = [id EXCEPT ![i] = t]
                                /\ vsm' = [vsm EXCEPT ![i] = v]
                                /\ work' = [work EXCEPT !["http"] = Adding(i, v, "register")]
    BY <1>1 DEF Register
  <2>2. i \in Slots
    BY <2>1 DEF SlotFor, SlotOf
  <2>3. Adding(i, v, "register") \in Works
    BY <2>2, AddingIs, ShareAssumption
  <2> QED BY <1>1, <2>1, <2>2, <2>3 DEF Register
<1>2. ASSUME NEW i \in Slots, Deregister(i) PROVE TypeOK'
  <2>1. Adding(i, -vsm[i], "deregister") \in Works
    BY <1>v, AddingIs
  <2> QED BY <1>2, <2>1 DEF Deregister
<1>3. ASSUME NEW c \in Threads, WriteTotal(c) PROVE TypeOK'
  <2>1. /\ work[c].slot \in Slots /\ work[c].sum \in Words
        /\ work[c].next \in {"register", "deregister", "mode"}
    BY <1>3, SumIs DEF WriteTotal
  <2>2. UNCHANGED <<waiting, mode, profiled, idleSince, scan>> /\ work' \in [Threads -> Works] /\ total' \in Words
    BY <1>3, <2>1, WorksAre DEF WriteTotal
  <2>3. CASE work[c].next = "register"
    BY <1>3, <2>1, <2>2, <2>3 DEF WriteTotal
  <2>4. CASE work[c].next = "deregister"
    <3>1. count' = LastSlot(id')
      BY <1>3, <2>4 DEF WriteTotal
    <3>2. count' \in 0 .. MaxTenants
      BY <3>1, LastSlotIs
    <3>3. /\ id' = [id EXCEPT ![work[c].slot] = NoId]
          /\ vsm' = [vsm EXCEPT ![work[c].slot] = 0]
          /\ active' = [active EXCEPT ![work[c].slot] = FALSE]
      BY <1>3, <2>4 DEF WriteTotal
    <3> QED BY <2>1, <2>2, <3>2, <3>3
  <2>5. CASE work[c].next = "mode"
    BY <1>3, <2>1, <2>2, <2>5 DEF WriteTotal
  <2> QED BY <2>1, <2>3, <2>4, <2>5
<1>4. ASSUME NEW c \in Threads, Judge(c) PROVE TypeOK'
  BY <1>4, WorksAre DEF Judge
<1>5. ASSUME NEW c \in Threads, SetMode(c) PROVE TypeOK'
  BY <1>5, WorksAre, ModeIs DEF SetMode
<1>6. ASSUME Profiling PROVE TypeOK'
  BY <1>6, WorksAre DEF Profiling, EnterProfiling, ExitProfiling
<1>7. ASSUME NEW d \in {1, 2}, BeginPass(d) PROVE TypeOK'
  <2>1. idleSince' \in [Slots -> 0 .. Threshold \cup {Absent}]
    <3> SUFFICES ASSUME NEW i \in Slots PROVE idleSince'[i] \in 0 .. Threshold \cup {Absent}
      BY <1>7 DEF BeginPass
    <3>1. CASE idleSince[i] = Absent
      BY <1>7, <3>1 DEF BeginPass
    <3>2. CASE idleSince[i] \in 0 .. Threshold
      BY <1>7, <3>2, TimeAssumption DEF BeginPass
    <3> QED BY <3>1, <3>2
  <2> QED BY <1>7, <2>1 DEF BeginPass
<1>8. CASE Look
  <2>1. scan \in Slots /\ scan' \in 0 .. MaxTenants
    BY <1>8 DEF Look, NextSlot
  <2>2. idleSince' \in [Slots -> 0 .. Threshold \cup {Absent}]
    <3>1. \/ idleSince' = idleSince
          \/ idleSince' = [idleSince EXCEPT ![scan] = 0]
          \/ idleSince' = [idleSince EXCEPT ![scan] = Absent]
      BY <1>8 DEF Look
    <3>2. 0 \in 0 .. Threshold
      BY TimeAssumption
    <3> QED BY <2>1, <3>1, <3>2
  <2>3. ASSUME NEW on \in BOOLEAN, Move(scan, on) PROVE work' \in [Threads -> Works]
    BY <2>1, <2>3, MovesAre DEF Move
  <2>4. work' \in [Threads -> Works]
    BY <1>8, <2>3 DEF Look
  <2> QED BY <1>8, <2>1, <2>2, <2>4 DEF Look
<1>9. ASSUME NEW i \in Slots, Attach(i) \/ Gate(i) PROVE TypeOK'
  BY <1>9 DEF Attach, Gate
<1>10. CASE UNCHANGED vars
  BY <1>10 DEF vars
<1>11. \A t \in Ids : SlotOf(t) \subseteq Slots
  BY DEF SlotOf
<1>12. CASE CheckActive
  <2>1. work["idle"].slot \in Slots /\ work["idle"].on \in BOOLEAN
    BY <1>12, MoveIs DEF CheckActive
  <2>2. Switching(work["idle"].slot, work["idle"].on) \in Works
    BY <2>1, MovesAre
  <2> QED BY <1>12, <2>2, WorksAre DEF CheckActive
<1>13. CASE Switch
  <2>1. work["idle"].slot \in Slots /\ work["idle"].on \in BOOLEAN
    BY <1>13, MoveIs DEF Switch
  <2> DEFINE s == work["idle"].slot
             delta == IF work["idle"].on THEN vsm[s] ELSE -vsm[s]
  <2>2. delta \in Int
    BY <1>v, <2>1
  <2>3. Adding(s, delta, "mode") \in Works
    BY <2>1, <2>2, AddingIs
  <2> QED BY <1>13, <2>1, <2>3 DEF Switch
<1> QED
  BY <1>1, <1>2, <1>3, <1>4, <1>5, <1>6, <1>7, <1>8, <1>9, <1>10, <1>11, <1>12, <1>13
  DEF Next, Registrations, IdleStep

\* The table and the two threads' work on it are of their types.
THEOREM TableTypeCorrect == Spec => []TypeOK
  BY TypeAtFirst, TypeIsKept, PTL DEF Spec

---------------------------------------------------------------------------
(* The table *)

\* A registration finds the tenant's slot or a free one.
LEMMA SlotForIs ==
    ASSUME TypeOK, OneSlotPerTenant, NEW t \in Ids \cup {NoId}, NEW i \in SlotFor(t)
    PROVE  /\ i \in Slots
           /\ id[i] = t \/ id[i] = NoId
           /\ t # NoId => \A j \in Slots : id[j] = t => j = i
<1>2. CASE t = NoId
  BY <1>2 DEF SlotFor, SlotOf
<1>1. ASSUME t # NoId PROVE \A j \in Slots : id[j] = t => j \in SlotOf(t)
  <2> SUFFICES ASSUME NEW j \in Slots, id[j] = t, NEW k \in 1 .. j - 1 PROVE id[k] # t
    BY <1>1 DEF SlotOf
  <2>1. k \in Slots /\ k # j
    BY SlotAssumption DEF Slots
  <2> QED BY <1>1, <2>1, IdAssumption DEF OneSlotPerTenant
<1> QED
  BY <1>1, <1>2, IdAssumption DEF SlotFor, SlotOf, OneSlotPerTenant

\* A step that leaves the names, the count and the HTTP thread's work alone, and does
\* not make the idle thread register anybody, keeps all there is to keep.
LEMMA ElsewhereIsFine ==
    ASSUME TableInv, UNCHANGED <<id, vsm, count>>,
           work'["http"] = work["http"] \/ (work["http"] = Free /\ work'["http"].at # "add")
             \/ (work["http"].at # "add" /\ work'["http"].at # "add"),
           work'["idle"] = work["idle"] \/ work'["idle"].at # "add" \/ work'["idle"].next = "mode"
    PROVE  WhoAdds' /\ OneSlotPerTenant' /\ CountInv'
  BY WorksAre DEF TableInv, WhoAdds, OneSlotPerTenant, CountInv, Covered, InUse, Held

LEMMA TableIsKept == TableInv /\ [Next]_vars => TableInv'
<1> SUFFICES ASSUME TableInv, [Next]_vars PROVE WhoAdds' /\ OneSlotPerTenant' /\ CountInv'
    BY TypeIsKept DEF TableInv
<1>t. TypeOK /\ OneSlotPerTenant
  BY DEF TableInv
<1>w. /\ work \in [Threads -> Works] /\ id \in [Slots -> Ids \cup {NoId}]
      /\ vsm \in [Slots -> Shares \cup {0}] /\ count \in 0 .. MaxTenants
  BY <1>t DEF TypeOK
<1>h. "http" \in Threads /\ "idle" \in Threads /\ "http" # "idle"
  BY DEF Threads
<1>1. ASSUME NEW t \in Ids \cup {NoId}, NEW v \in Shares, Register(t, v)
      PROVE  WhoAdds' /\ OneSlotPerTenant' /\ CountInv'
  <2>1. PICK i \in SlotFor(t) : /\ id' = [id EXCEPT ![i] = t]
                                /\ vsm' = [vsm EXCEPT ![i] = v]
                                /\ work' = [work EXCEPT !["http"] = Adding(i, v, "register")]
    BY <1>1 DEF Register
  <2>2. /\ i \in Slots /\ (id[i] = t \/ id[i] = NoId)
        /\ t # NoId => \A j \in Slots : id[j] = t => j = i
    BY <1>t, SlotForIs
  <2>3. /\ work'["http"].at = "add" /\ work'["http"].next = "register" /\ work'["http"].slot = i
        /\ work'["idle"] = work["idle"] /\ count' = count
    BY <1>1, <1>w, <1>h, <2>1 DEF Register, Adding
  <2>6. /\ id'[i] = t /\ vsm'[i] = v /\ v # 0
        /\ \A j \in Slots \ {i} : id'[j] = id[j] /\ vsm'[j] = vsm[j]
    BY <1>w, <2>1, <2>2, ShareAssumption
  <2>4. OneSlotPerTenant'
    <3> SUFFICES ASSUME NEW j \in Slots, NEW k \in Slots, id'[j] = id'[k], id'[j] # NoId PROVE j = k
      BY DEF OneSlotPerTenant
    <3> QED BY <1>t, <2>2, <2>6 DEF OneSlotPerTenant
  <2>5. InUse(count) /\ Covered(count)
    BY <1>1, WorksAre DEF Register, TableInv, CountInv
  <2>7. count # 0 => count \in Slots
    BY <1>w, SlotAssumption DEF Slots
  <2>8. CountInv'
    BY <2>2, <2>3, <2>5, <2>6, <2>7 DEF CountInv, InUse, Covered, Held
  <2>9. WhoAdds'
    BY <2>3 DEF WhoAdds, TableInv
  <2> QED BY <2>4, <2>8, <2>9
<1>2. ASSUME NEW i \in Slots, Deregister(i) PROVE WhoAdds' /\ OneSlotPerTenant' /\ CountInv'
  <2>1. /\ work'["http"].at = "add" /\ work'["http"].next = "deregister"
        /\ work'["idle"] = work["idle"] /\ UNCHANGED <<id, vsm, count>>
    BY <1>2, <1>w, <1>h DEF Deregister, Adding
  <2>2. InUse(count) /\ Covered(count)
    BY <1>2, WorksAre DEF Deregister, TableInv, CountInv
  <2> QED
    BY <2>1, <2>2 DEF TableInv, WhoAdds, OneSlotPerTenant, CountInv, Covered, InUse, Held
<1>3. CASE WriteTotal("http")
  <2>1. /\ work'["http"].at = "judge" /\ work'["idle"] = work["idle"] /\ work["http"].at = "add"
        /\ work["http"].slot \in Slots
    BY <1>3, <1>t, <1>w, <1>h, SumIs, WorksAre DEF WriteTotal
  <2>2. WhoAdds'
    BY <2>1 DEF WhoAdds, TableInv
  <2> DEFINE s == work["http"].slot
  <2>3. CASE work["http"].next = "register"
    <3>1. id' = id /\ vsm' = vsm /\ count' = IF s > count THEN s ELSE count
      BY <1>3, <2>3 DEF WriteTotal
    <3>2. InUse(count) /\ Held(s) /\ \A i \in Slots \ {s} : id[i] # NoId => i <= count
      BY <2>1, <2>3 DEF TableInv, CountInv
    <3>3. s \in Int /\ count \in Int /\ \A i \in Slots : i \in Int
      BY <1>w, <2>1 DEF Slots
    <3>4. InUse(count)' /\ Covered(count)'
      BY <3>1, <3>2, <3>3 DEF InUse, Covered, Held
    <3> QED BY <1>t, <2>1, <2>2, <3>1, <3>4 DEF OneSlotPerTenant, CountInv
  <2>4. CASE work["http"].next = "deregister"
    <3>1. id' = [id EXCEPT ![s] = NoId] /\ count' = LastSlot(id')
      BY <1>3, <2>4 DEF WriteTotal
    <3>2. InUse(count)' /\ Covered(count)'
      BY <3>1, LastSlotIs DEF InUse, Covered, Held
    <3>3. OneSlotPerTenant'
      BY <1>t, <1>w, <2>1, <3>1 DEF OneSlotPerTenant
    <3> QED BY <2>1, <2>2, <3>2, <3>3 DEF CountInv
  <2> QED BY <2>1, <2>3, <2>4 DEF TableInv, WhoAdds
<1>4. CASE WriteTotal("idle")
  <2>1. work["idle"].next = "mode"
    BY <1>4 DEF WriteTotal, TableInv, WhoAdds
  <2>2. UNCHANGED <<id, vsm, count>> /\ work'["http"] = work["http"] /\ work'["idle"].at # "add"
    BY <1>4, <1>w, <1>h, <2>1, WorksAre DEF WriteTotal
  <2> QED BY <2>2, ElsewhereIsFine
<1>5. ASSUME NEW c \in Threads, Judge(c) \/ SetMode(c) PROVE WhoAdds' /\ OneSlotPerTenant' /\ CountInv'
  <2>1. work[c].at # "add" /\ work'[c].at # "add" /\ UNCHANGED <<id, vsm, count>>
    BY <1>5, <1>w, WorksAre DEF Judge, SetMode
  <2>2. \A d \in Threads \ {c} : work'[d] = work[d]
    BY <1>5, <1>w DEF Judge, SetMode
  <2> QED BY <1>h, <2>1, <2>2, ElsewhereIsFine
<1>6. CASE Profiling
  <2>1. UNCHANGED <<id, vsm, count>> /\ work'["idle"] = work["idle"]
        /\ (work'["http"] = work["http"] \/ (work["http"] = Free /\ work'["http"].at # "add"))
    BY <1>6, <1>w, <1>h, WorksAre DEF Profiling, EnterProfiling, ExitProfiling
  <2> QED BY <2>1, ElsewhereIsFine
<1>7. ASSUME NEW d \in {1, 2}, BeginPass(d) PROVE WhoAdds' /\ OneSlotPerTenant' /\ CountInv'
  BY <1>7, ElsewhereIsFine DEF BeginPass
<1>8. CASE Look
  <2>1. UNCHANGED <<id, vsm, count>> /\ work'["http"] = work["http"]
        /\ (work'["idle"] = work["idle"] \/ work'["idle"].at # "add")
    BY <1>8, <1>w, <1>h DEF Look, Move, Moving
  <2> QED BY <2>1, ElsewhereIsFine
<1>9. ASSUME NEW i \in Slots, Attach(i) \/ Gate(i) PROVE WhoAdds' /\ OneSlotPerTenant' /\ CountInv'
  BY <1>9, ElsewhereIsFine DEF Attach, Gate
<1>10. CASE UNCHANGED vars
  BY <1>10, ElsewhereIsFine DEF vars
<1>11. \A t \in Ids : SlotOf(t) \subseteq Slots
  BY DEF SlotOf
<1>12. CASE CheckActive
  <2>1. UNCHANGED <<id, vsm, count>> /\ work'["http"] = work["http"] /\ work'["idle"].at # "add"
    BY <1>12, <1>w, <1>h, WorksAre DEF CheckActive, Switching
  <2> QED BY <2>1, ElsewhereIsFine
<1>13. CASE Switch
  <2>1. UNCHANGED <<id, vsm, count>> /\ work'["http"] = work["http"] /\ work'["idle"].next = "mode"
    BY <1>13, <1>w, <1>h DEF Switch, Adding
  <2> QED BY <2>1, ElsewhereIsFine
<1> QED
  BY <1>1, <1>2, <1>3, <1>4, <1>5, <1>6, <1>7, <1>8, <1>9, <1>10, <1>11, <1>12, <1>13, <1>h
  DEF Next, Registrations, IdleStep

\* The inductive invariant of the table.
THEOREM TableInvariant == Spec => []TableInv
<1>1. Init => TableInv
  BY TypeAtFirst, WorksAre DEF Init, TableInv, WhoAdds, OneSlotPerTenant, CountInv, Covered, InUse,
     Held, Slots, Threads
<1> QED
  BY <1>1, TableIsKept, PTL DEF Spec

\* A tenant has one slot.
THEOREM OneSlotEach == Spec => []OneSlotPerTenant
  BY TableInvariant, PTL DEF TableInv

\* Between two requests tenant_count covers every tenant, and ends with a slot that
\* is in use.
THEOREM CountIsRight == Spec => []CountIsLastSlot
<1>1. TableInv => CountIsLastSlot
  BY WorksAre DEF TableInv, CountInv, CountIsLastSlot, Covered, InUse, Held
<1> QED
  BY <1>1, TableInvariant, PTL

\* A slot passes from one tenant to another only through being freed.
THEOREM SlotsPassFreed == Spec => SlotsAreNotTaken
<1>1. TableInv /\ [Next]_vars => [\A i \in Slots : id'[i] # id[i] => id[i] = NoId \/ id'[i] = NoId]_vars
  <2> SUFFICES ASSUME TableInv, Next, NEW i \in Slots, id'[i] # id[i] PROVE id[i] = NoId \/ id'[i] = NoId
    OBVIOUS
  <2>t. TypeOK /\ OneSlotPerTenant /\ id \in [Slots -> Ids \cup {NoId}]
    BY DEF TableInv, TypeOK
  <2>1. ASSUME NEW t \in Ids \cup {NoId}, NEW v \in Shares, Register(t, v)
        PROVE  id[i] = NoId \/ id'[i] = NoId
    <3>1. PICK j \in SlotFor(t) : id' = [id EXCEPT ![j] = t]
      BY <2>1 DEF Register
    <3> QED BY <2>t, <3>1, SlotForIs
  <2>2. ASSUME NEW c \in Threads, WriteTotal(c) PROVE id'[i] = NoId
    BY <2>2, <2>t DEF WriteTotal
  <2>3. CASE id' = id
    BY <2>3
  <2> QED
    BY <2>1, <2>2, <2>3 DEF Next, Registrations, IdleStep, Profiling, Deregister, Judge, SetMode,
       EnterProfiling, ExitProfiling, BeginPass, Look, CheckActive, Switch, Attach, Gate, Threads
<1> QED
  BY <1>1, TableInvariant, PTL DEF Spec, SlotsAreNotTaken

=============================================================================
