--------------------------- MODULE BoosterProofs ---------------------------
(***************************************************************************)
(* Safety of the booster for any names, any number of watchers and of late *)
(* POSTs: nobody is reclaimed who has not been up and died, and what is    *)
(* reclaimed is reclaimed everywhere.  Both come from what can be under    *)
(* way about a name whose pod came when nobody was busy with it.           *)
(***************************************************************************)
EXTENDS Booster, TLAPS

\* A pipeline that has passed its recheck.
Committed == {"clear", "posting", "answered", "unanswered"}
Reclaiming(w, n) == watch[w] # Off /\ watch[w].at \in Committed /\ watch[w].name = n

\* Until the pod has died no pipeline is past its recheck and no POST is left over, and
\* until it has been up it is not armed, nor about to be; the registration is its own.
Spared(n) ==
    /\ n \in DOMAIN reg => reg[n].pod = pod[n].no
    /\ pod[n].is # "gone" => late[n] = 0 /\ \A w \in Watchers : ~Reclaiming(w, n)
    /\ pod[n].is \notin {"up", "gone"} => armer # n /\ (n \in DOMAIN reg => ~reg[n].armed)

\* What a pipeline has taken does not come back: the plugin has nothing to register.
Whole(n) ==
    /\ pod[n].is \in {"up", "gone"} => toRegister[n] = {}
    /\ \A w \in Watchers : Reclaiming(w, n) =>
          /\ watch[w].at # "clear" => n \notin feeder
          /\ watch[w].at = "answered" => n \notin slots

ReclaimInv == \A n \in Names : clean[n] => Spared(n) /\ Whole(n)

\* Pods are numbered from 1; a name that has had none has nothing to register.
Numbered == \A n \in Names : pod[n].no = 0 => pod[n].is = "none" /\ toRegister[n] = {}

IInv == TypeOK /\ Numbered /\ ReclaimInv

---------------------------------------------------------------------------
(* Types *)

Entry == [pod : 1 .. MaxPods, armed : BOOLEAN, pid : BOOLEAN]
Work == [at : {"pass"} \cup Stages, kind : {"poll", "event"}, name : Names \cup {Nobody}, todo : SUBSET Names]

LEMMA TypeAtFirst == Init => TypeOK
  BY NamesAssumption, BoundAssumption DEF Init, TypeOK, Off, EmptyDict

LEMMA WatchIsTyped ==
    ASSUME TypeOK, NEW w \in Watchers
    PROVE  /\ watch[w] = Off \/ watch[w] \in Work
           /\ watch[w] # Off => (watch[w].at = "pass") = (watch[w].name = Nobody)
           /\ \A at \in {"pass"} \cup Stages : At(w, at) => watch[w] \in Work /\ watch[w].at = at
  BY DEF TypeOK, Work, At, Off

\* Another place for a thread keeps the types, if a name goes with it.
LEMMA GoesIsTyped ==
    ASSUME TypeOK, NEW w \in Watchers, NEW step, Goes(w, step),
           step = Off \/ (step \in Work /\ (step.at = "pass") = (step.name = Nobody))
    PROVE  /\ watch' \in [Watchers -> {Off} \cup Work]
           /\ \A v \in Watchers : watch'[v] # Off => (watch'[v].at = "pass") = (watch'[v].name = Nobody)
  BY DEF TypeOK, Goes, Work

LEMMA TypeByPods ==
    ASSUME TypeOK, NEW n \in Names, Allocate(n) \/ PodMoves(n)
    PROVE  TypeOK'
<1>1. CASE Allocate(n)
  <2>1. pod' \in [Names -> [no : 0 .. MaxPods, is : {"none", "starting", "up", "gone", "failed"}]]
    BY <1>1, BoundAssumption DEF TypeOK, Allocate
  <2>2. toRegister' \in [Names -> SUBSET {"slot", "feeder", "booster"}] /\ clean' \in [Names -> BOOLEAN]
    BY <1>1 DEF TypeOK, Allocate, AtRest
  <2> QED BY <1>1, <2>1, <2>2 DEF TypeOK, Allocate, control
<1>2. CASE PodMoves(n)
  <2>1. pod' \in [Names -> [no : 0 .. MaxPods, is : {"none", "starting", "up", "gone", "failed"}]]
    BY <1>2 DEF TypeOK, PodMoves
  <2> QED BY <1>2, <2>1 DEF TypeOK, PodMoves, control
<1> QED BY <1>1, <1>2

LEMMA TypeByPlugin ==
    ASSUME TypeOK, NEW n \in Names, RegisterSlot(n) \/ RegisterFeeder(n) \/ PodEnded(n)
    PROVE  TypeOK'
  BY DEF TypeOK, RegisterSlot, RegisterFeeder, PodEnded, control, world

\* Entries of the booster's table stay of their type.
EntriesOK == DOMAIN reg \subseteq Names /\ \A n \in DOMAIN reg : reg[n] \in Entry

LEMMA TypeByRegistration ==
    ASSUME TypeOK, Numbered, NEW n \in Names, RegisterTenant(n) \/ RegisterByHand(n) \/ DeregisterTenant(n)
    PROVE  TypeOK'
<1> pod[n].no \in 0 .. MaxPods
  BY DEF TypeOK
<1>1. CASE RegisterTenant(n)
  <2>1. pod[n].no \in 1 .. MaxPods
    BY <1>1, BoundAssumption DEF RegisterTenant, Numbered
  <2>2. EntriesOK'
    BY <1>1, <2>1 DEF RegisterTenant, TypeOK, EntriesOK, Entry, Put
  <2> QED BY <1>1, <2>2 DEF TypeOK, RegisterTenant, control, EntriesOK, Entry
<1>2. CASE RegisterByHand(n)
  <2>1. pod[n].no \in 1 .. MaxPods
    BY <1>2, BoundAssumption DEF RegisterByHand, Numbered
  <2>2. EntriesOK'
    BY <1>2, <2>1 DEF RegisterByHand, TypeOK, EntriesOK, Entry, Put
  <2> QED BY <1>2, <2>2 DEF TypeOK, RegisterByHand, control, world, EntriesOK, Entry
<1>3. CASE DeregisterTenant(n)
  <2>1. EntriesOK'
    BY <1>3 DEF DeregisterTenant, TypeOK, EntriesOK, Entry, Drop
  <2> QED BY <1>3, <2>1 DEF TypeOK, DeregisterTenant, control, world, EntriesOK, Entry
<1> QED BY <1>1, <1>2, <1>3

LEMMA TypeByArming ==
    ASSUME TypeOK, (\E n \in Names : ArmLook(n)) \/ ArmSet \/ AddPending
    PROVE  TypeOK'
<1>1. CASE \E n \in Names : ArmLook(n)
  BY <1>1 DEF TypeOK, ArmLook, control, world
<1>2. CASE ArmSet
  <2>1. EntriesOK'
    BY <1>2 DEF ArmSet, TypeOK, EntriesOK, Entry
  <2> QED BY <1>2, <2>1 DEF TypeOK, ArmSet, control, world, EntriesOK, Entry
<1>3. CASE AddPending
  BY <1>3, BoundAssumption DEF TypeOK, AddPending, control, world
<1> QED BY <1>1, <1>2, <1>3

LEMMA TypeByControl ==
    ASSUME TypeOK, Joined \/ \E then \in {"off", "poll", "event"} : Disable(then)
    PROVE  TypeOK'
<1>1. ASSUME NEW then \in {"off", "poll", "event"}, Disable(then) PROVE TypeOK'
  <2>1. told' \subseteq Watchers
    BY <1>1 DEF TypeOK, Disable, Pollers
  <2> QED BY <1>1, <2>1 DEF TypeOK, Disable, world
<1>2. ASSUME Joined, http = "off" PROVE TypeOK'
  BY <1>2 DEF TypeOK, Joined, world
<1>3. ASSUME Joined, http # "off" PROVE TypeOK'
  <2>1. PICK w \in Watchers : /\ current' = w
                              /\ watch' = [watch EXCEPT ![w] = Top(http)]
                              /\ told' = IF http = "poll" THEN told \ Pollers ELSE told
    BY <1>3 DEF Joined
  <2>2. http \in {"poll", "event"}
    BY <1>3 DEF TypeOK, Joined
  <2>3. Top(http) \in Work /\ Top(http).at = "pass" /\ Top(http).name = Nobody
    BY <2>2 DEF Top, Work
  <2>4. /\ watch' \in [Watchers -> {Off} \cup Work]
        /\ \A v \in Watchers : watch'[v] # Off => (watch'[v].at = "pass") = (watch'[v].name = Nobody)
    BY <2>1, <2>3, GoesIsTyped DEF Goes
  <2>5. current' \in Watchers /\ told' \subseteq Watchers /\ http' = "free" /\ mode' \in {"poll", "event"}
    BY <1>3, <2>1, <2>2 DEF TypeOK, Joined
  <2> QED BY <1>3, <2>4, <2>5 DEF TypeOK, Joined, world, Work
<1> QED BY <1>1, <1>2, <1>3

LEMMA TypeByWatching ==
    ASSUME TypeOK, NEW w \in Watchers,
           \/ Ends(w) \/ Snapshot(w) \/ Look(w)
           \/ \E n \in Names : Visit(w, n) \/ Event(w, n)
    PROVE  TypeOK'
<1>1. CASE Ends(w)
  <2>1. /\ watch' \in [Watchers -> {Off} \cup Work]
        /\ \A v \in Watchers : watch'[v] # Off => (watch'[v].at = "pass") = (watch'[v].name = Nobody)
    BY <1>1, GoesIsTyped DEF Ends
  <2> QED BY <1>1, <2>1 DEF TypeOK, Ends, world, Work
<1>2. ASSUME Goes(w, [watch[w] EXCEPT !.todo = DOMAIN reg]), Snapshot(w) PROVE TypeOK'
  <2>1. watch[w] \in Work /\ (watch[w].at = "pass") = (watch[w].name = Nobody)
    BY <1>2, WatchIsTyped DEF Snapshot, At
  <2>2. DOMAIN reg \subseteq Names
    BY DEF TypeOK
  <2>3. LET step == [watch[w] EXCEPT !.todo = DOMAIN reg]
        IN step \in Work /\ (step.at = "pass") = (step.name = Nobody)
    BY <2>1, <2>2 DEF Work
  <2>4. /\ watch' \in [Watchers -> {Off} \cup Work]
        /\ \A v \in Watchers : watch'[v] # Off => (watch'[v].at = "pass") = (watch'[v].name = Nobody)
    BY <1>2, <2>3, GoesIsTyped
  <2> QED BY <1>2, <2>4 DEF TypeOK, Snapshot, world, control, Work
<1>3. ASSUME NEW n \in Names, Visit(w, n) PROVE TypeOK'
  <2>1. PICK at \in {"look", "pass"}, name \in {n, Nobody} :
            /\ (at = "pass") = (name = Nobody)
            /\ Goes(w, [watch[w] EXCEPT !.todo = @ \ {n}, !.at = at, !.name = name])
    BY <1>3, NamesAssumption DEF Visit
  <2>2. watch[w] \in Work
    BY <1>3, WatchIsTyped DEF Visit
  <2>3. LET step == [watch[w] EXCEPT !.todo = @ \ {n}, !.at = at, !.name = name]
        IN step \in Work /\ (step.at = "pass") = (step.name = Nobody)
    BY <2>1, <2>2 DEF Work, Stages
  <2>4. /\ watch' \in [Watchers -> {Off} \cup Work]
        /\ \A v \in Watchers : watch'[v] # Off => (watch'[v].at = "pass") = (watch'[v].name = Nobody)
    BY <2>1, <2>3, GoesIsTyped
  <2> QED BY <1>3, <2>4 DEF TypeOK, Visit, world, control, Work
<1>4. ASSUME NEW n \in Names, Event(w, n) PROVE TypeOK'
  <2>1. watch[w] \in Work
    BY <1>4, WatchIsTyped DEF Event
  <2>2. LET step == [watch[w] EXCEPT !.at = "look", !.name = n]
        IN step \in Work /\ (step.at = "pass") = (step.name = Nobody)
    BY <2>1, NamesAssumption DEF Work, Stages
  <2>3. /\ watch' \in [Watchers -> {Off} \cup Work]
        /\ \A v \in Watchers : watch'[v] # Off => (watch'[v].at = "pass") = (watch'[v].name = Nobody)
    BY <1>4, <2>2, GoesIsTyped DEF Event
  <2> QED BY <1>4, <2>3 DEF TypeOK, Event, world, control, Work
<1>5. CASE Look(w)
  <2>1. watch[w] \in Work /\ watch[w].name # Nobody
    BY <1>5, WatchIsTyped DEF Look, Stages, At
  <2>2. PICK step \in {Stage(w, "clear"), InPass(w)} : Goes(w, step)
    BY <1>5 DEF Look
  <2>3. step \in Work /\ (step.at = "pass") = (step.name = Nobody)
    BY <2>1, <2>2 DEF Work, Stages, Stage, InPass
  <2>4. /\ watch' \in [Watchers -> {Off} \cup Work]
        /\ \A v \in Watchers : watch'[v] # Off => (watch'[v].at = "pass") = (watch'[v].name = Nobody)
    BY <2>2, <2>3, GoesIsTyped
  <2> QED BY <1>5, <2>4 DEF TypeOK, Look, world, control, Work
<1> QED BY <1>1, <1>2, <1>3, <1>4, <1>5 DEF Snapshot

LEMMA TypeByPipeline ==
    ASSUME TypeOK, NEW w \in Watchers, Clear(w) \/ Served(w) \/ Unserved(w) \/ Finish(w)
    PROVE  TypeOK'
<1>1. watch[w] \in Work /\ watch[w].name # Nobody /\ watch[w].name \in Names
  BY WatchIsTyped DEF Clear, Served, Unserved, Finish, Stages, At, Work
<1>2. PICK step \in {Stage(w, "posting"), Stage(w, "answered"), Stage(w, "unanswered"), InPass(w)} : Goes(w, step)
  BY DEF Clear, Served, Unserved, Finish
<1>3. step \in Work /\ (step.at = "pass") = (step.name = Nobody)
  BY <1>1, <1>2 DEF Work, Stages, Stage, InPass
<1>4. /\ watch' \in [Watchers -> {Off} \cup Work]
      /\ \A v \in Watchers : watch'[v] # Off => (watch'[v].at = "pass") = (watch'[v].name = Nobody)
  BY <1>2, <1>3, GoesIsTyped
<1>5. CASE Clear(w)
  BY <1>4, <1>5 DEF TypeOK, Clear, world, control, Work
<1>6. CASE Served(w)
  BY <1>4, <1>6 DEF TypeOK, Served, world, control, Work
<1>7. CASE Unserved(w)
  <2>1. late' \in [Names -> 0 .. MaxLate]
    BY <1>1, <1>7, BoundAssumption DEF TypeOK, Unserved
  <2> QED BY <1>4, <1>7, <2>1 DEF TypeOK, Unserved, world, control, Work
<1>8. CASE Finish(w)
  <2>1. EntriesOK'
    BY <1>8 DEF Finish, TypeOK, EntriesOK, Entry, Drop
  <2>2. pending' \in 0 .. MaxPending
    BY <1>8, BoundAssumption DEF Finish, TypeOK, Popped
  <2> QED BY <1>4, <1>8, <2>1, <2>2 DEF TypeOK, Finish, world, control, Work, EntriesOK, Entry
<1> QED BY <1>5, <1>6, <1>7, <1>8

LEMMA TypeByLatePost ==
    ASSUME TypeOK, NEW n \in Names, ServedLate(n)
    PROVE  TypeOK'
<1>1. late' \in [Names -> 0 .. MaxLate]
  BY BoundAssumption DEF TypeOK, ServedLate
<1> QED BY <1>1 DEF TypeOK, ServedLate, world, control

LEMMA TypeIsKept == TypeOK /\ Numbered /\ [Next]_vars => TypeOK'
<1> SUFFICES ASSUME TypeOK, Numbered, [Next]_vars PROVE TypeOK'
    OBVIOUS
<1>1. CASE UNCHANGED vars
  BY <1>1 DEF TypeOK, vars, world, control
<1>2. CASE Next
  BY <1>2, TypeByPods, TypeByPlugin, TypeByRegistration, TypeByArming, TypeByControl,
     TypeByWatching, TypeByPipeline, TypeByLatePost DEF Next, Works
<1> QED BY <1>1, <1>2

LEMMA NumberedIsKept == TypeOK /\ Numbered /\ [Next]_vars => Numbered'
<1> SUFFICES ASSUME TypeOK, Numbered, [Next]_vars PROVE Numbered'
    OBVIOUS
<1>1. ASSUME UNCHANGED <<pod, toRegister>> PROVE Numbered'
  BY <1>1 DEF Numbered
<1>2. ASSUME NEW n \in Names, Allocate(n) PROVE Numbered'
  BY <1>2 DEF Numbered, TypeOK, Allocate
<1>3. ASSUME NEW n \in Names, PodMoves(n) PROVE Numbered'
  BY <1>3 DEF Numbered, TypeOK, PodMoves
<1>4. ASSUME NEW n \in Names, RegisterSlot(n) \/ RegisterFeeder(n) \/ RegisterTenant(n) PROVE Numbered'
  BY <1>4 DEF Numbered, TypeOK, RegisterSlot, RegisterFeeder, RegisterTenant
<1>5. ASSUME NEW n \in Names, \/ PodEnded(n) \/ RegisterByHand(n) \/ DeregisterTenant(n) \/ ArmLook(n) \/ ServedLate(n)
                              \/ \E w \in Watchers : Event(w, n) \/ Visit(w, n)
             PROVE UNCHANGED <<pod, toRegister>>
  BY <1>5 DEF PodEnded, RegisterByHand, DeregisterTenant, ArmLook, ServedLate, Event, Visit, world
<1>6. ASSUME \/ AddPending \/ ArmSet \/ Joined \/ UNCHANGED vars
             \/ \E then \in {"off", "poll", "event"} : Disable(then)
             \/ \E w \in Watchers : Ends(w) \/ Snapshot(w) \/ Look(w) \/ Clear(w) \/ Served(w) \/ Unserved(w) \/ Finish(w)
      PROVE UNCHANGED <<pod, toRegister>>
  BY <1>6 DEF AddPending, ArmSet, Joined, Disable, Ends, Snapshot, Look, Clear, Served, Unserved, Finish, world, vars
<1> QED
  BY <1>1, <1>2, <1>3, <1>4, <1>5, <1>6 DEF Next, Works

---------------------------------------------------------------------------
(* What is under way about a name *)

\* A thread that goes elsewhere changes what it is about, and nobody else.
LEMMA OthersGoOn ==
    ASSUME TypeOK, NEW w \in Watchers, NEW step, Goes(w, step), NEW v \in Watchers
    PROVE  /\ v # w => watch'[v] = watch[v]
           /\ watch'[w] = step
  BY DEF TypeOK, Goes

Fine(n) == clean[n] => Spared(n) /\ Whole(n)

\* No pipeline is past its recheck in this step that was not before.
NoneCommits(n) == \A w \in Watchers : Reclaiming(w, n)' => Reclaiming(w, n) /\ watch'[w].at = watch[w].at

\* A step that leaves pods and registrations alone and commits nobody.
LEMMA FineIfNothingComes ==
    ASSUME NEW n \in Names, Fine(n), NoneCommits(n),
           UNCHANGED <<pod[n], late[n]>>, clean'[n] => clean[n],
           toRegister'[n] \subseteq toRegister[n],
           n \in feeder' => n \in feeder \/ toRegister[n] # {},
           n \in slots' => n \in slots \/ toRegister[n] # {},
           \/ n \notin (DOMAIN reg)'
           \/ n \in DOMAIN reg /\ reg'[n].pod = reg[n].pod
                /\ (reg'[n].armed => reg[n].armed \/ armer = n \/ pod[n].is \in {"up", "gone"})
           \/ reg'[n].pod = pod[n].no /\ (reg'[n].armed => pod[n].is = "up"),
           armer' = n => armer = n \/ pod[n].is = "up"
    PROVE  Fine(n)'
<1> SUFFICES ASSUME clean'[n] PROVE Spared(n)' /\ Whole(n)'
    BY DEF Fine
<1>1. Spared(n) /\ Whole(n)
  BY DEF Fine
<1>2. Spared(n)'
  BY <1>1 DEF Spared, NoneCommits
<1>3. Whole(n)'
  BY <1>1 DEF Spared, Whole, NoneCommits, Reclaiming
<1> QED BY <1>2, <1>3

\* A step that leaves the threads alone commits nobody.
LEMMA IdleCommitsNone ==
    ASSUME UNCHANGED watch, NEW n \in Names
    PROVE  NoneCommits(n)
  BY DEF NoneCommits, Reclaiming

\* Nor does one to the top of a thread's loop, or to the recheck.
LEMMA UncommittedGo ==
    ASSUME TypeOK, NEW w \in Watchers, NEW step, Goes(w, step), step.at \notin Committed, NEW n \in Names
    PROVE  NoneCommits(n)
<1> SUFFICES ASSUME NEW v \in Watchers, Reclaiming(v, n)'
             PROVE  Reclaiming(v, n) /\ watch'[v].at = watch[v].at
    BY DEF NoneCommits
<1>1. v # w
  BY OthersGoOn DEF Reclaiming
<1>2. watch'[v] = watch[v]
  BY <1>1, OthersGoOn
<1> QED BY <1>2 DEF Reclaiming

LEMMA FineByPods ==
    ASSUME IInv, NEW m \in Names, Allocate(m) \/ PodMoves(m), NEW n \in Names
    PROVE  Fine(n)'
<1> USE DEF IInv
<1>0. TypeOK /\ Fine(n) /\ UNCHANGED <<feeder, slots, reg, armer, late, watch>>
  BY DEF ReclaimInv, Fine, Allocate, PodMoves
<1>1. NoneCommits(n)
  BY <1>0, IdleCommitsNone
<1>2. CASE m # n
  <2>1. UNCHANGED <<pod[n], clean[n], toRegister[n]>>
    BY <1>2 DEF Allocate, PodMoves, TypeOK
  <2> QED BY <1>0, <1>1, <2>1, FineIfNothingComes
<1>3. CASE m = n /\ Allocate(m)
  <2> SUFFICES ASSUME AtRest(n) PROVE Spared(n)' /\ Whole(n)'
    BY <1>3 DEF Allocate, Fine, TypeOK
  <2>1. pod'[n].is = "starting"
    BY <1>3 DEF Allocate, TypeOK
  <2>2. \A w \in Watchers : ~Reclaiming(w, n)'
    BY <1>0 DEF AtRest, Busy, Reclaiming
  <2>3. n \notin DOMAIN reg' /\ armer' # n /\ late'[n] = 0
    BY <1>0 DEF AtRest
  <2>4. Spared(n)'
    BY <2>1, <2>2, <2>3 DEF Spared
  <2>5. Whole(n)'
    BY <2>1, <2>2 DEF Whole
  <2> QED BY <2>4, <2>5
<1>4. CASE m = n /\ PodMoves(m)
  <2> SUFFICES ASSUME clean[n], toRegister[n] = {} PROVE Spared(n)' /\ Whole(n)'
    BY <1>4 DEF PodMoves, Fine, TypeOK
  <2>1. Spared(n) /\ Whole(n)
    BY <1>0 DEF Fine
  <2>2. /\ pod'[n].no = pod[n].no
        /\ <<pod[n].is, pod'[n].is>> \in {<<"starting", "up">>, <<"starting", "failed">>, <<"up", "gone">>}
        /\ toRegister'[n] = {}
    BY <1>4 DEF PodMoves, TypeOK
  <2>3. Spared(n)'
    BY <1>0, <2>1, <2>2 DEF Spared, Reclaiming
  <2>4. Whole(n)'
    BY <1>0, <2>1, <2>2 DEF Whole, Reclaiming
  <2> QED BY <2>3, <2>4
<1> QED BY <1>2, <1>3, <1>4

LEMMA FineByRegistrations ==
    ASSUME IInv, NEW m \in Names, NEW n \in Names,
           \/ RegisterSlot(m) \/ RegisterFeeder(m) \/ PodEnded(m)
           \/ RegisterTenant(m) \/ RegisterByHand(m) \/ DeregisterTenant(m)
    PROVE  Fine(n)'
<1> USE DEF IInv
<1>0. TypeOK /\ Fine(n) /\ UNCHANGED <<pod, armer, late, watch>>
  BY DEF ReclaimInv, Fine, RegisterSlot, RegisterFeeder, PodEnded, RegisterTenant, RegisterByHand,
         DeregisterTenant, world
<1>6. clean' = clean \/ (RegisterByHand(m) /\ clean' = [clean EXCEPT ![m] = @ /\ pod[m].is = "up"])
  BY DEF RegisterSlot, RegisterFeeder, PodEnded, RegisterTenant, RegisterByHand, DeregisterTenant, world
<1>7. clean'[n] => clean[n] /\ (RegisterByHand(m) /\ m = n => pod[n].is = "up")
  <2>1. clean \in [Names -> BOOLEAN]
    BY <1>0 DEF TypeOK
  <2>2. RegisterByHand(m) => clean' = [clean EXCEPT ![m] = @ /\ pod[m].is = "up"]
    BY DEF RegisterByHand
  <2> QED BY <1>6, <2>1, <2>2
<1> SUFFICES ASSUME clean'[n] PROVE Fine(n)'
    BY DEF Fine
<1>1. NoneCommits(n)
  BY <1>0, IdleCommitsNone
<1>2. toRegister'[n] \subseteq toRegister[n]
  BY DEF TypeOK, RegisterSlot, RegisterFeeder, PodEnded, RegisterTenant, RegisterByHand, DeregisterTenant, world
<1>3. n \in feeder' => n \in feeder \/ toRegister[n] # {}
  BY DEF RegisterSlot, RegisterFeeder, PodEnded, RegisterTenant, RegisterByHand, DeregisterTenant
<1>4. n \in slots' => n \in slots \/ toRegister[n] # {}
  BY DEF RegisterSlot, RegisterFeeder, PodEnded, RegisterTenant, RegisterByHand, DeregisterTenant
<1>5. \/ n \notin DOMAIN reg'
      \/ n \in DOMAIN reg /\ reg'[n] = reg[n]
      \/ reg'[n].pod = pod[n].no /\ (reg'[n].armed => pod[n].is = "up")
  <2>1. CASE RegisterByHand(m)
    BY <1>7, <2>1 DEF RegisterByHand, Put
  <2>2. CASE ~RegisterByHand(m)
    BY <2>2 DEF RegisterSlot, RegisterFeeder, PodEnded, RegisterTenant, DeregisterTenant, Put, Drop
  <2> QED BY <2>1, <2>2
<1> QED BY <1>0, <1>1, <1>2, <1>3, <1>4, <1>5, <1>7, FineIfNothingComes

LEMMA FineByArming ==
    ASSUME IInv, NEW n \in Names, (\E m \in Names : ArmLook(m)) \/ ArmSet \/ AddPending
    PROVE  Fine(n)'
<1> USE DEF IInv
<1>0. TypeOK /\ Fine(n) /\ UNCHANGED <<world, feeder, slots, late, watch>>
  BY DEF ReclaimInv, Fine, ArmLook, ArmSet, AddPending
<1>1. NoneCommits(n)
  BY <1>0, IdleCommitsNone
<1>2. \/ n \notin DOMAIN reg'
      \/ n \in DOMAIN reg /\ reg'[n].pod = reg[n].pod /\ (reg'[n].armed => reg[n].armed \/ armer = n)
  BY DEF ArmLook, ArmSet, AddPending, TypeOK
<1>3. armer' = n => armer = n \/ pod[n].is = "up"
  BY NamesAssumption DEF ArmLook, ArmSet, AddPending, SockAlive
<1> QED BY <1>0, <1>1, <1>2, <1>3, FineIfNothingComes DEF world

LEMMA FineByControl ==
    ASSUME IInv, NEW n \in Names, Joined \/ \E then \in {"off", "poll", "event"} : Disable(then)
    PROVE  Fine(n)'
<1> USE DEF IInv
<1>0. TypeOK /\ Fine(n) /\ UNCHANGED <<world, feeder, slots, reg, late, armer>>
  BY DEF ReclaimInv, Fine, Joined, Disable
<1>1. NoneCommits(n)
  <2>1. CASE UNCHANGED watch
    BY <2>1, IdleCommitsNone
  <2>2. CASE ~UNCHANGED watch
    <3>1. PICK w \in Watchers : Goes(w, Top(http))
      BY <2>2 DEF Joined, Disable, Goes
    <3> QED BY <1>0, <3>1, UncommittedGo DEF Top, Committed
  <2> QED BY <2>1, <2>2
<1> QED BY <1>0, <1>1, FineIfNothingComes DEF world

LEMMA FineByWatching ==
    ASSUME IInv, NEW n \in Names, NEW w \in Watchers,
           Ends(w) \/ Snapshot(w) \/ \E m \in Names : Visit(w, m) \/ Event(w, m)
    PROVE  Fine(n)'
<1> USE DEF IInv
<1>0. TypeOK /\ Fine(n) /\ UNCHANGED <<world, feeder, slots, reg, late, armer>>
  BY DEF ReclaimInv, Fine, Ends, Snapshot, Visit, Event
<1>1. PICK step : Goes(w, step) /\ step.at \in {"off", "pass", "look"}
  <2>1. CASE Ends(w)
    BY <2>1 DEF Ends, Off
  <2>2. CASE Snapshot(w)
    <3>1. watch[w] \in Work /\ watch[w].at = "pass"
      BY <2>2, WatchIsTyped DEF Snapshot
    <3>2. [watch[w] EXCEPT !.todo = DOMAIN reg].at = "pass"
      BY <3>1 DEF Work
    <3> QED BY <2>2, <3>2 DEF Snapshot
  <2>3. ASSUME NEW m \in Names, Visit(w, m)
        PROVE  \E step : Goes(w, step) /\ step.at \in {"off", "pass", "look"}
    <3>1. watch[w] \in Work
      BY <2>3, WatchIsTyped DEF Visit
    <3>2. PICK at \in {"look", "pass"}, name \in {m, Nobody} :
              Goes(w, [watch[w] EXCEPT !.todo = @ \ {m}, !.at = at, !.name = name])
      BY <2>3 DEF Visit
    <3>3. [watch[w] EXCEPT !.todo = @ \ {m}, !.at = at, !.name = name].at = at
      BY <3>1 DEF Work
    <3> QED BY <3>2, <3>3
  <2>4. ASSUME NEW m \in Names, Event(w, m)
        PROVE  \E step : Goes(w, step) /\ step.at \in {"off", "pass", "look"}
    <3>1. watch[w] \in Work
      BY <2>4, WatchIsTyped DEF Event
    <3>2. [watch[w] EXCEPT !.at = "look", !.name = m].at = "look"
      BY <3>1 DEF Work
    <3> QED BY <2>4, <3>2 DEF Event
  <2> QED BY <2>1, <2>2, <2>3, <2>4
<1>2. NoneCommits(n)
  BY <1>0, <1>1, UncommittedGo DEF Committed
<1> QED BY <1>0, <1>2, FineIfNothingComes DEF world

\* Who is found armed and not alive has been up and has died.
LEMMA NotAliveIsGone ==
    ASSUME TypeOK, NEW n \in DOMAIN reg, Spared(n), reg[n].armed, ~Alive(n)
    PROVE  pod[n].is = "gone"
<1>1. pod[n].is \in {"up", "gone"} /\ reg[n].pod = pod[n].no
  BY DEF Spared
<1>2. pod[n] \in [no : 0 .. MaxPods, is : {"none", "starting", "up", "gone", "failed"}]
  BY DEF TypeOK
<1>3. pod[n].is = "up" => pod[n] = [no |-> pod[n].no, is |-> "up"]
  BY <1>2
<1> QED BY <1>1, <1>3 DEF Alive, SockAlive

LEMMA FineByLook ==
    ASSUME IInv, NEW n \in Names, NEW w \in Watchers, Look(w)
    PROVE  Fine(n)'
<1> USE DEF IInv
<1>0. TypeOK /\ Fine(n) /\ UNCHANGED <<world, feeder, slots, reg, late, armer>>
  BY DEF ReclaimInv, Fine, Look
<1>1. watch[w] \in Work /\ watch[w].name \in Names
  BY WatchIsTyped DEF Look, At, Stages, Work
<1>2. CASE Goes(w, InPass(w))
  <2>1. InPass(w).at = "pass"
    BY <1>1 DEF InPass, Work
  <2>2. NoneCommits(n)
    BY <1>0, <1>2, <2>1, UncommittedGo DEF Committed
  <2> QED BY <1>0, <2>2, FineIfNothingComes DEF world
<1>3. CASE /\ Goes(w, Stage(w, "clear"))
           /\ watch[w].name \in DOMAIN reg /\ reg[watch[w].name].armed /\ ~Alive(watch[w].name)
  <2>1. watch'[w].at = "clear" /\ watch'[w].name = watch[w].name
    BY <1>0, <1>1, <1>3, OthersGoOn DEF Stage, Work
  <2>2. \A v \in Watchers \ {w} : watch'[v] = watch[v]
    BY <1>0, <1>3, OthersGoOn
  <2>3. CASE watch[w].name # n
    <3>1. NoneCommits(n)
      BY <2>1, <2>2, <2>3 DEF NoneCommits, Reclaiming
    <3> QED BY <1>0, <3>1, FineIfNothingComes DEF world
  <2>4. CASE watch[w].name = n
    <3> SUFFICES ASSUME clean[n] PROVE Spared(n)' /\ Whole(n)'
      BY <1>0 DEF Fine, world
    <3>1. Spared(n) /\ Whole(n)
      BY <1>0 DEF Fine
    <3>2. pod[n].is = "gone"
      BY <1>0, <1>3, <2>4, <3>1, NotAliveIsGone
    <3>3. Spared(n)'
      BY <1>0, <3>1, <3>2 DEF Spared, world
    <3>4. Whole(n)'
      BY <1>0, <2>1, <2>2, <3>1 DEF Whole, Reclaiming, world
    <3> QED BY <3>3, <3>4
  <2> QED BY <2>3, <2>4
<1> QED BY <1>2, <1>3 DEF Look

LEMMA FineByPipeline ==
    ASSUME IInv, NEW n \in Names, NEW w \in Watchers, Clear(w) \/ Served(w) \/ Unserved(w) \/ Finish(w)
    PROVE  Fine(n)'
<1> USE DEF IInv
<1>0. TypeOK /\ Fine(n) /\ UNCHANGED <<world, armer>>
  BY DEF ReclaimInv, Fine, Clear, Served, Unserved, Finish
<1>1. watch[w] \in Work /\ watch[w].name \in Names /\ watch[w].at \in Committed
  BY WatchIsTyped DEF Clear, Served, Unserved, Finish, At, Stages, Work, Committed
<1>2. /\ watch'[w].at = "pass" \/ watch'[w].name = watch[w].name
      /\ watch'[w].at = "answered" => Served(w)
      /\ Clear(w) \/ watch'[w].at \in {"answered", "unanswered", "pass"}
      /\ Clear(w) \/ watch[w].at # "clear"
  <2>1. CASE Clear(w)
    BY <1>0, <1>1, <2>1, OthersGoOn DEF Clear, Stage, Work
  <2>2. CASE Served(w)
    BY <1>0, <1>1, <2>2, OthersGoOn DEF Served, Stage, Work, At
  <2>3. CASE Unserved(w)
    BY <1>0, <1>1, <2>3, OthersGoOn DEF Unserved, Stage, Work, At
  <2>4. CASE Finish(w)
    <3>1. watch'[w] = InPass(w)
      BY <1>0, <2>4, OthersGoOn DEF Finish
    <3>2. watch'[w].at = "pass"
      BY <1>1, <3>1 DEF InPass, Work
    <3> QED BY <2>4, <3>2 DEF Finish, At
  <2> QED BY <2>1, <2>2, <2>3, <2>4
<1>3. \A v \in Watchers \ {w} : watch'[v] = watch[v]
  BY <1>0, OthersGoOn DEF Clear, Served, Unserved, Finish
<1>4. /\ feeder' \subseteq feeder /\ slots' \subseteq slots
      /\ n \in DOMAIN reg' => n \in DOMAIN reg /\ reg'[n] = reg[n]
      /\ n # watch[w].name => late'[n] = late[n]
      /\ Clear(w) => watch[w].name \notin feeder'
      /\ Served(w) => watch[w].name \notin slots'
  BY <1>0, <1>1 DEF Clear, Served, Unserved, Finish, Drop, TypeOK
<1> SUFFICES ASSUME clean[n] PROVE Spared(n)' /\ Whole(n)'
  BY <1>0 DEF Fine, world
<1>5. Spared(n) /\ Whole(n)
  BY <1>0 DEF Fine
<1>6. watch[w].name = n => pod[n].is = "gone"
  BY <1>1, <1>5 DEF Spared, Reclaiming, Off, Committed
<1>7. Spared(n)'
  BY <1>0, <1>1, <1>2, <1>3, <1>4, <1>5, <1>6 DEF Spared, Reclaiming, Committed, world
<1>8. \A v \in Watchers \ {w} : Reclaiming(v, n)' =>
          (watch'[v].at # "clear" => n \notin feeder') /\ (watch'[v].at = "answered" => n \notin slots')
  BY <1>3, <1>4, <1>5 DEF Whole, Reclaiming
<1>9. Reclaiming(w, n)' =>
          (watch'[w].at # "clear" => n \notin feeder') /\ (watch'[w].at = "answered" => n \notin slots')
  <2> SUFFICES ASSUME Reclaiming(w, n)'
               PROVE  n \notin feeder' /\ (watch'[w].at = "answered" => n \notin slots')
    OBVIOUS
  <2>1. watch[w].name = n
    BY <1>2 DEF Reclaiming, Committed
  <2>2. Reclaiming(w, n)
    BY <1>1, <2>1 DEF Reclaiming, Off, Committed
  <2> QED BY <1>2, <1>4, <1>5, <2>1, <2>2 DEF Whole
<1>10. Whole(n)'
  BY <1>0, <1>5, <1>8, <1>9 DEF Whole, world
<1> QED BY <1>7, <1>10

LEMMA FineByLatePost ==
    ASSUME IInv, NEW n \in Names, NEW m \in Names, ServedLate(m)
    PROVE  Fine(n)'
<1> USE DEF IInv
<1>0. TypeOK /\ Fine(n) /\ UNCHANGED <<world, feeder, reg, watch, armer>> /\ slots' \subseteq slots
  BY DEF ReclaimInv, Fine, ServedLate
<1>1. NoneCommits(n)
  BY <1>0, IdleCommitsNone
<1>2. CASE m # n
  <2>1. late'[n] = late[n]
    BY <1>2 DEF ServedLate, TypeOK
  <2> QED BY <1>0, <1>1, <2>1, FineIfNothingComes DEF world
<1>3. CASE m = n
  <2> SUFFICES ASSUME clean[n] PROVE Spared(n)' /\ Whole(n)'
    BY <1>0 DEF Fine, world
  <2>1. Spared(n) /\ Whole(n) /\ late[n] # 0
    BY <1>0, <1>3 DEF Fine, ServedLate, TypeOK
  <2>2. Spared(n)'
    BY <1>0, <2>1 DEF Spared, world
  <2>3. Whole(n)'
    BY <1>0, <2>1 DEF Whole, Reclaiming, world
  <2> QED BY <2>2, <2>3
<1> QED BY <1>2, <1>3

LEMMA ReclaimIsKept == IInv /\ [Next]_vars => ReclaimInv'
<1> SUFFICES ASSUME IInv, [Next]_vars, NEW n \in Names PROVE Fine(n)'
    BY DEF ReclaimInv, Fine
<1>1. CASE UNCHANGED vars
  BY <1>1 DEF IInv, ReclaimInv, Fine, Spared, Whole, Reclaiming, vars, world
<1>2. CASE Next
  BY <1>2, FineByPods, FineByRegistrations, FineByArming, FineByControl, FineByWatching,
     FineByLook, FineByPipeline, FineByLatePost DEF Next, Works
<1> QED BY <1>1, <1>2

LEMMA IInvAtFirst == Init => IInv
<1> SUFFICES ASSUME Init PROVE Numbered /\ ReclaimInv
    BY TypeAtFirst DEF IInv
<1> QED BY DEF Init, Numbered, ReclaimInv

---------------------------------------------------------------------------
(* The theorems *)

\* The state of the booster, with what can be under way about a name.
THEOREM ReclaimInvariant == Spec => []IInv
<1>1. IInv /\ [Next]_vars => IInv'
  BY TypeIsKept, NumberedIsKept, ReclaimIsKept DEF IInv
<1> QED BY IInvAtFirst, <1>1, PTL DEF Spec

\* Tables, threads and requests are of their types.
THEOREM BoosterTypeCorrect == Spec => []TypeOK
<1>1. IInv => TypeOK
  BY DEF IInv
<1> QED BY ReclaimInvariant, <1>1, PTL

\* A step of the booster that takes something from n is of a pipeline past its recheck,
\* or serves a POST that was left over.
LEMMA TakersAreCommitted ==
    ASSUME TypeOK, Next, watch' # watch \/ late' # late, NEW n \in Names,
           n \in (feeder \ feeder') \cup (slots \ slots') \cup (DOMAIN reg \ DOMAIN reg')
    PROVE  late[n] # 0 \/ \E w \in Watchers : Reclaiming(w, n)
<1>1. CASE UNCHANGED watch
  <2>1. PICK m \in Names : ServedLate(m)
    <3>1. \A w \in Watchers : Unserved(w) => UNCHANGED <<feeder, slots, reg>>
      BY DEF Unserved
    <3>2. late' # late
      BY <1>1
    <3> QED
      BY <3>1, <3>2 DEF Next, Works, Allocate, PodMoves, RegisterSlot, RegisterFeeder, PodEnded, RegisterTenant,
         RegisterByHand, DeregisterTenant, ArmLook, Event, AddPending, ArmSet, Disable, Joined, Ends,
         Snapshot, Visit, Look, Clear, Served, Finish
  <2>2. n = m
    BY <2>1 DEF ServedLate
  <2> QED BY <2>1, <2>2 DEF ServedLate, TypeOK
<1>2. CASE ~UNCHANGED watch
  <2>1. PICK w \in Watchers : Clear(w) \/ Served(w) \/ Finish(w)
    BY <1>2 DEF Next, Works, Allocate, PodMoves, RegisterSlot, RegisterFeeder, PodEnded, RegisterTenant,
       RegisterByHand, DeregisterTenant, ArmLook, ServedLate, Event, AddPending, ArmSet, Disable, Joined, Ends,
       Snapshot, Visit, Look, Unserved
  <2>2. watch[w].name = n
    BY <2>1 DEF Clear, Served, Finish, Drop
  <2>3. watch[w] # Off /\ watch[w].at \in Committed
    BY <2>1 DEF Clear, Served, Finish, At, Committed
  <2> QED BY <2>2, <2>3 DEF Reclaiming
<1> QED BY <1>1, <1>2

\* No pod that came to a name at rest loses anything to the booster before it has been
\* up and has died, for any number of watchers, events and posts.
THEOREM OnlyTheGoneAreTaken == Spec => SparedUntilSeenAndDead
<1>1. IInv /\ [Next]_vars =>
        [\A n \in Names :
            /\ clean[n] /\ OfThePipeline
            /\ n \in (feeder \ feeder') \cup (slots \ slots') \cup (DOMAIN reg \ DOMAIN reg')
            => pod[n].is = "gone"]_vars
  <2> SUFFICES ASSUME IInv, Next, NEW n \in Names, clean[n], OfThePipeline,
                      n \in (feeder \ feeder') \cup (slots \ slots') \cup (DOMAIN reg \ DOMAIN reg')
               PROVE  pod[n].is = "gone"
    OBVIOUS
  <2>1. TypeOK /\ Spared(n)
    BY DEF IInv, ReclaimInv
  <2>2. late[n] # 0 \/ \E w \in Watchers : Reclaiming(w, n)
    BY <2>1, TakersAreCommitted DEF OfThePipeline
  <2> QED BY <2>1, <2>2 DEF Spared
<1> QED BY ReclaimInvariant, <1>1, PTL DEF Spec, SparedUntilSeenAndDead

\* What the booster forgets is out of the feeder's table, and out of the slot table if
\* its POST was answered.
THEOREM ReclaimedWhole == Spec => ReclaimIsWhole
<1>1. IInv /\ [Next]_vars =>
        [\A n \in Names, w \in Watchers :
            /\ clean[n] /\ Finish(w) /\ watch[w].name = n /\ n \in DOMAIN reg
            => n \notin feeder /\ (watch[w].at = "answered" => n \notin slots)]_vars
  <2> SUFFICES ASSUME IInv, NEW n \in Names, NEW w \in Watchers, clean[n], Finish(w), watch[w].name = n
               PROVE  n \notin feeder /\ (watch[w].at = "answered" => n \notin slots)
    OBVIOUS
  <2>1. Whole(n)
    BY DEF IInv, ReclaimInv
  <2>2. Reclaiming(w, n) /\ watch[w].at # "clear"
    BY DEF Finish, At, Reclaiming, Committed
  <2> QED BY <2>1, <2>2 DEF Whole
<1> QED BY ReclaimInvariant, <1>1, PTL DEF Spec, ReclaimIsWhole

=============================================================================
