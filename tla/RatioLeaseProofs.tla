-------------------------- MODULE RatioLeaseProofs --------------------------
(***************************************************************************)
(* Safety of the share table for any number of tenants, threads, shares    *)
(* and leases, and for a clock without a bound: the invariants that TLC    *)
(* checks in MCRatioLease, and the refinement of ShareContract.            *)
(***************************************************************************)
EXTENDS RatioLease, TLAPS

\* The time a waiting call works with is never ahead of the clock.
NowIsPast == \A c \in Threads : pend[c] # NoCall => pend[c].now <= clock

\* The feeder's own thread only ever asks for what has run out.
FeederOnlyExpires == pend[Feeder] # NoCall => pend[Feeder].op = "restore" /\ pend[Feeder].force = {}

\* The inductive invariant.
IInv == /\ TypeOK
        /\ NoInheritedLease
        /\ OffContractIsAccountedFor
        /\ OneReasonEach
        /\ NowIsPast
        /\ FeederOnlyExpires

---------------------------------------------------------------------------
(* What the dictionary operators of PyDict return, preserve and bound. *)

\* Removing keys removes exactly these.
LEMMA DropIs ==
    ASSUME NEW d, NEW S
    PROVE  /\ DOMAIN Drop(d, S) = DOMAIN d \ S
           /\ \A k \in DOMAIN d \ S : Drop(d, S)[k] = d[k]
BY DEF Drop

\* A removal keeps the type of the values.
LEMMA DropType ==
    ASSUME NEW T, NEW d, NEW S, d \in [DOMAIN d -> T]
    PROVE  Drop(d, S) \in [DOMAIN Drop(d, S) -> T]
BY DEF Drop

\* The empty dictionary has no key, hence any type of values.
LEMMA EmptyDictIs ==
    ASSUME NEW T
    PROVE  DOMAIN EmptyDict = {} /\ EmptyDict \in [DOMAIN EmptyDict -> T]
BY DEF EmptyDict

---------------------------------------------------------------------------
(* The calls that wait for the lock *)

\* A lease lasts a natural number of time units.
LEMMA TtlIsNat == \A ttl \in Leases \cup {DefaultLease, OptOut} : ttl \in Nat
<1>1. Leases \subseteq Nat
  BY LeaseAssumption
<1>2. DefaultLease \in Nat
  BY LeaseAssumption
<1>q. QED
  BY <1>1, <1>2 DEF OptOut

\* What a waiting set_ratios call has in hand.
LEMMA SetCallIs ==
    ASSUME TypeOK, NEW c \in Threads, pend[c].op = "set"
    PROVE  /\ pend[c] \in SetCalls
           /\ pend[c].now \in Nat
           /\ pend[c].ttl \in Nat
           /\ DOMAIN pend[c].ratios \subseteq Tenants
           /\ \A n \in DOMAIN pend[c].ratios : pend[c].ratios[n] \in Ratios \cup {NotANumber}
           /\ pend[c].now + pend[c].ttl \in Nat
<1>1. pend[c] \in SetCalls
  BY DEF TypeOK, NoCall, SetCalls, RestoreCalls
<1>2. /\ pend[c].ratios \in Requests
      /\ pend[c].now \in Nat
      /\ pend[c].ttl \in Leases \cup {DefaultLease, OptOut}
  BY <1>1 DEF SetCalls
<1>5. pend[c].ttl \in Nat
  BY <1>2, TtlIsNat
<1>3. PICK S \in SUBSET Tenants \ {{}} : pend[c].ratios \in [S -> Ratios \cup {NotANumber}]
  BY <1>2 DEF Requests
<1>4. DOMAIN pend[c].ratios = S /\ \A n \in S : pend[c].ratios[n] \in Ratios \cup {NotANumber}
  BY <1>3
<1>q. QED
  BY <1>1, <1>2, <1>5, <1>3, <1>4

\* What a waiting _expire_leases call has in hand.
LEMMA RestoreCallIs ==
    ASSUME TypeOK, NEW c \in Threads, pend[c].op = "restore"
    PROVE  /\ pend[c] \in RestoreCalls
           /\ pend[c].now \in Nat
           /\ Due(pend[c]) \subseteq DOMAIN lease
<1>1. pend[c] \in RestoreCalls
  BY DEF TypeOK, NoCall, SetCalls, RestoreCalls
<1>q. QED
  BY <1>1 DEF RestoreCalls, Due

\* A set_ratios call that gets the lock writes the shares of some known names,
\* and leases or waives these and perhaps one name more.
LEMMA SetRatiosIs ==
    ASSUME NEW c \in Threads, SetRatios(c)
    PROVE  \E done \in SUBSET DOMAIN tenants, failed \in SUBSET DOMAIN tenants :
              /\ pend[c].op = "set"
              /\ done \cup failed \subseteq DOMAIN pend[c].ratios
              /\ \A n \in done : pend[c].ratios[n] # NotANumber
              /\ SetRatiosBody(c, done, failed)
<1> DEFINE known == DOMAIN pend[c].ratios \cap DOMAIN tenants
           bad   == {n \in known : pend[c].ratios[n] = NotANumber}
<1>1. CASE bad = {} /\ SetRatiosBody(c, known, {})
  BY <1>1 DEF SetRatios
<1>2. CASE \E n \in bad, done \in SUBSET (known \ bad) : SetRatiosBody(c, done, {n})
  <2>1. PICK n \in bad, done \in SUBSET (known \ bad) : SetRatiosBody(c, done, {n})
    BY <1>2
  <2>2. {n} \in SUBSET DOMAIN tenants /\ done \in SUBSET DOMAIN tenants
    OBVIOUS
  <2>q. QED
    BY <2>1, <2>2 DEF SetRatios
<1>q. QED
  BY <1>1, <1>2 DEF SetRatios

---------------------------------------------------------------------------
(* Every action preserves the inductive invariant *)

\* The invariant holds of the empty table.
LEMMA InitInv == Init => IInv
<1> SUFFICES ASSUME Init PROVE IInv
  OBVIOUS
<1>1. TypeOK
  BY EmptyDictIs DEF Init, TypeOK
<1>2. NoInheritedLease /\ OffContractIsAccountedFor /\ OneReasonEach
  BY EmptyDictIs DEF Init, NoInheritedLease, OffContractIsAccountedFor, OneReasonEach
<1>3. NowIsPast /\ FeederOnlyExpires
  BY DEF Init, NowIsPast, FeederOnlyExpires, Threads
<1>q. QED
  BY <1>1, <1>2, <1>3 DEF IInv

\* Time passes.
LEMMA TickInv == IInv /\ Tick => IInv'
<1> SUFFICES ASSUME IInv, Tick PROVE IInv'
  OBVIOUS
<1>1. TypeOK'
  BY DEF IInv, Tick, TypeOK
<1>2. NowIsPast'
  <2>1. \A c \in Threads : pend[c] # NoCall => pend[c].now \in Nat
    BY DEF IInv, TypeOK, SetCalls, RestoreCalls
  <2>q. QED
    BY <2>1 DEF IInv, Tick, NowIsPast, TypeOK
<1>q. QED
  BY <1>1, <1>2 DEF IInv, Tick, NoInheritedLease, OffContractIsAccountedFor,
                    OneReasonEach, FeederOnlyExpires

\* A registration sets share and contract together and forgets the lease.
LEMMA RegisterInv ==
    ASSUME IInv, NEW n \in Tenants, NEW r \in Ratios, Register(n, r)
    PROVE  IInv'
<1> DEFINE row == [contract |-> r, ratio |-> r]
<1>1. /\ DOMAIN tenants' = DOMAIN tenants \cup {n}
      /\ tenants'[n] = row
      /\ \A m \in DOMAIN tenants \ {n} : tenants'[m] = tenants[m]
      /\ tenants' \in [DOMAIN tenants' -> [contract : Ratios, ratio : Ratios]]
  BY DEF Register, Put, IInv, TypeOK
<1>2. /\ DOMAIN lease' = DOMAIN lease \ {n}
      /\ lease' \in [DOMAIN lease' -> Nat]
  BY DropIs, DropType DEF Register, IInv, TypeOK
<1>3. clock' = clock /\ pend' = pend /\ waived' = waived \ {n} /\ stranded' = stranded \ {n}
  BY DEF Register
<1>4. TypeOK'
  BY <1>1, <1>2, <1>3 DEF IInv, TypeOK
<1>5. NoInheritedLease' /\ OneReasonEach'
  BY <1>1, <1>2, <1>3 DEF IInv, NoInheritedLease, OneReasonEach
<1>6. OffContractIsAccountedFor'
  BY <1>1, <1>2, <1>3 DEF IInv, OffContractIsAccountedFor
<1>q. QED
  BY <1>3, <1>4, <1>5, <1>6 DEF IInv, NowIsPast, FeederOnlyExpires

\* A tenant leaves with its lease and its waiver.
LEMMA DeregisterInv ==
    ASSUME IInv, NEW n \in Tenants, Deregister(n)
    PROVE  IInv'
<1>1. /\ DOMAIN tenants' = DOMAIN tenants \ {n}
      /\ \A m \in DOMAIN tenants \ {n} : tenants'[m] = tenants[m]
      /\ tenants' \in [DOMAIN tenants' -> [contract : Ratios, ratio : Ratios]]
  BY DropIs, DropType DEF Deregister, IInv, TypeOK
<1>2. /\ DOMAIN lease' = DOMAIN lease \ {n}
      /\ lease' \in [DOMAIN lease' -> Nat]
  BY DropIs, DropType DEF Deregister, IInv, TypeOK
<1>3. clock' = clock /\ pend' = pend /\ waived' = waived \ {n} /\ stranded' = stranded \ {n}
  BY DEF Deregister
<1>4. TypeOK'
  BY <1>1, <1>2, <1>3 DEF IInv, TypeOK
<1>5. NoInheritedLease' /\ OneReasonEach'
  BY <1>1, <1>2, <1>3 DEF IInv, NoInheritedLease, OneReasonEach
<1>6. OffContractIsAccountedFor'
  BY <1>1, <1>2, <1>3 DEF IInv, OffContractIsAccountedFor
<1>q. QED
  BY <1>3, <1>4, <1>5, <1>6 DEF IInv, NowIsPast, FeederOnlyExpires

\* A call that reads the clock and waits: only what is pending changes.
LEMMA ReadInv ==
    ASSUME IInv, NEW c \in Threads,
           NEW call \in SetCalls \cup RestoreCalls, call.now = clock,
           c = Feeder => call.op = "restore" /\ call.force = {},
           pend' = [pend EXCEPT ![c] = call],
           UNCHANGED <<clock, tenants, lease, waived, stranded>>
    PROVE  IInv'
<1>1. pend' \in [Threads -> {NoCall} \cup SetCalls \cup RestoreCalls]
  BY DEF IInv, TypeOK
<1>2. TypeOK'
  BY <1>1 DEF IInv, TypeOK
<1>3. NowIsPast'
  BY DEF IInv, NowIsPast, TypeOK
<1>4. FeederOnlyExpires'
  BY DEF IInv, FeederOnlyExpires, TypeOK, Threads
<1>q. QED
  BY <1>2, <1>3, <1>4 DEF IInv, NoInheritedLease, OffContractIsAccountedFor, OneReasonEach

\* A call that is over: only what is pending changes.
LEMMA DoneInv ==
    ASSUME TypeOK, NowIsPast, FeederOnlyExpires, NEW c \in Threads,
           pend' = [pend EXCEPT ![c] = NoCall], clock' = clock
    PROVE  /\ pend' \in [Threads -> {NoCall} \cup SetCalls \cup RestoreCalls]
           /\ NowIsPast'
           /\ FeederOnlyExpires'
<1>1. pend' \in [Threads -> {NoCall} \cup SetCalls \cup RestoreCalls]
  BY DEF TypeOK
<1>2. NowIsPast'
  BY DEF NowIsPast, TypeOK
<1>3. FeederOnlyExpires'
  BY DEF FeederOnlyExpires, TypeOK, Threads
<1>q. QED
  BY <1>1, <1>2, <1>3

\* What set_ratios changes under the lock: it writes the shares of done, and the
\* leases of these and of failed.
Writes(done, failed) ==
    /\ DOMAIN tenants' = DOMAIN tenants
    /\ \A n \in done : tenants'[n].contract = tenants[n].contract
    /\ \A n \in DOMAIN tenants \ done : tenants'[n] = tenants[n]
    /\ tenants' \in [DOMAIN tenants -> [contract : Ratios, ratio : Ratios]]
    /\ lease' \in [DOMAIN lease' -> Nat]
    /\ \/ /\ DOMAIN lease' = DOMAIN lease \ (done \cup failed)
          /\ waived' = waived \cup done
          /\ stranded' = (stranded \cup (failed \cap DOMAIN lease)) \ done
       \/ /\ DOMAIN lease' = DOMAIN lease \cup (done \cup failed)
          /\ waived' = waived \ (done \cup failed)
          /\ stranded' = stranded \ (done \cup failed)

\* set_ratios under the lock: what it changes, for the names it knows.
LEMMA SetRatiosBodyIs ==
    ASSUME IInv, NEW c \in Threads, pend[c].op = "set",
           NEW done \in SUBSET DOMAIN tenants, NEW failed \in SUBSET DOMAIN tenants,
           done \cup failed \subseteq DOMAIN pend[c].ratios,
           \A n \in done : pend[c].ratios[n] # NotANumber,
           SetRatiosBody(c, done, failed)
    PROVE  Writes(done, failed)
<1> DEFINE touched == done \cup failed
<1>1. tenants' = [n \in DOMAIN tenants |->
                     IF n \in done THEN [tenants[n] EXCEPT !.ratio = pend[c].ratios[n]]
                                   ELSE tenants[n]]
  BY DEF SetRatiosBody
<1>2. tenants \in [DOMAIN tenants -> [contract : Ratios, ratio : Ratios]]
  BY DEF IInv, TypeOK
<1>3. \A n \in done : pend[c].ratios[n] \in Ratios
  BY SetCallIs DEF IInv
<1>4. /\ DOMAIN tenants' = DOMAIN tenants
      /\ \A n \in done : tenants'[n].contract = tenants[n].contract
      /\ \A n \in DOMAIN tenants \ done : tenants'[n] = tenants[n]
  BY <1>1, <1>2
<1>5. tenants' \in [DOMAIN tenants -> [contract : Ratios, ratio : Ratios]]
  BY <1>1, <1>2, <1>3
<1>6. CASE pend[c].ttl = OptOut
  <2>1. /\ lease' = Drop(lease, touched) /\ waived' = waived \cup done
        /\ stranded' = (stranded \cup (failed \cap DOMAIN lease)) \ done
    BY <1>6 DEF SetRatiosBody
  <2>2. lease \in [DOMAIN lease -> Nat]
    BY DEF IInv, TypeOK
  <2>3. DOMAIN lease' = DOMAIN lease \ touched /\ lease' \in [DOMAIN lease' -> Nat]
    BY <2>1, <2>2 DEF Drop
  <2>q. QED
    BY <1>4, <1>5, <2>1, <2>3 DEF Writes
<1>7. CASE pend[c].ttl # OptOut
  <2> DEFINE expire == pend[c].now + pend[c].ttl
  <2>1. /\ lease' = Put(lease, touched, expire) /\ waived' = waived \ touched
        /\ stranded' = stranded \ touched
    BY <1>7 DEF SetRatiosBody
  <2>2. lease \in [DOMAIN lease -> Nat] /\ expire \in Nat
    BY SetCallIs DEF IInv, TypeOK
  <2> HIDE DEF expire
  <2>3. DOMAIN lease' = DOMAIN lease \cup touched /\ lease' \in [DOMAIN lease' -> Nat]
    BY <2>1, <2>2 DEF Put
  <2>q. QED
    BY <1>4, <1>5, <2>1, <2>3 DEF Writes
<1>q. QED
  BY <1>6, <1>7

\* The same of the whole call, whatever names it reaches before a value that is
\* refused.
LEMMA SetRatiosStep ==
    ASSUME IInv, NEW c \in Threads, SetRatios(c)
    PROVE  \E done \in SUBSET DOMAIN tenants, failed \in SUBSET DOMAIN tenants :
              Writes(done, failed) /\ clock' = clock /\ pend' = [pend EXCEPT ![c] = NoCall]
<1>1. PICK done \in SUBSET DOMAIN tenants, failed \in SUBSET DOMAIN tenants :
              /\ pend[c].op = "set"
              /\ done \cup failed \subseteq DOMAIN pend[c].ratios
              /\ \A n \in done : pend[c].ratios[n] # NotANumber
              /\ SetRatiosBody(c, done, failed)
  BY SetRatiosIs
<1>2. clock' = clock /\ pend' = [pend EXCEPT ![c] = NoCall]
  BY <1>1 DEF SetRatiosBody
<1>3. WITNESS done \in SUBSET DOMAIN tenants, failed \in SUBSET DOMAIN tenants
<1>q. QED
  BY <1>1, <1>2, SetRatiosBodyIs

\* A set_ratios call preserves the invariant, however far it gets.
LEMMA SetRatiosInv ==
    ASSUME IInv, NEW c \in Callers, SetRatios(c)
    PROVE  IInv'
<1>0. c \in Threads
  BY DEF Threads
<1>1. PICK done \in SUBSET DOMAIN tenants, failed \in SUBSET DOMAIN tenants :
          Writes(done, failed) /\ clock' = clock /\ pend' = [pend EXCEPT ![c] = NoCall]
  BY <1>0, SetRatiosStep
<1>2. /\ pend' \in [Threads -> {NoCall} \cup SetCalls \cup RestoreCalls]
      /\ NowIsPast' /\ FeederOnlyExpires'
  BY <1>0, <1>1, DoneInv DEF IInv
<1>3. TypeOK'
  BY <1>1, <1>2 DEF IInv, TypeOK, Writes
<1>4. NoInheritedLease' /\ OneReasonEach'
  BY <1>1 DEF IInv, NoInheritedLease, OneReasonEach, Writes
<1>5. OffContractIsAccountedFor'
  BY <1>1 DEF IInv, OffContractIsAccountedFor, Writes
<1>q. QED
  BY <1>2, <1>3, <1>4, <1>5 DEF IInv

\* _expire_leases under the lock: what it changes.
LEMMA RestoreIs ==
    ASSUME IInv, NEW c \in Threads, Restore(c)
    PROVE  /\ DOMAIN tenants' = DOMAIN tenants
           /\ \A n \in DOMAIN tenants :
                 tenants'[n] = IF n \in Due(pend[c])
                               THEN [contract |-> tenants[n].contract,
                                     ratio |-> tenants[n].contract]
                               ELSE tenants[n]
           /\ tenants' \in [DOMAIN tenants -> [contract : Ratios, ratio : Ratios]]
           /\ DOMAIN lease' = DOMAIN lease \ Due(pend[c])
           /\ \A n \in DOMAIN lease' : lease'[n] = lease[n]
           /\ lease' \in [DOMAIN lease' -> Nat]
           /\ pend' = [pend EXCEPT ![c] = NoCall] /\ clock' = clock
           /\ waived' = waived /\ stranded' = stranded
<1> DEFINE due == Due(pend[c])
<1>1. /\ tenants' = [n \in DOMAIN tenants |->
                        IF n \in due THEN [tenants[n] EXCEPT !.ratio = tenants[n].contract]
                                     ELSE tenants[n]]
      /\ lease' = Drop(lease, due)
      /\ pend' = [pend EXCEPT ![c] = NoCall] /\ clock' = clock
           /\ waived' = waived /\ stranded' = stranded
  BY DEF Restore
<1>2. /\ tenants \in [DOMAIN tenants -> [contract : Ratios, ratio : Ratios]]
      /\ lease \in [DOMAIN lease -> Nat]
  BY DEF IInv, TypeOK
<1> HIDE DEF due
<1>3. /\ DOMAIN tenants' = DOMAIN tenants
      /\ \A n \in DOMAIN tenants :
            tenants'[n] = IF n \in due
                          THEN [contract |-> tenants[n].contract,
                                ratio |-> tenants[n].contract]
                          ELSE tenants[n]
  BY <1>1, <1>2
<1>4. tenants' \in [DOMAIN tenants -> [contract : Ratios, ratio : Ratios]]
  BY <1>1, <1>2
<1>5. /\ DOMAIN lease' = DOMAIN lease \ due
      /\ \A n \in DOMAIN lease' : lease'[n] = lease[n]
      /\ lease' \in [DOMAIN lease' -> Nat]
  BY <1>1, <1>2 DEF Drop
<1>q. QED
  BY <1>1, <1>3, <1>4, <1>5 DEF due

\* The end of a lease takes the share back to the contract in the same step.
LEMMA RestoreInv ==
    ASSUME IInv, NEW c \in Threads, Restore(c)
    PROVE  IInv'
<1>1. /\ DOMAIN tenants' = DOMAIN tenants
      /\ \A n \in DOMAIN tenants :
            tenants'[n] = IF n \in Due(pend[c])
                          THEN [contract |-> tenants[n].contract,
                                ratio |-> tenants[n].contract]
                          ELSE tenants[n]
      /\ tenants' \in [DOMAIN tenants -> [contract : Ratios, ratio : Ratios]]
      /\ DOMAIN lease' = DOMAIN lease \ Due(pend[c])
      /\ lease' \in [DOMAIN lease' -> Nat]
      /\ pend' = [pend EXCEPT ![c] = NoCall] /\ clock' = clock
           /\ waived' = waived /\ stranded' = stranded
  BY RestoreIs
<1>2. /\ pend' \in [Threads -> {NoCall} \cup SetCalls \cup RestoreCalls]
      /\ NowIsPast' /\ FeederOnlyExpires'
  BY <1>1, DoneInv DEF IInv
<1>3. TypeOK'
  BY <1>1, <1>2 DEF IInv, TypeOK
<1>4. NoInheritedLease' /\ OneReasonEach'
  BY <1>1 DEF IInv, NoInheritedLease, OneReasonEach
<1>5. OffContractIsAccountedFor'
  BY <1>1 DEF IInv, OffContractIsAccountedFor
<1>q. QED
  BY <1>2, <1>3, <1>4, <1>5 DEF IInv

\* A set_ratios call is noted with the time it has read.
LEMMA SetRatiosReadInv ==
    ASSUME IInv, NEW c \in Callers, NEW ratios \in Requests,
           NEW ttl \in Leases \cup {DefaultLease, OptOut}, SetRatiosRead(c, ratios, ttl)
    PROVE  IInv'
<1> DEFINE call == [op |-> "set", now |-> clock, ratios |-> ratios, ttl |-> ttl]
<1>1. call \in SetCalls /\ call.now = clock
  BY DEF IInv, TypeOK, SetCalls
<1>2. pend' = [pend EXCEPT ![c] = call] /\ UNCHANGED <<clock, tenants, lease, waived, stranded>>
  BY DEF SetRatiosRead
<1>3. c \in Threads /\ c # Feeder
  BY ThreadsAssumption DEF Threads
<1> HIDE DEF call
<1>q. QED
  BY <1>1, <1>2, <1>3, ReadInv

\* A restore call is noted with the time it has read.
LEMMA RestoreReadInv ==
    ASSUME IInv, NEW c \in Threads, NEW force \in SUBSET Tenants,
           c = Feeder => force = {}, RestoreRead(c, force)
    PROVE  IInv'
<1> DEFINE call == [op |-> "restore", now |-> clock, force |-> force]
<1>1. call \in RestoreCalls /\ call.now = clock /\ call.op = "restore" /\ call.force = force
  BY DEF IInv, TypeOK, RestoreCalls
<1>2. pend' = [pend EXCEPT ![c] = call] /\ UNCHANGED <<clock, tenants, lease, waived, stranded>>
  BY DEF RestoreRead
<1> HIDE DEF call
<1>q. QED
  BY <1>1, <1>2, ReadInv

\* The invariant is inductive.
LEMMA NextInv == IInv /\ [Next]_vars => IInv'
<1> SUFFICES ASSUME IInv, [Next]_vars PROVE IInv'
  OBVIOUS
<1>1. CASE Tick
  BY <1>1, TickInv
<1>2. CASE FeederPass
  BY <1>2, RestoreReadInv DEF FeederPass, Threads
<1>3. CASE \E n \in Tenants, r \in Ratios : Register(n, r)
  BY <1>3, RegisterInv
<1>4. CASE \E n \in Tenants : Deregister(n)
  BY <1>4, DeregisterInv
<1>5. CASE \E c \in Callers, ratios \in Requests, ttl \in Leases \cup {DefaultLease, OptOut} :
              SetRatiosRead(c, ratios, ttl)
  BY <1>5, SetRatiosReadInv
<1>6. CASE \E c \in Callers, force \in SUBSET Tenants : RestoreRead(c, force)
  BY <1>6, RestoreReadInv, ThreadsAssumption DEF Threads
<1>7. CASE \E c \in Callers : SetRatios(c)
  BY <1>7, SetRatiosInv
<1>8. CASE \E c \in Threads : Restore(c)
  BY <1>8, RestoreInv
<1>9. CASE UNCHANGED vars
  BY <1>9 DEF vars, IInv, TypeOK, NoInheritedLease, OffContractIsAccountedFor,
              OneReasonEach, NowIsPast, FeederOnlyExpires
<1>q. QED
  BY <1>1, <1>2, <1>3, <1>4, <1>5, <1>6, <1>7, <1>8, <1>9 DEF Next

---------------------------------------------------------------------------
(* Theorems *)

\* The inductive invariant holds throughout.
THEOREM Invariant == Spec => []IInv
BY InitInv, NextInv, PTL DEF Spec

\* The tables have their types whatever the calls do to them.
THEOREM TypeCorrect == Spec => []TypeOK
<1>1. IInv => TypeOK
  BY DEF IInv
<1>q. QED
  BY <1>1, Invariant, PTL

\* A tenant never inherits the lease of the one that had its device ID before.
THEOREM NothingInherited == Spec => []NoInheritedLease
<1>1. IInv => NoInheritedLease
  BY DEF IInv
<1>q. QED
  BY <1>1, Invariant, PTL

\* A share off its contract has a lease, or was written by an opt-out, or is a loan
\* whose lease an opt-out has popped before it failed; and one of these only.
THEOREM AllAccountedFor == Spec => [](OffContractIsAccountedFor /\ OneReasonEach)
<1>1. IInv => OffContractIsAccountedFor /\ OneReasonEach
  BY DEF IInv
<1>q. QED
  BY <1>1, Invariant, PTL

\* The feeder's pass is the only step that ends a call of the feeder's thread.
LEMMA FeederPassIs ==
    ASSUME IInv, [Next]_vars, pend[Feeder] # NoCall, pend'[Feeder] = NoCall
    PROVE  Restore(Feeder)
<1>0. pend \in [Threads -> {NoCall} \cup SetCalls \cup RestoreCalls] /\ Feeder \in Threads
  BY DEF IInv, TypeOK, Threads
<1>1. pend' # pend
  OBVIOUS
<1>2. ASSUME NEW c \in Callers, pend' = [pend EXCEPT ![c] = NoCall]
      PROVE  FALSE
  BY <1>0, <1>2, ThreadsAssumption
<1>3. ASSUME NEW c \in Callers, NEW call, pend' = [pend EXCEPT ![c] = call]
      PROVE  FALSE
  BY <1>0, <1>3, ThreadsAssumption
<1>4. ASSUME NEW c \in Callers, SetRatios(c)
      PROVE  FALSE
  <2>1. pend' = [pend EXCEPT ![c] = NoCall]
    BY <1>4 DEF SetRatios, SetRatiosBody
  <2>q. QED
    BY <2>1, <1>2
<1>5. ASSUME NEW c \in Callers, Restore(c)
      PROVE  FALSE
  BY <1>2, <1>5 DEF Restore
<1>6. ~FeederPass
  BY DEF FeederPass, RestoreRead
<1>7. \A c \in Callers : \A ratios, ttl : ~SetRatiosRead(c, ratios, ttl)
  BY <1>3 DEF SetRatiosRead
<1>8. \A c \in Callers : \A force : ~RestoreRead(c, force)
  BY <1>3 DEF RestoreRead
<1>9. /\ ~Tick
      /\ \A n \in Tenants, r \in Ratios : ~Register(n, r)
      /\ \A n \in Tenants : ~Deregister(n)
      /\ ~UNCHANGED vars
  BY <1>1 DEF Tick, Register, Deregister, vars
<1>10. \E c \in Threads : Restore(c)
  BY <1>4, <1>6, <1>7, <1>8, <1>9 DEF Next
<1>q. QED
  BY <1>5, <1>10 DEF Threads

\* However old the time is that the feeder's pass works with, and whatever was
\* renewed in between, it ends only what has run out.
THEOREM FeederIsPatient == Spec => FeederEndsOnlyExpired
<1> DEFINE Patient == pend[Feeder] # NoCall /\ pend'[Feeder] = NoCall
                          => \A n \in DOMAIN lease \ DOMAIN lease' : clock >= lease[n]
<1>1. IInv /\ [Next]_vars => Patient
  <2> SUFFICES ASSUME IInv, [Next]_vars, pend[Feeder] # NoCall, pend'[Feeder] = NoCall,
                      NEW n \in DOMAIN lease \ DOMAIN lease'
               PROVE  clock >= lease[n]
    OBVIOUS
  <2>0. Feeder \in Threads
    BY DEF Threads
  <2>1. Restore(Feeder)
    BY FeederPassIs
  <2>2. DOMAIN lease' = DOMAIN lease \ Due(pend[Feeder])
    BY <2>0, <2>1, RestoreIs
  <2>3. n \notin pend[Feeder].force /\ n \in Due(pend[Feeder])
    BY <2>2 DEF IInv, FeederOnlyExpires
  <2>4. pend[Feeder].now >= lease[n]
    BY <2>3 DEF Due
  <2>5. pend[Feeder].now <= clock /\ pend[Feeder].now \in Nat
    BY <2>0, <2>1, RestoreCallIs DEF IInv, NowIsPast, Restore
  <2>6. lease[n] \in Nat /\ clock \in Nat
    BY DEF IInv, TypeOK
  <2>q. QED
    BY <2>4, <2>5, <2>6
<1>2. []IInv /\ [][Next]_vars => [][Patient]_vars
  BY <1>1, PTL
<1>q. QED
  BY <1>2, Invariant, PTL DEF Spec, FeederEndsOnlyExpired

\* No adjustment, restore or partly failed call touches a contract.
THEOREM ContractStays == Spec => ContractMovesOnlyByRegistration
<1> DEFINE OnlyRegistration ==
             \A n \in DOMAIN tenants \cap DOMAIN tenants' :
                 tenants'[n].contract # tenants[n].contract
                     => /\ tenants'[n].ratio = tenants'[n].contract
                        /\ n \notin DOMAIN lease'
<1>1. IInv /\ [Next]_vars => OnlyRegistration
  <2> SUFFICES ASSUME IInv, [Next]_vars,
                      NEW n \in DOMAIN tenants \cap DOMAIN tenants',
                      tenants'[n].contract # tenants[n].contract
               PROVE  tenants'[n].ratio = tenants'[n].contract /\ n \notin DOMAIN lease'
    OBVIOUS
  <2>1. tenants' # tenants
    OBVIOUS
  <2>2. ASSUME NEW m \in Tenants, NEW r \in Ratios, Register(m, r)
        PROVE  tenants'[n].ratio = tenants'[n].contract /\ n \notin DOMAIN lease'
    <3>1. \A k \in DOMAIN tenants \ {m} : tenants'[k] = tenants[k]
      BY <2>2 DEF Register, Put
    <3>2. n = m
      BY <3>1
    <3>3. tenants'[m] = [contract |-> r, ratio |-> r] /\ DOMAIN lease' = DOMAIN lease \ {m}
      BY <2>2 DEF Register, Put, Drop
    <3>q. QED
      BY <3>2, <3>3
  <2>3. ASSUME NEW m \in Tenants, Deregister(m)
        PROVE  FALSE
    BY <2>3 DEF Deregister, Drop
  <2>4. ASSUME NEW c \in Callers, SetRatios(c)
        PROVE  FALSE
    <3>1. PICK done \in SUBSET DOMAIN tenants, failed \in SUBSET DOMAIN tenants :
                  SetRatiosBody(c, done, failed)
      BY <2>4, SetRatiosIs DEF Threads
    <3>2. tenants'[n] = IF n \in done THEN [tenants[n] EXCEPT !.ratio = pend[c].ratios[n]]
                                      ELSE tenants[n]
      BY <3>1 DEF SetRatiosBody
    <3>3. tenants[n] \in [contract : Ratios, ratio : Ratios]
      BY DEF IInv, TypeOK
    <3>q. QED
      BY <3>2, <3>3
  <2>5. ASSUME NEW c \in Threads, Restore(c)
        PROVE  FALSE
    <3>1. tenants'[n] = IF n \in Due(pend[c])
                        THEN [contract |-> tenants[n].contract, ratio |-> tenants[n].contract]
                        ELSE tenants[n]
      BY <2>5, RestoreIs
    <3>q. QED
      BY <3>1
  <2>6. /\ ~Tick /\ ~FeederPass /\ ~UNCHANGED vars
        /\ \A c, ratios, ttl : ~SetRatiosRead(c, ratios, ttl)
        /\ \A c, force : ~RestoreRead(c, force)
    BY <2>1 DEF Tick, FeederPass, vars, SetRatiosRead, RestoreRead
  <2>q. QED
    BY <2>2, <2>3, <2>4, <2>5, <2>6 DEF Next
<1>2. []IInv /\ [][Next]_vars => [][OnlyRegistration]_vars
  BY <1>1, PTL
<1>q. QED
  BY <1>2, Invariant, PTL DEF Spec, ContractMovesOnlyByRegistration

---------------------------------------------------------------------------
(* Refinement of ShareContract *)

\* The abstract state has its type.
DealTyped == DealOf \in [Tenants -> Promise!Deals]

\* It follows from the type of the tables.
LEMMA DealType == TypeOK => DealTyped
<1> USE DEF DealTyped
<1> SUFFICES ASSUME TypeOK, NEW n \in Tenants
             PROVE  DealOf[n] \in Promise!Deals
  BY DEF DealOf
<1>1. n \in DOMAIN tenants => tenants[n].contract \in Ratios /\ tenants[n].ratio \in Ratios
  BY DEF TypeOK
<1>q. QED
  BY <1>1 DEF DealOf, Promise!Deals, Promise!Gone

\* A row written anew, with nothing leased or waived, is a signature.
LEMMA SignStep ==
    ASSUME NEW n \in Tenants, NEW r \in Ratios,
           n \in DOMAIN tenants', tenants'[n] = [contract |-> r, ratio |-> r],
           n \notin DOMAIN lease', n \notin waived', n \notin stranded'
    PROVE  Promise!Sign(n)
BY DEF Promise!Sign, DealOf

\* A row that is not there has left.
LEMMA LeaveStep ==
    ASSUME NEW n \in Tenants, n \notin DOMAIN tenants'
    PROVE  Promise!Leave(n)
BY DEF Promise!Leave, Promise!Gone, DealOf

\* Another share under the same contract, leased or waived, is an adjustment.
LEMMA AdjustStep ==
    ASSUME NEW n \in Tenants, n \in DOMAIN tenants, n \in DOMAIN tenants',
           tenants'[n].contract = tenants[n].contract, tenants'[n].ratio \in Ratios,
           n \in DOMAIN lease' \/ n \in waived'
    PROVE  Promise!Adjust(n, "loan") \/ Promise!Adjust(n, "waived")
<1>1. DealOf[n] # Promise!Gone /\ DealOf[n].contract = tenants[n].contract
  BY DEF DealOf, Promise!Gone
<1>2. CASE n \in DOMAIN lease'
  <2>1. DealOf'[n] = [kind |-> "loan", contract |-> tenants[n].contract, applied |-> tenants'[n].ratio]
    BY <1>2 DEF DealOf
  <2>q. QED
    BY <1>1, <2>1 DEF Promise!Adjust
<1>3. CASE n \notin DOMAIN lease'
  <2>1. DealOf'[n] = [kind |-> "waived", contract |-> tenants[n].contract, applied |-> tenants'[n].ratio]
    BY <1>3 DEF DealOf
  <2>q. QED
    BY <1>1, <2>1 DEF Promise!Adjust
<1>q. QED
  BY <1>2, <1>3

\* A lease that ends in the contract is the end of a loan.
LEMMA ReturnStep ==
    ASSUME NEW n \in Tenants, n \in DOMAIN tenants, n \in DOMAIN tenants', n \in DOMAIN lease,
           tenants'[n] = [contract |-> tenants[n].contract, ratio |-> tenants[n].contract],
           n \notin DOMAIN lease', n \notin waived', n \notin stranded'
    PROVE  Promise!Return(n)
BY DEF Promise!Return, DealOf

\* A lease that goes while the row stays strands the loan.
LEMMA StrandStep ==
    ASSUME NEW n \in Tenants, n \in DOMAIN tenants, n \in DOMAIN tenants', n \in DOMAIN lease,
           tenants'[n] = tenants[n],
           n \notin DOMAIN lease', n \notin waived', n \in stranded'
    PROVE  Promise!Strand(n)
BY DEF Promise!Strand, DealOf

\* Nothing of the row changes: neither does the deal.
LEMMA SameStep ==
    ASSUME NEW n \in Tenants,
           n \in DOMAIN tenants' <=> n \in DOMAIN tenants,
           n \in DOMAIN tenants => tenants'[n] = tenants[n],
           n \in DOMAIN lease' <=> n \in DOMAIN lease,
           n \in waived' <=> n \in waived,
           n \in stranded' <=> n \in stranded
    PROVE  DealOf'[n] = DealOf[n]
BY DEF DealOf


\* What a registration or the end of one means for every tenant's deal.
LEMMA MembershipRefines ==
    ASSUME IInv, NEW m \in Tenants, NEW n \in Tenants,
           Deregister(m) \/ \E r \in Ratios : Register(m, r)
    PROVE  Promise!TenantStep(n)
<1>1. CASE Deregister(m)
  <2>1. /\ DOMAIN tenants' = DOMAIN tenants \ {m} /\ DOMAIN lease' = DOMAIN lease \ {m}
        /\ waived' = waived \ {m} /\ stranded' = stranded \ {m}
        /\ \A k \in DOMAIN tenants \ {m} : tenants'[k] = tenants[k]
    BY <1>1 DEF Deregister, Drop
  <2>2. CASE n = m
    BY <2>1, <2>2, LeaveStep DEF Promise!TenantStep
  <2>3. CASE n # m
    BY <2>1, <2>3, SameStep DEF Promise!TenantStep
  <2>q. QED
    BY <2>2, <2>3
<1>2. ASSUME NEW r \in Ratios, Register(m, r)
      PROVE  Promise!TenantStep(n)
  <2>1. /\ DOMAIN tenants' = DOMAIN tenants \cup {m} /\ DOMAIN lease' = DOMAIN lease \ {m}
        /\ waived' = waived \ {m} /\ stranded' = stranded \ {m}
        /\ tenants'[m] = [contract |-> r, ratio |-> r]
        /\ \A k \in DOMAIN tenants \ {m} : tenants'[k] = tenants[k]
    BY <1>2 DEF Register, Put, Drop
  <2>2. CASE n = m
    BY <2>1, <2>2, SignStep DEF Promise!TenantStep
  <2>3. CASE n # m
    BY <2>1, <2>3, SameStep DEF Promise!TenantStep
  <2>q. QED
    BY <2>2, <2>3
<1>q. QED
  BY <1>1, <1>2

\* A set_ratios call adjusts the deals it reaches and leaves the others alone.
LEMMA SetRatiosRefines ==
    ASSUME IInv, NEW c \in Callers, NEW m \in Tenants, SetRatios(c)
    PROVE  Promise!TenantStep(m)
<1>0. c \in Threads
  BY DEF Threads
<1>1. PICK done \in SUBSET DOMAIN tenants, failed \in SUBSET DOMAIN tenants :
          Writes(done, failed)
  BY <1>0, SetRatiosStep
<1>2. CASE m \in done \cup failed
  <2>1. m \in DOMAIN tenants /\ m \in DOMAIN tenants' /\ tenants'[m].ratio \in Ratios
    BY <1>1, <1>2 DEF Writes
  <2>2. m \in done => tenants'[m].contract = tenants[m].contract
    BY <1>1 DEF Writes
  <2>3. m \notin done => tenants'[m] = tenants[m]
    BY <1>1, <2>1 DEF Writes
  <2>4. CASE m \in DOMAIN lease' \/ (m \in done /\ m \in waived')
    BY <2>1, <2>2, <2>3, <2>4, AdjustStep DEF Promise!TenantStep
  <2>5. CASE m \notin DOMAIN lease' /\ m \notin done
    <3>1. /\ waived' = waived \cup done
          /\ stranded' = (stranded \cup (failed \cap DOMAIN lease)) \ done
      BY <1>1, <1>2, <2>5 DEF Writes
    <3>2. CASE m \in DOMAIN lease
      <4>1. m \notin waived' /\ m \in stranded'
        BY <1>2, <2>5, <3>1, <3>2 DEF IInv, OneReasonEach
      <4>q. QED
        BY <2>1, <2>3, <2>5, <3>2, <4>1, StrandStep DEF Promise!TenantStep
    <3>3. CASE m \notin DOMAIN lease
      BY <2>1, <2>3, <2>5, <3>1, <3>3, SameStep DEF Promise!TenantStep
    <3>q. QED
      BY <3>2, <3>3
  <2>6. m \in done => m \in DOMAIN lease' \/ m \in waived'
    BY <1>1 DEF Writes
  <2>q. QED
    BY <2>4, <2>5, <2>6
<1>3. CASE m \notin done \cup failed
  BY <1>1, <1>3, SameStep DEF Promise!TenantStep, Writes
<1>q. QED
  BY <1>2, <1>3

\* A restore returns the loans that are due and leaves the other deals alone.
LEMMA RestoreRefines ==
    ASSUME IInv, NEW c \in Threads, NEW n \in Tenants, Restore(c)
    PROVE  Promise!TenantStep(n)
<1>1. /\ DOMAIN tenants' = DOMAIN tenants
      /\ \A k \in DOMAIN tenants :
            tenants'[k] = IF k \in Due(pend[c])
                          THEN [contract |-> tenants[k].contract,
                                ratio |-> tenants[k].contract]
                          ELSE tenants[k]
      /\ DOMAIN lease' = DOMAIN lease \ Due(pend[c])
      /\ waived' = waived /\ stranded' = stranded
  BY RestoreIs
<1>2. CASE n \in Due(pend[c])
  <2>1. n \in DOMAIN lease /\ n \in DOMAIN tenants /\ n \notin waived /\ n \notin stranded
    BY <1>2 DEF Due, IInv, NoInheritedLease, OneReasonEach
  <2>q. QED
    BY <1>1, <1>2, <2>1, ReturnStep DEF Promise!TenantStep
<1>3. CASE n \notin Due(pend[c])
  BY <1>1, <1>3, SameStep DEF Promise!TenantStep
<1>q. QED
  BY <1>2, <1>3

\* Every step of the share table is a step of ShareContract, or changes no deal.
LEMMA StepRefines == IInv /\ DealTyped' /\ [Next]_vars => [Promise!Next]_DealOf
<1> SUFFICES ASSUME IInv, DealTyped', [Next]_vars, DealOf' # DealOf
             PROVE  Promise!Next
  OBVIOUS
<1>1. DealOf' \in [Tenants -> Promise!Deals]
  BY DEF DealTyped
<1>2. ASSUME UNCHANGED <<tenants, lease, waived, stranded>> PROVE FALSE
  BY <1>2 DEF DealOf
<1>3. ASSUME NEW n \in Tenants PROVE Promise!TenantStep(n)
  <2>1. CASE Tick \/ FeederPass \/ UNCHANGED vars
    BY <1>2, <2>1 DEF Tick, FeederPass, RestoreRead, vars
  <2>2. CASE \E m \in Tenants, r \in Ratios : Register(m, r)
    BY <2>2, MembershipRefines
  <2>3. CASE \E m \in Tenants : Deregister(m)
    BY <2>3, MembershipRefines
  <2>4. CASE \E c \in Callers, ratios \in Requests, ttl \in Leases \cup {DefaultLease, OptOut} :
                SetRatiosRead(c, ratios, ttl)
    BY <1>2, <2>4 DEF SetRatiosRead
  <2>5. CASE \E c \in Callers, force \in SUBSET Tenants : RestoreRead(c, force)
    BY <1>2, <2>5 DEF RestoreRead
  <2>6. CASE \E c \in Callers : SetRatios(c)
    BY <2>6, SetRatiosRefines
  <2>7. CASE \E c \in Threads : Restore(c)
    BY <2>7, RestoreRefines
  <2>q. QED
    BY <2>1, <2>2, <2>3, <2>4, <2>5, <2>6, <2>7 DEF Next
<1>q. QED
  BY <1>1, <1>3 DEF Promise!Next

\* The share table with its clock, its lock and its threads keeps the promise:
\* shares leave the contract by a loan or a waiver only, and a loan ends in all
\* of the contract at once, or is stranded by an opt-out that fails.
THEOREM Refinement == Spec => KeepsPromise
<1>1. Init => Promise!Init
  BY EmptyDictIs DEF Init, Promise!Init, DealOf, Promise!Gone
<1>2. IInv => DealTyped
  BY DealType DEF IInv
<1>3. []IInv /\ [][Next]_vars => [][Promise!Next]_DealOf
  BY <1>2, StepRefines, PTL
<1>q. QED
  BY <1>1, <1>3, Invariant, PTL DEF Spec, KeepsPromise, Promise!Spec

=============================================================================
