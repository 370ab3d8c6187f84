---------------------------- MODULE RatioLease ----------------------------
(***************************************************************************)
(* The share table of the time-credit feeder (controller/feeder/feeder.py):*)
(* what each registered tenant was promised (contract), what it is given   *)
(* (ratio), and until when a changed share may last (_ratio_lease).        *)
(*                                                                         *)
(* The table is behind one lock.  set_ratios and _expire_leases read the   *)
(* wall clock BEFORE they take the lock, so each of them is two actions    *)
(* here and the time a call works with may be old when it gets the lock.   *)
(* Callers are the threads that reach the feeder: the HTTP server, the     *)
(* swap thread, the event subscriber, the booster.  Feeder is the feeder's *)
(* own thread.  What a share is worth in a tick is in IdleShares.          *)
(***************************************************************************)
EXTENDS Integers, PyDict

CONSTANTS
    Tenants,       \* device IDs
    Callers,       \* threads that call the feeder
    Feeder,        \* the feeder's own thread
    Ratios,        \* values a share can have
    DefaultLease,  \* RATIO_LEASE_DEFAULT_S, in clock units
    Leases,        \* the lease_s > 0 that callers pass
    NotANumber,    \* a value of the request that float() refuses
    Horizon,       \* bound: no set_ratios after this instant
    MaxClock       \* bound: the clock stops here

ASSUME ThreadsAssumption == Feeder \notin Callers
ASSUME LeaseAssumption == /\ DefaultLease \in Nat \ {0}
                          /\ Leases \subseteq Nat \ {0}
ASSUME RatioAssumption == NotANumber \notin Ratios
ASSUME BoundAssumption == Horizon \in Nat /\ MaxClock \in Nat

VARIABLES
    clock,         \* time.time()
    tenants,       \* _tenants: name -> [contract, ratio]
    lease,         \* _ratio_lease: name -> expire
    waived,        \* history: whose share an opt-out call (lease_s <= 0) has written,
                   \* until a registration or a lease
    stranded,      \* history: whose lease an opt-out call has taken away without
                   \* writing the share, until one of these writes it
    pend           \* pend[c]: the call of thread c that has read the clock and
                   \* waits for the lock

vars == <<clock, tenants, lease, waived, stranded, pend>>

Threads == Callers \cup {Feeder}

NoCall == [op |-> "none"]

\* lease_s <= 0: the caller takes the share out of the lease's hands for good.
OptOut == 0

\* ratios: {name: value}, some value perhaps not a number
Requests == UNION {[S -> Ratios \cup {NotANumber}] : S \in SUBSET Tenants \ {{}}}

SetCalls == [op : {"set"}, now : Nat, ratios : Requests, ttl : Leases \cup {DefaultLease, OptOut}]
RestoreCalls == [op : {"restore"}, now : Nat, force : SUBSET Tenants]

TypeOK ==
    /\ clock \in Nat
    /\ DOMAIN tenants \subseteq Tenants
    /\ tenants \in [DOMAIN tenants -> [contract : Ratios, ratio : Ratios]]
    /\ DOMAIN lease \subseteq Tenants
    /\ lease \in [DOMAIN lease -> Nat]
    /\ waived \subseteq Tenants /\ stranded \subseteq Tenants
    /\ pend \in [Threads -> {NoCall} \cup SetCalls \cup RestoreCalls]

Init ==
    /\ clock = 0
    /\ tenants = EmptyDict
    /\ lease = EmptyDict
    /\ waived = {} /\ stranded = {}
    /\ pend = [c \in Threads |-> NoCall]

---------------------------------------------------------------------------
(* Operations *)

Tick ==
    /\ clock < MaxClock
    /\ clock' = clock + 1
    /\ UNCHANGED <<tenants, lease, waived, stranded, pend>>

\* Variant of Register: the lease of the name's former life is kept.
RegisterKeepsLease(n, r) ==
    /\ tenants' = Put(tenants, {n}, [contract |-> r, ratio |-> r])
    /\ waived' = waived \ {n} /\ stranded' = stranded \ {n}
    /\ UNCHANGED <<clock, lease, pend>>

\* The only place that sets a contract.
Register(n, r) ==
    /\ tenants' = Put(tenants, {n}, [contract |-> r, ratio |-> r])
    /\ lease' = Drop(lease, {n})
    /\ waived' = waived \ {n} /\ stranded' = stranded \ {n}
    /\ UNCHANGED <<clock, pend>>

\* Variant of Deregister: the lease outlives the tenant.
DeregisterKeepsLease(n) ==
    /\ tenants' = Drop(tenants, {n})
    /\ waived' = waived \ {n} /\ stranded' = stranded \ {n}
    /\ UNCHANGED <<clock, lease, pend>>

Deregister(n) ==
    /\ tenants' = Drop(tenants, {n})
    /\ lease' = Drop(lease, {n})
    /\ waived' = waived \ {n} /\ stranded' = stranded \ {n}
    /\ UNCHANGED <<clock, pend>>

\* set_ratios, up to its "with self._lock".
SetRatiosRead(c, ratios, ttl) ==
    /\ clock <= Horizon
    /\ pend[c] = NoCall
    /\ pend' = [pend EXCEPT ![c] = [op |-> "set", now |-> clock, ratios |-> ratios, ttl |-> ttl]]
    /\ UNCHANGED <<clock, tenants, lease, waived, stranded>>

\* set_ratios under the lock, once the names whose share is written are known
\* (done) and those whose lease is written but whose value float() then refused
\* (failed): the exception leaves the rest of the request undone.
SetRatiosBody(c, done, failed) ==
    LET call    == pend[c]
        touched == done \cup failed
    IN /\ tenants' = [n \in DOMAIN tenants |->
                         IF n \in done THEN [tenants[n] EXCEPT !.ratio = call.ratios[n]]
                                       ELSE tenants[n]]
       /\ \/ /\ call.ttl = OptOut
             /\ lease' = Drop(lease, touched)
             /\ waived' = waived \cup done
             /\ stranded' = (stranded \cup (failed \cap DOMAIN lease)) \ done
          \/ /\ call.ttl # OptOut
             /\ lease' = Put(lease, touched, call.now + call.ttl)
             /\ waived' = waived \ touched
             /\ stranded' = stranded \ touched
       /\ pend' = [pend EXCEPT ![c] = NoCall]
       /\ UNCHANGED clock

\* Variant of SetRatios: values are written as they come.
SetRatiosUnchecked(c) ==
    /\ pend[c].op = "set"
    /\ SetRatiosBody(c, DOMAIN pend[c].ratios \cap DOMAIN tenants, {})

\* Unknown names are skipped; the loop goes through the request in its own
\* order, so any names may precede the one float() refuses.
SetRatios(c) ==
    /\ pend[c].op = "set"
    /\ LET known == DOMAIN pend[c].ratios \cap DOMAIN tenants
           bad   == {n \in known : pend[c].ratios[n] = NotANumber}
       IN \/ bad = {} /\ SetRatiosBody(c, known, {})
          \/ \E n \in bad, done \in SUBSET (known \ bad) : SetRatiosBody(c, done, {n})

\* _expire_leases, up to its "with self._lock": force is the names the caller
\* of release_ratio_lease wants back ({} for the feeder's own pass).
RestoreRead(c, force) ==
    /\ pend[c] = NoCall
    /\ pend' = [pend EXCEPT ![c] = [op |-> "restore", now |-> clock, force |-> force]]
    /\ UNCHANGED <<clock, tenants, lease, waived, stranded>>

\* Variant of Due: one instant early.
DueEarly(call) == {n \in DOMAIN lease : n \in call.force \/ call.now + 1 >= lease[n]}

\* Variant of Due: a lease that nobody gives back never ends.
DueOnDemand(call) == DOMAIN lease \cap call.force

\* The leases a pass ends: given back by name, or run out.
Due(call) == {n \in DOMAIN lease : n \in call.force \/ call.now >= lease[n]}

\* Variant of Restore: the lease goes and the share stays as it was.
ExpireOnly(c) ==
    /\ pend[c].op = "restore"
    /\ lease' = Drop(lease, Due(pend[c]))
    /\ pend' = [pend EXCEPT ![c] = NoCall]
    /\ UNCHANGED <<clock, tenants, waived, stranded>>

\* _expire_leases under the lock: the destination is the contract of now.
Restore(c) ==
    /\ pend[c].op = "restore"
    /\ tenants' = [n \in DOMAIN tenants |->
                      IF n \in Due(pend[c]) THEN [tenants[n] EXCEPT !.ratio = tenants[n].contract]
                                            ELSE tenants[n]]
    /\ lease' = Drop(lease, Due(pend[c]))
    /\ pend' = [pend EXCEPT ![c] = NoCall]
    /\ UNCHANGED <<clock, waived, stranded>>

\* The head of a feeder tick: "if self._ratio_lease: self._expire_leases()".
FeederPass == lease # EmptyDict /\ RestoreRead(Feeder, {})

---------------------------------------------------------------------------

Next ==
    \/ Tick
    \/ FeederPass
    \/ \E n \in Tenants, r \in Ratios : Register(n, r)
    \/ \E n \in Tenants : Deregister(n)
    \/ \E c \in Callers, ratios \in Requests, ttl \in Leases \cup {DefaultLease, OptOut} :
          SetRatiosRead(c, ratios, ttl)
    \/ \E c \in Callers, force \in SUBSET Tenants : RestoreRead(c, force)
    \/ \E c \in Callers : SetRatios(c)
    \/ \E c \in Threads : Restore(c)

Spec == Init /\ [][Next]_vars

\* Time passes, the feeder's loop runs, and a thread that waits for the lock
\* gets it.
FairSpec ==
    /\ Spec
    /\ WF_vars(Tick)
    /\ WF_vars(FeederPass)
    /\ \A c \in Callers : WF_vars(SetRatios(c))
    /\ \A c \in Threads : WF_vars(Restore(c))

---------------------------------------------------------------------------
(* Properties *)

\* Nothing is leased to a name that is not registered: the next tenant of a
\* device ID must not inherit the lease of the last one (register, deregister).
NoInheritedLease == DOMAIN lease \subseteq DOMAIN tenants

\* A tenant is given something else than its contract only while a lease says until
\* when; or because an opt-out has written that share; or, with nobody having asked for
\* it, because an opt-out took the lease of a loan away and then failed at the value
\* (set_ratios pops the lease before float()).  There is no fourth way, whichever
\* calls fail half way and in whatever order they get the lock.
OffContractIsAccountedFor ==
    \A n \in DOMAIN tenants :
        tenants[n].ratio # tenants[n].contract => n \in DOMAIN lease \cup waived \cup stranded

\* What a share lasts by is one of the three: an old lease must not end a share that
\* was set for good, and what a later call has written is not stranded.
OneReasonEach ==
    /\ DOMAIN lease \cap (waived \cup stranded) = {}
    /\ waived \cap stranded = {}

\* The feeder's own pass ends a lease only once it has run out, although the
\* time it compares with may be old and the lease may have been renewed since.
FeederEndsOnlyExpired ==
    [][pend[Feeder] # NoCall /\ pend'[Feeder] = NoCall
           => \A n \in DOMAIN lease \ DOMAIN lease' : clock >= lease[n]]_vars

\* The contract moves only with a registration, which also resets the share and
\* forgets the lease: no adjustment, restore or partly failed call touches it.
ContractMovesOnlyByRegistration ==
    [][\A n \in DOMAIN tenants \cap DOMAIN tenants' :
           tenants'[n].contract # tenants[n].contract
               => /\ tenants'[n].ratio = tenants'[n].contract
                  /\ n \notin DOMAIN lease']_vars

\* Whatever share a tenant was lent, with the lease the lender asked for or, if it
\* named none, the default one, once the lender falls silent it is back on its contract
\* (or gone, or waived, or stranded by an opt-out that failed): the lender's own
\* clean-up code need not run (SIGKILL).
LoanComesHome ==
    \A n \in Tenants :
        (n \in DOMAIN lease) ~>
            \/ n \notin DOMAIN tenants
            \/ n \in waived \cup stranded
            \/ tenants[n].ratio = tenants[n].contract

---------------------------------------------------------------------------
(* Refinement *)

DealOf ==
    [n \in Tenants |->
        IF n \notin DOMAIN tenants THEN [kind |-> "gone"]
        ELSE [kind |-> IF n \in DOMAIN lease THEN "loan"
                       ELSE IF n \in waived THEN "waived"
                       ELSE IF n \in stranded THEN "stranded" ELSE "contract",
              contract |-> tenants[n].contract,
              applied  |-> tenants[n].ratio]]

Promise == INSTANCE ShareContract WITH deal <- DealOf

\* The share table with its clock, lock and threads keeps the promise of
\* ShareContract: a share leaves the contract only by a loan or a waiver, and a loan
\* ends in all of the contract, unless it is stranded as it is.
KeepsPromise == Promise!Spec

=============================================================================
