----------------------------- MODULE SlotTable -----------------------------
(***************************************************************************)
(* The shared-memory table of GPU tenants: registry.py writes the slots,   *)
(* overcommit.py takes the shares of idle tenants out of the total and     *)
(* puts them back, both judge the mode (FREE, OVERCOMMIT, PROFILING).      *)
(*                                                                         *)
(* Two threads of the controller write it without a lock: "http", the one  *)
(* thread of the HTTP server, and "idle", the loop that runs               *)
(* tick_idle_check every second; the tenants' processes write their        *)
(* gate_state and active.  "total += x" is a read and a write, judging the *)
(* mode is a comparison and a write: the other thread may come between.    *)
(* work[c] is what thread c has read and not yet written.  The idle thread *)
(* reads a slot's name, then its active, then writes it: the slot may have *)
(* been freed, or freed and taken, by then.  The plain writes a            *)
(* registration or deregistration makes besides are taken together with    *)
(* the one to the total.                                                   *)
(*                                                                         *)
(* Slots are numbered from 1; tenant_count is the number of the last one   *)
(* in use.  Memory (virtual_mem_mb), mps_pct and weights are left out: they*)
(* are written with virtual_sm and judge nothing.                          *)
(***************************************************************************)
EXTENDS Integers, FiniteSets

CONSTANTS
    Ids,            \* tenant_id
    NoId,           \* b"": the slot is free, or registered without a name
    MaxTenants,     \* MAX_TENANTS
    Shares,         \* virtual_sm a tenant can ask for
    Physical,       \* physical_sm_total
    Threshold,      \* IDLE_THRESHOLD_S
    Absent,         \* a slot that is not in _idle_since
    HalfWord        \* 2^31: virtual_sm_total is a c_int32

ASSUME SlotAssumption == MaxTenants \in Nat \ {0}
ASSUME IdAssumption == NoId \notin Ids /\ Absent \notin Int
ASSUME ShareAssumption == Shares \subseteq Nat \ {0} /\ Physical \in Nat
ASSUME TimeAssumption == Threshold \in Nat \ {0} /\ HalfWord \in Nat \ {0}

VARIABLES
    id,             \* alloc[i].tenant_id
    vsm,            \* alloc[i].virtual_sm
    active,         \* tenants[i].active
    waiting,        \* tenants[i].gate_state = GATE_WAITING
    total,          \* virtual_sm_total
    count,          \* tenant_count
    mode,
    profiled,       \* profiling_tenant_idx (0: none)
    idleSince,      \* _idle_since: age of the first sight of WAITING, or Absent
    scan,           \* slot the idle thread looks at next, 0 between two passes
    work            \* work[c]: where thread c is in an operation

table == <<id, vsm, count>>
vars == <<id, vsm, active, waiting, total, count, mode, profiled, idleSince, scan, work>>

Slots == 1 .. MaxTenants
Threads == {"http", "idle"}

\* ctypes keeps the low bits of what is assigned.
Word(x) == ((x + HalfWord) % (2 * HalfWord)) - HalfWord
Words == -HalfWord .. HalfWord - 1

Free == [at |-> "free"]
\* about to write the value of total read + delta; next: what the operation does then
Adding(slot, delta, next) ==
    [at |-> "add", slot |-> slot, sum |-> Word(total + delta), next |-> next]
\* the idle thread is about to read active, then to write it
Moving(i, on) == [at |-> "move", slot |-> i, on |-> on]
Switching(i, on) == [at |-> "switch", slot |-> i, on |-> on]
Judging == [at |-> "judge"]
Setting(m) == [at |-> "set", mode |-> m]

Works == [at : {"free", "judge"}]
         \cup [at : {"set"}, mode : {"FREE", "OVERCOMMIT"}]
         \cup [at : {"move", "switch"}, slot : Slots, on : BOOLEAN]
         \cup [at : {"add"}, slot : Slots, sum : Words, next : {"register", "deregister", "mode"}]

TypeOK ==
    /\ id \in [Slots -> Ids \cup {NoId}]
    /\ vsm \in [Slots -> Shares \cup {0}]
    /\ active \in [Slots -> BOOLEAN]
    /\ waiting \in [Slots -> BOOLEAN]
    /\ total \in Words
    /\ count \in 0 .. MaxTenants
    /\ mode \in {"FREE", "OVERCOMMIT", "PROFILING"}
    /\ profiled \in 0 .. MaxTenants
    /\ idleSince \in [Slots -> 0 .. Threshold \cup {Absent}]
    /\ scan \in 0 .. MaxTenants
    /\ work \in [Threads -> Works]

\* create_shm, with every process still to come.
Init ==
    /\ id = [i \in Slots |-> NoId]
    /\ vsm = [i \in Slots |-> 0]
    /\ active = [i \in Slots |-> FALSE]
    /\ waiting = [i \in Slots |-> FALSE]
    /\ total = 0 /\ count = 0
    /\ mode = "FREE" /\ profiled = 0
    /\ idleSince = [i \in Slots |-> Absent]
    /\ scan = 0
    /\ work = [c \in Threads |-> Free]

---------------------------------------------------------------------------
(* Registry *)

\* The first slot with the tenant's name, none if there is none.
SlotOf(t) == {i \in Slots : id[i] = t /\ \A j \in 1 .. i - 1 : id[j] # t}

\* Variant of SlotFor: the first free slot, whoever the tenant is.
FirstFree(t) == {i \in Slots : /\ id[i] = NoId /\ ~active[i]
                               /\ \A j \in 1 .. i - 1 : id[j] # NoId \/ active[j]}

\* Variant of SlotFor: a slot whose process is not active counts as free.
FirstInactive(t) ==
    IF SlotOf(t) # {} THEN SlotOf(t)
    ELSE {i \in Slots : ~active[i] /\ \A j \in 1 .. i - 1 : active[j]}

\* The slot a registration takes: the one with the tenant's name, else the first
\* that is free and whose former process is gone; none if all are taken.
SlotFor(t) ==
    IF SlotOf(t) # {} THEN SlotOf(t)
    ELSE {i \in Slots : /\ id[i] = NoId /\ ~active[i]
                        /\ \A j \in 1 .. i - 1 : id[j] # NoId \/ active[j]}

\* register, up to the reading of the total.  Without a name it finds the first slot
\* that has none.
Register(t, v) ==
    /\ work["http"] = Free
    /\ \E i \in SlotFor(t) :
          /\ id' = [id EXCEPT ![i] = t]
          /\ vsm' = [vsm EXCEPT ![i] = v]
          /\ work' = [work EXCEPT !["http"] = Adding(i, v, "register")]
    /\ UNCHANGED <<active, waiting, total, count, mode, profiled, idleSince, scan>>

\* deregister, up to the reading of the total; the slot may be an empty one.
Deregister(i) ==
    /\ work["http"] = Free
    /\ work' = [work EXCEPT !["http"] = Adding(i, -vsm[i], "deregister")]
    /\ UNCHANGED <<id, vsm, active, waiting, total, count, mode, profiled, idleSince, scan>>

\* Variant of LastSlot: how many slots are in use.
SlotsInUse(ids) == Cardinality({i \in Slots : ids[i] # NoId})

\* tenant_count: the last slot in use.
LastSlot(ids) ==
    CHOOSE n \in 0 .. MaxTenants :
        /\ n # 0 => ids[n] # NoId
        /\ \A i \in Slots : ids[i] # NoId => i <= n

\* The total is written; a registration or deregistration goes on to the count.
WriteTotal(c) ==
    /\ work[c].at = "add"
    /\ total' = work[c].sum
    /\ LET i == work[c].slot
       IN CASE work[c].next = "register" ->
                 /\ count' = IF i > count THEN i ELSE count
                 /\ UNCHANGED <<id, vsm, active>>
            [] work[c].next = "deregister" ->
                 /\ id' = [id EXCEPT ![i] = NoId]
                 /\ vsm' = [vsm EXCEPT ![i] = 0]
                 /\ active' = [active EXCEPT ![i] = FALSE]
                 /\ count' = LastSlot(id')
            [] OTHER -> UNCHANGED <<id, vsm, active, count>>
    /\ work' = [work EXCEPT ![c] = Judging]
    /\ UNCHANGED <<waiting, mode, profiled, idleSince, scan>>

\* _update_mode, check_and_update: nothing to do while a tenant is profiled.
Judge(c) ==
    /\ work[c].at = "judge"
    /\ work' = [work EXCEPT ![c] = IF mode = "PROFILING" THEN Free
                                   ELSE Setting(IF total > Physical THEN "OVERCOMMIT" ELSE "FREE")]
    /\ UNCHANGED <<id, vsm, active, waiting, total, count, mode, profiled, idleSince, scan>>

SetMode(c) ==
    /\ work[c].at = "set"
    /\ mode' = work[c].mode
    /\ work' = [work EXCEPT ![c] = Free]
    /\ UNCHANGED <<id, vsm, active, waiting, total, count, profiled, idleSince, scan>>

EnterProfiling(i) ==
    /\ work["http"] = Free
    /\ profiled' = i
    /\ mode' = "PROFILING"
    /\ UNCHANGED <<id, vsm, active, waiting, total, count, idleSince, scan, work>>

\* exit_profiling ends in check_and_update.
ExitProfiling ==
    /\ work["http"] = Free
    /\ profiled' = 0
    /\ work' = [work EXCEPT !["http"] = Judging]
    /\ UNCHANGED <<id, vsm, active, waiting, total, count, mode, idleSince, scan>>

---------------------------------------------------------------------------
(* OvercommitManager: one pass of tick_idle_check, slot by slot *)

\* The wait between two passes is at least one second; a late pass counts two.
BeginPass(d) ==
    /\ scan = 0 /\ work["idle"] = Free
    /\ scan' = 1
    /\ idleSince' = [i \in Slots |-> IF idleSince[i] = Absent THEN Absent
                                     ELSE IF idleSince[i] + d > Threshold THEN Threshold
                                     ELSE idleSince[i] + d]
    /\ UNCHANGED <<id, vsm, active, waiting, total, count, mode, profiled, work>>

\* Variant of NextSlot: one slot too far.
NextSlotAndOne == scan' = IF scan > MaxTenants THEN 0 ELSE scan + 1

NextSlot == scan' = IF scan = MaxTenants THEN 0 ELSE scan + 1

\* The slot is to be taken out of the total, or put back.
Move(i, on) == work' = [work EXCEPT !["idle"] = Moving(i, on)]

Look ==
    /\ scan # 0 /\ work["idle"] = Free
    /\ NextSlot
    /\ \/ /\ id[scan] = NoId
          /\ UNCHANGED <<idleSince, work>>
       \/ /\ id[scan] # NoId /\ waiting[scan] /\ idleSince[scan] = Absent
          /\ idleSince' = [idleSince EXCEPT ![scan] = 0]
          /\ UNCHANGED work
       \/ /\ id[scan] # NoId /\ waiting[scan] /\ idleSince[scan] # Absent
          /\ IF idleSince[scan] >= Threshold THEN Move(scan, FALSE) ELSE UNCHANGED work
          /\ UNCHANGED idleSince
       \/ /\ id[scan] # NoId /\ ~waiting[scan]
          /\ idleSince' = [idleSince EXCEPT ![scan] = Absent]
          /\ IF idleSince[scan] # Absent THEN Move(scan, TRUE) ELSE UNCHANGED work
    /\ UNCHANGED <<id, vsm, active, waiting, total, count, mode, profiled>>

\* _on_tenant_idle, _on_tenant_active: nothing to do if the slot is so already.
CheckActive ==
    LET w == work["idle"]
    IN /\ w.at = "move"
       /\ work' = [work EXCEPT !["idle"] = IF active[w.slot] = w.on THEN Free
                                          ELSE Switching(w.slot, w.on)]
       /\ UNCHANGED <<id, vsm, active, waiting, total, count, mode, profiled, idleSince, scan>>

\* active is written, whoever has the slot now, then the total is read.
Switch ==
    LET w == work["idle"]
    IN /\ w.at = "switch"
       /\ active' = [active EXCEPT ![w.slot] = w.on]
       /\ work' = [work EXCEPT !["idle"] =
                       Adding(w.slot, IF w.on THEN vsm[w.slot] ELSE -vsm[w.slot], "mode")]
       /\ UNCHANGED <<id, vsm, waiting, total, count, mode, profiled, idleSince, scan>>

---------------------------------------------------------------------------
(* The tenant's process writes its own state. *)

Attach(i) ==
    /\ id[i] # NoId
    /\ active' = [active EXCEPT ![i] = TRUE]
    /\ waiting' = [waiting EXCEPT ![i] = FALSE]
    /\ UNCHANGED <<id, vsm, total, count, mode, profiled, idleSince, scan, work>>

\* Out of its time slice, or running again.
Gate(i) ==
    /\ id[i] # NoId
    /\ waiting' = [waiting EXCEPT ![i] = ~@]
    /\ UNCHANGED <<id, vsm, active, total, count, mode, profiled, idleSince, scan, work>>

IdleStep == \/ \E d \in {1, 2} : BeginPass(d)
            \/ Look \/ CheckActive \/ Switch
            \/ WriteTotal("idle") \/ Judge("idle") \/ SetMode("idle")

\* POST /register (400 if no slot is left), /deregister, and /deregister_by_id (404
\* if nobody has the name).
Registrations ==
    \/ \E t \in Ids \cup {NoId}, v \in Shares : Register(t, v)
    \/ \E i \in Slots : Deregister(i)
    \/ \E t \in Ids : \E i \in SlotOf(t) : Deregister(i)

\* POST /profiling/enter and /profiling/exit.
Profiling == ExitProfiling \/ \E i \in Slots : EnterProfiling(i)

Next ==
    \/ Registrations
    \/ Profiling
    \/ WriteTotal("http") \/ Judge("http") \/ SetMode("http")
    \/ IdleStep
    \/ \E i \in Slots : Attach(i) \/ Gate(i)

Spec == Init /\ [][Next]_vars

---------------------------------------------------------------------------
(* Properties *)

\* A tenant has one slot, however often it comes back after a crash: the lookup
\* by name (deregister_by_id) must not miss a second one.
OneSlotPerTenant ==
    \A i, j \in Slots : id[i] = id[j] /\ id[i] # NoId => i = j

\* Between two requests tenant_count covers every tenant, as the loops over the
\* first tenant_count slots rely on (/policy/weights, the runtime), and no slot more
\* than that: the last one counted has a name, or was registered without one.
CountIsLastSlot ==
    work["http"] = Free \/ work["http"].at \in {"judge", "set"} =>
        /\ \A i \in Slots : id[i] # NoId => i <= count
        /\ count # 0 => id[count] # NoId \/ vsm[count] # 0

\* A slot passes from one tenant to another only through being freed: nobody
\* overwrites a tenant that has gone idle or whose process has died.
SlotsAreNotTaken ==
    [][\A i \in Slots : id'[i] # id[i] => id[i] = NoId \/ id'[i] = NoId]_vars

=============================================================================
