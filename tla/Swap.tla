------------------------------- MODULE Swap -------------------------------
(***************************************************************************)
(* Make-before-break respawn: POST /lifecycle/swap starts a thread that    *)
(* gates some tenants, spawns a standby, waits for its ready file and hands*)
(* over; lifecycle/machine.py keeps the state.                             *)
(*                                                                         *)
(* The thread runs beside the HTTP server, on which others register and    *)
(* deregister tenants, arm, release and lend, beside the booster, which    *)
(* takes entries out of the ledger, and beside the processes of this and of*)
(* earlier swaps.  What the thread calls can raise (an unregistered tenant,*)
(* a ratio that is no number, a command that cannot be started, a directory*)
(* that is gone): nobody catches it, and the thread ends where it is.      *)
(*                                                                         *)
(* The ready file is a name in the request.  The controller only looks     *)
(* whether it exists: it may be there from an earlier swap, or be made by  *)
(* an earlier standby that is still running.  Whether the ratio engine     *)
(* finds room is left open.  Of a share it is told whether a swap has set it*)
(* and nobody since; what else becomes of shares is in RatioLease.         *)
(***************************************************************************)
EXTENDS Naturals, FiniteSets

CONSTANTS Tenants, NoTenant,
          Files         \* ready files that requests name

ASSUME TenantAssumption == NoTenant \notin Tenants

VARIABLES
    sm,         \* StateMachine.state
    thread,     \* what the swap thread does next; "off" when it is not alive
    job,        \* the request the thread was started with
    todo,       \* gate tenants the thread has still to arm, or to release
    standby,    \* the standby's process, as poll() tells it
    stepped,    \* has the standby of this swap made its first step?
    made,       \* the ready files that exist
    others,     \* the ready files of earlier standbys that have still to step
    feeder,     \* tenants registered with the feeder
    armed,      \* of those, the ones whose gate is on
    kept,       \* of those, the ones whose share is what a swap set without a lease
    ledger,     \* ResidualLedger: names with an entry
    rearmed,    \* history: armed by others, after this swap's last release of it
    taken       \* history: the booster has taken out the entry this swap made

gates == <<feeder, armed, kept, rearmed>>
books == <<ledger, taken>>
procs == <<standby, stepped, made, others>>
vars == <<sm, thread, job, todo, procs, gates, books>>

States == {"NORMAL", "GATED", "HANDOFF", "NORMAL_PRIME", "FALLBACK_GATED"}

LEGAL == [s \in States |->
    CASE s = "NORMAL" -> {"GATED"}
      [] s = "GATED" -> {"HANDOFF", "FALLBACK_GATED"}
      [] s = "HANDOFF" -> {"NORMAL_PRIME"}
      [] s = "NORMAL_PRIME" -> {"GATED"}
      [] s = "FALLBACK_GATED" -> {"GATED", "NORMAL"}]

Steps == {"off", "go", "ratios", "arm", "spawn", "wait",
          "handoff", "drain", "gate_off", "prime", "remove", "place"}

\* fresh: when the swap was asked for, the file did not exist and nobody was left
\* who would make it.  drain: the old tenant has been told to stop.
Jobs == [old : Tenants, new : Tenants, gate : SUBSET Tenants,
         file : Files, fresh : BOOLEAN, drain : BOOLEAN]
NoJob == [old |-> NoTenant, new |-> NoTenant, gate |-> {}, fresh |-> FALSE, drain |-> FALSE]

TypeOK ==
    /\ sm \in States
    /\ thread \in Steps
    /\ job \in Jobs \cup {NoJob}
    /\ todo \subseteq job.gate
    /\ standby \in {"none", "running", "dead"} /\ stepped \in BOOLEAN
    /\ made \subseteq Files /\ others \subseteq Files
    /\ feeder \subseteq Tenants /\ armed \subseteq feeder /\ kept \subseteq feeder
    /\ ledger \subseteq Tenants
    /\ rearmed \subseteq Tenants /\ taken \in BOOLEAN
    /\ thread # "off" => job # NoJob

Init ==
    /\ sm = "NORMAL"
    /\ thread = "off" /\ job = NoJob /\ todo = {}
    /\ standby = "none" /\ stepped = FALSE /\ made = {} /\ others = {}
    /\ feeder = {} /\ armed = {} /\ kept = {} /\ rearmed = {}
    /\ ledger = {} /\ taken = FALSE

---------------------------------------------------------------------------
(* HTTP *)

\* Ready files that processes of swaps before the next one may still make.
Unwritten == IF standby = "running" /\ ~stepped THEN others \cup {job.file} ELSE others

\* _start_swap: refused while a swap is in progress (or if there is no room).  The
\* process of the last swap is left alone.
StartSwap(old, new, gate, file) ==
    /\ thread = "off"
    /\ job' = [old |-> old, new |-> new, gate |-> gate, file |-> file,
               fresh |-> file \notin made \cup Unwritten, drain |-> FALSE]
    /\ thread' = "go" /\ todo' = gate
    /\ standby' = "none" /\ stepped' = FALSE /\ others' = Unwritten
    /\ rearmed' = {} /\ taken' = FALSE
    /\ UNCHANGED <<sm, made, feeder, armed, kept, ledger>>

Register(t) ==
    /\ feeder' = feeder \cup {t}
    /\ armed' = armed \ {t}
    /\ kept' = kept \ {t}
    /\ UNCHANGED <<sm, thread, job, todo, procs, rearmed, books>>

Deregister(t) ==
    /\ feeder' = feeder \ {t}
    /\ armed' = armed \ {t}
    /\ kept' = kept \ {t}
    /\ UNCHANGED <<sm, thread, job, todo, procs, rearmed, books>>

\* The swap has made its last release of t.
GateIsOpened(t) == \/ thread \in {"prime", "remove", "place"}
                   \/ thread = "gate_off" /\ t \notin todo
                   \/ thread = "off" /\ sm = "NORMAL_PRIME"

\* POST /feeder/arm, or the priority broadcast, or the booster.
Arm(t) ==
    /\ t \in feeder
    /\ armed' = armed \cup {t}
    /\ rearmed' = IF GateIsOpened(t) THEN rearmed \cup {t} ELSE rearmed
    /\ UNCHANGED <<sm, thread, job, todo, procs, feeder, kept, books>>

Release(t) ==
    /\ armed' = armed \ {t}
    /\ UNCHANGED <<sm, thread, job, todo, procs, feeder, kept, rearmed, books>>

\* POST /feeder/ratios or ratios_release of others, or the end of a lease they took.
SetByOthers(t) ==
    /\ t \in kept
    /\ kept' = kept \ {t}
    /\ UNCHANGED <<sm, thread, job, todo, procs, feeder, armed, rearmed, books>>

\* The booster takes the entry of a name that has died out of the ledger.
BoosterRemoves(t) ==
    /\ ledger' = ledger \ {t}
    /\ taken' = (taken \/ t = job.new)
    /\ UNCHANGED <<sm, thread, job, todo, procs, gates>>

---------------------------------------------------------------------------
(* The swap thread *)

At(step) == thread = step

To(s) == s \in LEGAL[sm] /\ sm' = s

\* An exception nobody catches.
Ends == thread' = "off" /\ UNCHANGED <<sm, job, todo, procs, books>>
Raise == Ends /\ UNCHANGED gates

\* The first transition; not legal after an exception has left the machine in
\* GATED or HANDOFF.
Go ==
    /\ At("go")
    /\ \/ /\ To("GATED") /\ thread' = "ratios"
          /\ UNCHANGED <<job, todo, procs, gates, books>>
       \/ /\ "GATED" \notin LEGAL[sm]
          /\ Raise

\* The shares of those who are registered are the gate's from now on: set_ratios with
\* lease_s = 0, so no lease ends them.
SetShares(set) ==
    /\ kept' = kept \cup (set \cap feeder)
    /\ UNCHANGED <<feeder, armed, rearmed>>

\* gate_on, first: all the ratios, or those before one that is no number.
GateRatios ==
    /\ At("ratios")
    /\ \/ /\ SetShares(job.gate) /\ thread' = "arm"
          /\ UNCHANGED <<sm, job, todo, procs, books>>
       \/ \E t \in job.gate \cap feeder : \E set \in SUBSET (job.gate \ {t}) : SetShares(set) /\ Ends

\* gate_on, then: one tenant after the other is armed; KeyError if it is not registered.
GateArm ==
    /\ At("arm")
    /\ \/ /\ todo = {} /\ thread' = "spawn"
          /\ UNCHANGED <<sm, job, todo, procs, gates, books>>
       \/ \E t \in todo \cap feeder :
             /\ armed' = armed \cup {t}
             /\ todo' = todo \ {t}
             /\ UNCHANGED <<sm, thread, job, procs, feeder, kept, rearmed, books>>
       \/ todo \ feeder # {} /\ Raise

\* spawn_standby: the log cannot be opened, the command cannot be started.
Spawn ==
    /\ At("spawn")
    /\ \/ /\ standby' = "running" /\ thread' = "wait"
          /\ UNCHANGED <<sm, job, todo, stepped, made, others, gates, books>>
       \/ Raise

Ready == job.file \in made

\* The wait loop looks for the ready file first ...
SeesReady ==
    /\ At("wait") /\ Ready /\ thread' = "handoff"
    /\ UNCHANGED <<sm, job, todo, procs, gates, books>>

\* ... then at the process ...
SeesDead ==
    /\ At("wait") /\ ~Ready /\ standby = "dead"
    /\ To("FALLBACK_GATED") /\ thread' = "off"
    /\ UNCHANGED <<job, todo, procs, gates, books>>

\* Variants of TimesOut: the hand-over goes ahead; there is no deadline.
TimesOutAhead ==
    /\ At("wait") /\ ~Ready /\ standby # "dead"
    /\ thread' = "handoff"
    /\ UNCHANGED <<sm, job, todo, procs, gates, books>>

TimesNeverOut == FALSE /\ UNCHANGED vars

\* ... then at the clock.
TimesOut ==
    /\ At("wait") /\ ~Ready /\ standby # "dead"
    /\ To("FALLBACK_GATED") /\ thread' = "off"
    /\ UNCHANGED <<job, todo, procs, gates, books>>

Handoff ==
    /\ At("handoff") /\ To("HANDOFF") /\ thread' = "drain"
    /\ UNCHANGED <<job, todo, procs, gates, books>>

\* drain_old: the file is made, if its directory is there.
Drain ==
    /\ At("drain")
    /\ \/ /\ job' = [job EXCEPT !.drain = TRUE] /\ todo' = job.gate /\ thread' = "gate_off"
          /\ UNCHANGED <<sm, procs, gates, books>>
       \/ Raise

\* Variant of GateOff: only the old tenant is released.
GateOffOld ==
    /\ At("gate_off") /\ thread' = "prime"
    /\ armed' = armed \ {job.old}
    /\ UNCHANGED <<sm, job, todo, procs, feeder, kept, rearmed, books>>

\* gate_off: one tenant after the other is released, if it is there; its share stays.
GateOff ==
    /\ At("gate_off")
    /\ \/ /\ todo = {} /\ thread' = "prime"
          /\ UNCHANGED <<sm, job, todo, procs, gates, books>>
       \/ \E t \in todo :
             /\ armed' = armed \ {t}
             /\ todo' = todo \ {t}
             /\ UNCHANGED <<sm, thread, job, procs, feeder, kept, rearmed, books>>

Prime ==
    /\ At("prime") /\ To("NORMAL_PRIME") /\ thread' = "remove"
    /\ UNCHANGED <<job, todo, procs, gates, books>>

\* Once the machine is in NORMAL': the old entry is taken out ...
LedgerRemove ==
    /\ At("remove") /\ thread' = "place"
    /\ ledger' = ledger \ {job.old}
    /\ UNCHANGED <<sm, job, todo, procs, gates, taken>>

\* Variant of LedgerPlace: the standby's entry is made for the old name.
LedgerPlaceOld ==
    /\ At("place") /\ thread' = "off"
    /\ ledger' = ledger \cup {job.old} /\ taken' = FALSE
    /\ UNCHANGED <<sm, job, todo, procs, gates>>

\* ... and the standby's is made, perhaps under the same name.
LedgerPlace ==
    /\ At("place") /\ thread' = "off"
    /\ ledger' = ledger \cup {job.new} /\ taken' = FALSE
    /\ UNCHANGED <<sm, job, todo, procs, gates>>

Thread == \/ Go \/ GateRatios \/ GateArm \/ Spawn
          \/ SeesReady \/ SeesDead \/ TimesOut
          \/ Handoff \/ Drain \/ GateOff \/ Prime \/ LedgerRemove \/ LedgerPlace

---------------------------------------------------------------------------
(* The processes (external) *)

FirstStep ==
    /\ standby = "running" /\ ~stepped
    /\ stepped' = TRUE /\ made' = made \cup {job.file}
    /\ UNCHANGED <<sm, thread, job, todo, standby, others, gates, books>>

Dies ==
    /\ standby = "running"
    /\ standby' = "dead"
    /\ UNCHANGED <<sm, thread, job, todo, stepped, made, others, gates, books>>

\* A standby that an earlier swap gave up makes its first step.
LateStep(file) ==
    /\ file \in others
    /\ made' = made \cup {file} /\ others' = others \ {file}
    /\ UNCHANGED <<sm, thread, job, todo, standby, stepped, gates, books>>

Processes == FirstStep \/ Dies \/ \E file \in Files : LateStep(file)

Http ==
    \/ \E old, new \in Tenants, gate \in SUBSET Tenants, file \in Files :
          StartSwap(old, new, gate, file)
    \/ \E t \in Tenants : \/ Register(t) \/ Deregister(t) \/ Arm(t) \/ Release(t)
                          \/ SetByOthers(t) \/ BoosterRemoves(t)

Next == Http \/ Thread \/ Processes

Spec == Init /\ [][Next]_vars

\* A thread that is alive is scheduled; its deadline comes.
FairSpec == Spec /\ WF_vars(Thread)

---------------------------------------------------------------------------
(* Properties *)

Handing == job.drain \/ thread \in {"handoff", "drain", "gate_off", "prime"}

\* Make before break: if the ready file did not exist when the swap was asked for, and
\* no standby of an earlier swap was left to make it, nobody is told to stop before
\* the standby of this swap has made its first step, however often swaps run into
\* their deadline and are tried again.
MakeBeforeBreak == job.fresh /\ Handing => stepped

\* The seam of the hand-over is the standby's first step (machine.py:63), whatever
\* file the request names.  A file that is there from before, or that the standby of
\* a swap given up makes, is taken for it.
SeamIsFirstStep == job.drain => stepped

\* When a swap is over and the machine says NORMAL', the ledger has the new tenant's
\* entry unless the booster has taken just that one out again, and none of the old
\* one's, also when both have the same name.
PrimeIsBooked ==
    sm = "NORMAL_PRIME" /\ thread = "off" =>
        /\ job.new \in ledger \/ taken
        /\ job.old \in ledger => job.old = job.new

\* A swap that reaches NORMAL' leaves nobody of its gate armed whom nobody else has
\* armed since it released it: not who was deregistered and registered anew while the
\* swap was on, nor who had been armed by others before.
GateIsTakenOff ==
    sm = "NORMAL_PRIME" /\ thread # "go" => armed \cap job.gate \subseteq rearmed

\* gate_off is the way the shares that gate_on has set without a lease are cleaned up
\* (loop_api.py:306): after the swap none of them is left.
GateSharesAreCleared ==
    sm = "NORMAL_PRIME" /\ thread = "off" => job.gate \cap kept = {}

\* A swap comes to an end, whatever the standby does; only then is the next one
\* accepted.
SwapEnds == thread # "off" ~> thread = "off"

=============================================================================
