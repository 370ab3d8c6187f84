----------------------------- MODULE SwapProofs -----------------------------
(***************************************************************************)
(* Safety of the swap for any tenants, gates, ready files and orders of    *)
(* events: types, make before break, the gate that is taken off and the    *)
(* ledger's entry.  The strengthening says in which state of the machine   *)
(* the thread can be where; that the machine is left in GATED or HANDOFF by*)
(* an exception is allowed for ("off" goes with every state).              *)
(***************************************************************************)
EXTENDS Swap, TLAPS

\* Where the thread can be in which state of the machine, and what it works on.
Whereabouts ==
    /\ thread \in {"ratios", "arm", "spawn", "wait", "handoff"} => sm = "GATED"
    /\ thread \in {"drain", "gate_off", "prime"} => sm = "HANDOFF"
    /\ thread \in {"remove", "place"} => sm = "NORMAL_PRIME"
    /\ standby # "none" => job # NoJob

\* The thread goes on only with a ready file, which then stays ...
HandingIsReady == Handing => job.file \in made

\* ... and a fresh one is made by nobody but the standby of this swap.
FreshIsUnmade == job.fresh /\ ~stepped => job.file \notin made \cup others

\* Whom the swap has released for good is armed only by others.
OpenedStaysOpen == \A t \in job.gate \cap armed : GateIsOpened(t) => t \in rearmed

\* What is done already when the thread is past it.
OldIsOut == thread = "place" => job.old \notin ledger

Seam == HandingIsReady /\ FreshIsUnmade
Books == OldIsOut /\ PrimeIsBooked

SafeInv == TypeOK /\ Whereabouts /\ Seam /\ OpenedStaysOpen /\ Books

---------------------------------------------------------------------------

\* The job of a swap that has begun, and the one thing that changes of it.
LEMMA JobIs ==
    ASSUME TypeOK, job # NoJob
    PROVE  /\ job \in Jobs
           /\ job.old \in Tenants /\ job.new \in Tenants /\ job.gate \subseteq Tenants
           /\ job.file \in Files /\ job.fresh \in BOOLEAN
           /\ [job EXCEPT !.drain = TRUE] \in Jobs
  BY DEF TypeOK, Jobs

LEMMA JobsAreSome ==
    NoJob \notin Jobs /\ NoJob.gate = {} /\ ~NoJob.fresh /\ ~NoJob.drain /\ NoJob.new \notin Tenants
  BY TenantAssumption DEF NoJob, Jobs

\* The transitions.
LEMMA LegalIs ==
    /\ LEGAL["NORMAL"] = {"GATED"} /\ LEGAL["GATED"] = {"HANDOFF", "FALLBACK_GATED"}
    /\ LEGAL["HANDOFF"] = {"NORMAL_PRIME"} /\ LEGAL["NORMAL_PRIME"] = {"GATED"}
    /\ LEGAL["FALLBACK_GATED"] = {"GATED", "NORMAL"}
  BY DEF LEGAL, States

LEMMA SafeAtFirst == Init => SafeInv
  BY JobsAreSome DEF Init, SafeInv, TypeOK, Whereabouts, Seam, HandingIsReady, FreshIsUnmade, Handing,
     OpenedStaysOpen, GateIsOpened, Books, OldIsOut, PrimeIsBooked, States, Steps

LEMMA RequestsAreSafe ==
    ASSUME SafeInv, NEW old \in Tenants, NEW new \in Tenants, NEW gate \in SUBSET Tenants,
           NEW file \in Files, StartSwap(old, new, gate, file)
    PROVE  SafeInv'
<1>1. Unwritten \subseteq Files
  BY JobIs DEF Unwritten, SafeInv, TypeOK, Whereabouts
<1>2. /\ job' \in Jobs /\ job'.old = old /\ job'.new = new /\ job'.gate = gate
      /\ job'.file = file /\ job'.fresh = (file \notin made \cup Unwritten) /\ ~job'.drain
  BY DEF StartSwap, Jobs
<1>3. /\ thread' = "go" /\ todo' = gate /\ standby' = "none" /\ ~stepped' /\ others' = Unwritten
      /\ rearmed' = {} /\ ~taken' /\ taken' \in BOOLEAN /\ stepped' \in BOOLEAN
      /\ UNCHANGED <<sm, made, feeder, armed, kept, ledger>>
  BY DEF StartSwap
<1>4. TypeOK'
  <2>1. TypeOK
    BY DEF SafeInv
  <2>2. job' \in Jobs \cup {NoJob} /\ todo' \subseteq job'.gate /\ job' # NoJob
    BY <1>2, <1>3, JobsAreSome
  <2>3. thread' \in Steps /\ standby' \in {"none", "running", "dead"} /\ others' \subseteq Files
    BY <1>1, <1>3 DEF Steps
  <2> HIDE DEF Jobs, NoJob, Steps, States
  <2> QED BY <1>3, <2>1, <2>2, <2>3 DEF TypeOK
<1>6. Whereabouts'
  BY <1>2, <1>3 DEF Whereabouts
<1>5. Seam' /\ OpenedStaysOpen' /\ Books'
  BY <1>2, <1>3 DEF Seam, HandingIsReady, FreshIsUnmade, Handing, OpenedStaysOpen, GateIsOpened, Books,
     OldIsOut, PrimeIsBooked
<1> QED BY <1>4, <1>5, <1>6 DEF SafeInv

\* What the HTTP server does to the feeder's table beside the swap.
LEMMA FeederIsSafe ==
    ASSUME SafeInv, NEW t \in Tenants,
           Register(t) \/ Deregister(t) \/ Arm(t) \/ Release(t) \/ SetByOthers(t)
    PROVE  SafeInv'
<1>1. /\ UNCHANGED <<sm, thread, job, todo, procs, books>>
      /\ feeder' \subseteq Tenants /\ armed' \subseteq feeder' /\ kept' \subseteq feeder'
      /\ rearmed \subseteq rearmed' /\ rearmed' \subseteq Tenants
  BY DEF Register, Deregister, Arm, Release, SetByOthers, SafeInv, TypeOK
<1>2. \A u \in armed' \ armed : GateIsOpened(u) => u \in rearmed'
  BY DEF Register, Deregister, Arm, Release, SetByOthers
<1>3. TypeOK' /\ Whereabouts' /\ Seam' /\ Books'
  BY <1>1 DEF SafeInv, TypeOK, Whereabouts, Seam, HandingIsReady, FreshIsUnmade, Handing, Books,
     OldIsOut, PrimeIsBooked, procs, books
<1>4. OpenedStaysOpen'
  <2>1. \A u : GateIsOpened(u)' = GateIsOpened(u)
    BY <1>1 DEF GateIsOpened
  <2> QED BY <1>1, <1>2, <2>1 DEF SafeInv, OpenedStaysOpen
<1> QED BY <1>3, <1>4 DEF SafeInv

LEMMA BoosterIsSafe ==
    ASSUME SafeInv, NEW t \in Tenants, BoosterRemoves(t)
    PROVE  SafeInv'
<1>1. /\ ledger' = ledger \ {t} /\ taken' = (taken \/ t = job.new)
      /\ UNCHANGED <<sm, thread, job, todo, procs, gates>>
  BY DEF BoosterRemoves
<1> QED
  BY <1>1 DEF SafeInv, TypeOK, Whereabouts, Seam, HandingIsReady, FreshIsUnmade, Handing,
     OpenedStaysOpen, GateIsOpened, Books, OldIsOut, PrimeIsBooked, procs, gates

\* An exception ends the thread; the machine is not in NORMAL' then.
LEMMA EndsIsSafe ==
    ASSUME SafeInv, Ends, sm # "NORMAL_PRIME", thread # "off",
           feeder' = feeder, armed' = armed, rearmed' = rearmed, kept' \subseteq feeder
    PROVE  SafeInv'
<1>1. thread' = "off" /\ UNCHANGED <<sm, job, todo, procs, books>>
  BY DEF Ends
<1> QED
  BY <1>1 DEF SafeInv, TypeOK, Whereabouts, Seam, HandingIsReady, FreshIsUnmade, Handing,
     OpenedStaysOpen, GateIsOpened, Books, OldIsOut, PrimeIsBooked, procs, books, Steps

LEMMA RaiseIsSafe ==
    ASSUME SafeInv, Raise, sm # "NORMAL_PRIME", thread # "off"
    PROVE  SafeInv'
  BY EndsIsSafe DEF Raise, gates, SafeInv, TypeOK

LEMMA ProcessesAreSafe ==
    ASSUME SafeInv, Processes
    PROVE  SafeInv'
<1>1. UNCHANGED <<sm, thread, job, todo, gates, books>>
  BY DEF Processes, FirstStep, Dies, LateStep
<1>2. TypeOK' /\ Whereabouts'
  BY <1>1, JobIs DEF Processes, FirstStep, Dies, LateStep, SafeInv, TypeOK, Whereabouts, gates, books
<1>3. made \subseteq made' /\ others' \subseteq others /\ (stepped => stepped')
  BY DEF Processes, FirstStep, Dies, LateStep
<1>4. HandingIsReady'
  BY <1>1, <1>3 DEF SafeInv, Seam, HandingIsReady, Handing
<1>5. FreshIsUnmade'
  <2> SUFFICES ASSUME job.fresh, ~stepped' PROVE job.file \notin made' \cup others'
    BY <1>1 DEF FreshIsUnmade
  <2>1. job.file \notin made \cup others
    BY <1>3 DEF SafeInv, Seam, FreshIsUnmade
  <2>2. ~FirstStep
    BY DEF FirstStep
  <2> QED
    BY <2>1, <2>2 DEF Processes, Dies, LateStep
<1>6. OpenedStaysOpen' /\ Books'
  BY <1>1 DEF SafeInv, OpenedStaysOpen, GateIsOpened, Books, OldIsOut, PrimeIsBooked, gates, books
<1> QED BY <1>2, <1>4, <1>5, <1>6 DEF SafeInv, Seam

\* A step that only moves the thread along, within a state of the machine or to one.
LEMMA MovesAreSafe ==
    ASSUME SafeInv, thread \notin {"off", "place"}, thread' \in Steps, sm' \in States,
           UNCHANGED <<job, todo, procs, gates, books>>, Whereabouts',
           Handing' => Handing \/ job.file \in made,
           \A t \in job.gate \cap armed : GateIsOpened(t)' => t \in rearmed \/ GateIsOpened(t),
           thread' = "place" => job.old \notin ledger,
           ~(sm' = "NORMAL_PRIME" /\ thread' = "off")
    PROVE  SafeInv'
<1>1. TypeOK'
  BY DEF SafeInv, TypeOK, procs, gates, books
<1>2. Seam' /\ Books'
  BY DEF SafeInv, Seam, HandingIsReady, FreshIsUnmade, Handing, Books, OldIsOut, PrimeIsBooked, procs, books
<1>3. OpenedStaysOpen'
  BY DEF SafeInv, OpenedStaysOpen, gates
<1> QED BY <1>1, <1>2, <1>3 DEF SafeInv

LEMMA ThreadIsSafe ==
    ASSUME SafeInv, Thread
    PROVE  SafeInv'
<1>n. thread # "off"
  BY DEF Thread, Go, GateRatios, GateArm, Spawn, SeesReady, SeesDead, TimesOut, Handoff, Drain, GateOff,
     Prime, LedgerRemove, LedgerPlace, At
<1>j. job # NoJob /\ job \in Jobs
  BY <1>n, JobIs DEF SafeInv, TypeOK
<1> USE DEF At, To
<1>1. CASE Go
  <2>1. CASE "GATED" \in LEGAL[sm] /\ sm' = "GATED" /\ thread' = "ratios" /\ UNCHANGED <<job, todo, procs, gates, books>>
    BY <2>1, <1>1, <1>j, MovesAreSafe DEF Go, Whereabouts, Handing, GateIsOpened, Steps, States
  <2>2. CASE "GATED" \notin LEGAL[sm] /\ Raise
    BY <1>n, <2>2, RaiseIsSafe, LegalIs
  <2> QED BY <1>1, <2>1, <2>2 DEF Go
<1>2. CASE GateRatios
  <2>1. thread = "ratios" /\ sm = "GATED"
    BY <1>2 DEF GateRatios, SafeInv, Whereabouts
  <2>2. feeder' = feeder /\ armed' = armed /\ rearmed' = rearmed /\ kept' \subseteq feeder
    BY <1>2 DEF GateRatios, SetShares, SafeInv, TypeOK
  <2>3. CASE Ends
    BY <1>n, <2>1, <2>2, <2>3, EndsIsSafe
  <2>4. CASE ~Ends
    <3>1. thread' = "arm" /\ UNCHANGED <<sm, job, todo, procs, books>>
      BY <1>2, <2>4 DEF GateRatios
    <3> QED
      BY <1>j, <2>1, <2>2, <3>1 DEF SafeInv, TypeOK, Whereabouts, Seam, HandingIsReady, FreshIsUnmade,
         Handing, OpenedStaysOpen, GateIsOpened, Books, OldIsOut, PrimeIsBooked, procs, books, Steps
  <2> QED BY <2>3, <2>4
<1>3. CASE GateArm
  <2>1. thread = "arm" /\ sm = "GATED"
    BY <1>3 DEF GateArm, SafeInv, Whereabouts
  <2>2. CASE Raise
    BY <1>n, <2>1, <2>2, RaiseIsSafe
  <2>3. CASE todo = {} /\ thread' = "spawn" /\ UNCHANGED <<sm, job, todo, procs, gates, books>>
    BY <1>j, <2>1, <2>3, MovesAreSafe DEF Whereabouts, SafeInv, Handing, GateIsOpened, Steps, TypeOK, procs
  <2>4. CASE \E t \in todo \cap feeder :
                /\ armed' = armed \cup {t} /\ todo' = todo \ {t}
                /\ UNCHANGED <<sm, thread, job, procs, feeder, kept, rearmed, books>>
    BY <1>j, <2>1, <2>4 DEF SafeInv, TypeOK, Whereabouts, Seam, HandingIsReady, FreshIsUnmade,
       Handing, OpenedStaysOpen, GateIsOpened, Books, OldIsOut, PrimeIsBooked, procs, books
  <2> QED BY <1>3, <2>2, <2>3, <2>4 DEF GateArm
<1>4. CASE Spawn
  <2>1. thread = "spawn" /\ sm = "GATED"
    BY <1>4 DEF Spawn, SafeInv, Whereabouts
  <2>2. CASE Raise
    BY <1>n, <2>1, <2>2, RaiseIsSafe
  <2>3. CASE ~Raise
    <3>1. /\ standby' = "running" /\ thread' = "wait"
          /\ UNCHANGED <<sm, job, todo, stepped, made, others, gates, books>>
      BY <1>4, <2>3 DEF Spawn
    <3> QED
      BY <1>j, <2>1, <3>1 DEF SafeInv, TypeOK, Whereabouts, Seam, HandingIsReady, FreshIsUnmade,
         Handing, OpenedStaysOpen, GateIsOpened, Books, OldIsOut, PrimeIsBooked, gates, books, Steps
  <2> QED BY <2>2, <2>3
<1>5. CASE SeesReady
  BY <1>5, <1>j, MovesAreSafe DEF SeesReady, Ready, Whereabouts, SafeInv, Handing, GateIsOpened, Steps, TypeOK, procs
<1>6. CASE SeesDead \/ TimesOut
  BY <1>6, <1>j, MovesAreSafe DEF SeesDead, TimesOut, Whereabouts, SafeInv, Handing, GateIsOpened, Steps,
     States, TypeOK, procs
<1>7. CASE Handoff
  BY <1>7, <1>j, MovesAreSafe DEF Handoff, Whereabouts, SafeInv, Handing, GateIsOpened, Steps, States, TypeOK, procs
<1>8. CASE Drain
  <2>1. thread = "drain" /\ sm = "HANDOFF"
    BY <1>8 DEF Drain, SafeInv, Whereabouts
  <2>2. CASE Raise
    BY <1>n, <2>1, <2>2, RaiseIsSafe
  <2>3. CASE ~Raise
    <3>1. /\ job' = [job EXCEPT !.drain = TRUE] /\ todo' = job.gate /\ thread' = "gate_off"
          /\ UNCHANGED <<sm, procs, gates, books>>
      BY <1>8, <2>3 DEF Drain
    <3>2. /\ job' \in Jobs /\ job'.old = job.old /\ job'.new = job.new /\ job'.gate = job.gate
          /\ job'.file = job.file /\ job'.fresh = job.fresh /\ job'.drain
      BY <1>j, <3>1, JobIs DEF SafeInv, Jobs
    <3> HIDE DEF Jobs
    <3>3. TypeOK' /\ Whereabouts'
      BY <1>j, <2>1, <3>1, <3>2, JobsAreSome DEF SafeInv, TypeOK, Whereabouts, procs, gates, books, Steps
    <3>4. Seam' /\ Books'
      BY <2>1, <3>1, <3>2 DEF SafeInv, Seam, HandingIsReady, FreshIsUnmade, Handing, Books, OldIsOut,
         PrimeIsBooked, procs, books
    <3>5. OpenedStaysOpen'
      BY <2>1, <3>1, <3>2 DEF OpenedStaysOpen, GateIsOpened
    <3> QED BY <3>3, <3>4, <3>5 DEF SafeInv
  <2> QED BY <2>2, <2>3
<1>9. CASE GateOff
  <2>1. thread = "gate_off" /\ sm = "HANDOFF"
    BY <1>9 DEF GateOff, SafeInv, Whereabouts
  <2>2. CASE todo = {} /\ thread' = "prime" /\ UNCHANGED <<sm, job, todo, procs, gates, books>>
    BY <1>j, <2>1, <2>2, MovesAreSafe DEF Whereabouts, SafeInv, Handing, GateIsOpened, Steps, TypeOK, procs
  <2>3. CASE \E t \in todo :
                /\ armed' = armed \ {t} /\ todo' = todo \ {t}
                /\ UNCHANGED <<sm, thread, job, procs, feeder, kept, rearmed, books>>
    BY <1>j, <2>1, <2>3 DEF SafeInv, TypeOK, Whereabouts, Seam, HandingIsReady, FreshIsUnmade,
       Handing, OpenedStaysOpen, GateIsOpened, Books, OldIsOut, PrimeIsBooked, procs, books
  <2> QED BY <1>9, <2>2, <2>3 DEF GateOff
<1>10. CASE Prime
  BY <1>10, <1>j, MovesAreSafe DEF Prime, Whereabouts, SafeInv, Handing, GateIsOpened, Steps, States, TypeOK, procs
<1>11. CASE LedgerRemove
  BY <1>11, <1>j DEF LedgerRemove, SafeInv, TypeOK, Whereabouts, Seam, HandingIsReady, FreshIsUnmade,
     Handing, OpenedStaysOpen, GateIsOpened, Books, OldIsOut, PrimeIsBooked, procs, gates, Steps
<1>12. CASE LedgerPlace
  BY <1>12, <1>j, JobIs DEF LedgerPlace, SafeInv, TypeOK, Whereabouts, Seam, HandingIsReady, FreshIsUnmade,
     Handing, OpenedStaysOpen, GateIsOpened, Books, OldIsOut, PrimeIsBooked, procs, gates, Steps
<1> QED
  BY <1>1, <1>2, <1>3, <1>4, <1>5, <1>6, <1>7, <1>8, <1>9, <1>10, <1>11, <1>12 DEF Thread

\* The inductive invariant of the swap.
THEOREM SwapInvariant == Spec => []SafeInv
<1>1. SafeInv /\ [Next]_vars => SafeInv'
  <2> SUFFICES ASSUME SafeInv, [Next]_vars PROVE SafeInv'
    OBVIOUS
  <2>1. CASE UNCHANGED vars
    BY <2>1 DEF vars, SafeInv, TypeOK, Whereabouts, Seam, HandingIsReady, FreshIsUnmade,
       Handing, OpenedStaysOpen, GateIsOpened, Books, OldIsOut, PrimeIsBooked, procs, gates, books
  <2> QED
    BY <2>1, RequestsAreSafe, FeederIsSafe, BoosterIsSafe, ProcessesAreSafe, ThreadIsSafe DEF Next, Http
<1> QED
  BY <1>1, SafeAtFirst, PTL DEF Spec

\* The swap's state is of its types.
THEOREM SwapTypeCorrect == Spec => []TypeOK
  BY SwapInvariant, PTL DEF SafeInv

\* With a fresh ready file nobody is told to stop before the standby has made its
\* first step, whatever swaps before it have left running.
THEOREM MadeBeforeBroken == Spec => []MakeBeforeBreak
<1>1. SafeInv => MakeBeforeBreak
  BY DEF SafeInv, Seam, HandingIsReady, FreshIsUnmade, MakeBeforeBreak
<1> QED BY <1>1, SwapInvariant, PTL

\* A swap that reaches NORMAL' leaves nobody of its gate armed but whom others armed.
THEOREM GateIsOffAtEnd == Spec => []GateIsTakenOff
<1>1. SafeInv => GateIsTakenOff
  <2> SUFFICES ASSUME SafeInv, sm = "NORMAL_PRIME", thread # "go", NEW t \in armed \cap job.gate
               PROVE  t \in rearmed
    BY DEF GateIsTakenOff
  <2>1. thread \in {"remove", "place", "off"}
    BY DEF SafeInv, Whereabouts, TypeOK, Steps
  <2> QED BY <2>1 DEF SafeInv, OpenedStaysOpen, GateIsOpened
<1> QED BY <1>1, SwapInvariant, PTL

\* The ledger holds the new tenant in place of the old one when a swap is over, but for
\* what the booster has taken out since.
THEOREM NewIsBooked == Spec => []PrimeIsBooked
  BY SwapInvariant, PTL DEF SafeInv, Books

---------------------------------------------------------------------------
(* That a swap ends needs fairness, and is checked; that it cannot go on for ever, and *)
(* is not held up by the machine, are facts of its steps.                              *)

\* How many places lie before the thread.
Ahead == [s \in Steps |->
    CASE s = "off" -> 0 [] s = "place" -> 1 [] s = "remove" -> 2 [] s = "prime" -> 3
      [] s = "gate_off" -> 4 [] s = "drain" -> 5 [] s = "handoff" -> 6 [] s = "wait" -> 7
      [] s = "spawn" -> 8 [] s = "arm" -> 9 [] s = "ratios" -> 10 [] s = "go" -> 11]

\* Ahead, place by place.
LEMMA AheadIs ==
    /\ Ahead["off"] = 0 /\ Ahead["place"] = 1 /\ Ahead["remove"] = 2 /\ Ahead["prime"] = 3
    /\ Ahead["gate_off"] = 4 /\ Ahead["drain"] = 5 /\ Ahead["handoff"] = 6 /\ Ahead["wait"] = 7
    /\ Ahead["spawn"] = 8 /\ Ahead["arm"] = 9 /\ Ahead["ratios"] = 10 /\ Ahead["go"] = 11
  BY DEF Ahead, Steps

Nearer == Ahead[thread'] < Ahead[thread]
FewerToDo == thread' = thread /\ todo' \subseteq todo /\ todo' # todo

\* Whatever the thread of a swap does brings it nearer to its end, or arms or releases one
\* more of a gate that nobody adds to; and nothing else moves it.  So a swap takes at most
\* eleven steps and two for each of its gate, whatever the processes and the other callers
\* do: it is never retried, and never goes back to an earlier state of the machine.
Advance ==
    /\ Thread => Nearer \/ FewerToDo
    /\ thread # "off" /\ ~Thread => thread' = thread /\ todo' = todo
Advances == [][Advance]_vars

\* A swap takes at most eleven steps and two for each of its gate, for any tenants.
THEOREM SwapAdvances == Spec => Advances
<1>1. SafeInv /\ [Next]_vars => [Advance]_vars
  <2> SUFFICES ASSUME SafeInv, Next PROVE Advance
    OBVIOUS
  <2>1. ASSUME Thread PROVE Nearer \/ FewerToDo
    <3>1. CASE GateArm \/ GateOff
      BY <3>1, AheadIs DEF GateArm, GateOff, At, Raise, Ends, Nearer, FewerToDo
    <3>2. CASE ~GateArm /\ ~GateOff
      BY <2>1, <3>2, AheadIs DEF Thread, At, Raise, Ends, Go, GateRatios, Spawn, SeesReady, SeesDead,
         TimesOut, Handoff, Drain, Prime, LedgerRemove, LedgerPlace, Nearer
    <3> QED BY <3>1, <3>2
  <2>2. ASSUME thread # "off", ~Thread PROVE thread' = thread /\ todo' = todo
    BY <2>2 DEF Next, Http, StartSwap, Register, Deregister, Arm, Release, SetByOthers, BoosterRemoves,
       Processes, FirstStep, Dies, LateStep
  <2> QED BY <2>1, <2>2 DEF Advance
<1> QED BY <1>1, SwapInvariant, PTL DEF Spec, Advances

\* Where the thread is about to make a later transition the machine allows it: no swap
\* that has begun ends in an IllegalTransition half way.
LaterTransitionsAreLegal ==
    /\ thread = "wait" => "FALLBACK_GATED" \in LEGAL[sm]
    /\ thread = "handoff" => "HANDOFF" \in LEGAL[sm]
    /\ thread = "prime" => "NORMAL_PRIME" \in LEGAL[sm]

\* Only the first transition of a swap can be refused.
THEOREM OnlyTheFirstIsRefused == Spec => []LaterTransitionsAreLegal
<1>1. SafeInv => LaterTransitionsAreLegal
  BY LegalIs DEF SafeInv, Whereabouts, LaterTransitionsAreLegal
<1> QED BY <1>1, SwapInvariant, PTL

=============================================================================
