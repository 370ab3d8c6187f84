# Verification of pooling-resource-manager

TLA+ models of the KRAKEN controller (`src/controller`, `src/shm`), the TLC runs that
check them, and TLAPS proofs about its core. The controller decides how much of a GPU
each tenant (a device ID that the Kubernetes device plugin hands to pods) may use, and
keeps injecting that decision into the tenants' runtime, libbless, which is not part of
the repository.

## 1. The system

### Threads and processes

| Who | Runs | Touches |
|---|---|---|
| HTTP server (`kraken_controller.py`, one thread: `HTTPServer`) | every route, `loop_api` included | registry, overcommit, feeder, booster, priority, swap |
| feeder thread (`feeder/feeder.py`, `_run`) | a pass per tick | share table, budgets |
| idle thread (`kraken_controller.py:530`) | `tick_idle_check` each second | shared-memory table |
| swap thread (`loop_api._start_swap`) | one cycle of `lifecycle/machine.py` | state machine, feeder, ledger |
| booster watchers (`booster.py`) and its arm loop | reclaim of dead tenants | feeder, ledger, and over HTTP the slot table |
| event subscribers (`lifecycle/subscribe.py`) | one per subscription | whatever their handler calls |
| interference loop, slice loop (processes of their own) | `closed_loop.main`, `slice_loop.main` | the feeder, over HTTP |
| scanner, tenants, device plugin | outside | logs, sockets, shared memory |

### Components

| Component | State | Operations | What makes it correct | Model |
|---|---|---|---|---|
| Share table (`feeder.py`) | contract, applied share, leases | register, deregister, set_ratios, release_ratio_lease, expiry by the feeder thread | a share leaves its contract only for a time or by an opt-out, and comes back unless a failed opt-out strands it | `RatioLease`, `ShareContract` |
| Budgets, idle shares (`feeder.py`) | armed flags, hunger states, extras | tick, evaluation, arm, release | the pool is not exceeded, extras are earned, no swinging | `IdleShares` |
| Interference loop | ladder, generations, hand-off flags | a round; crash, stop, restart | order of the stages, no swinging, nobody left throttled | `ClosedLoop` |
| Slice loop | base, factor, streaks by name | a round; restart | belief and feeder agree, pace | `SliceLoop` |
| Shared table (`registry.py`, `overcommit.py`, `kraken_shm.py`) | slots, totals, mode | register, deregister (also by name), profiling, idle pass | one slot per tenant, count covers all, no slot is stolen | `SlotTable` |
| Swap (`machine.py`, `loop_api._start_swap`) | state machine, job, ready files | one cycle | make before break, gate and ledger follow | `Swap` |
| Ledger and ratio engine | entries; pure decisions | place, remove, view; decide | what is decided fits, refusals have a cause | `Placement` |
| Pair policies (`ratio/pair.py`) | none | decide_pair | every contract served, fallbacks safe | `Pair` |
| Booster | registrations, armed flags, watchers | register, arm, enable, disable, poll, event, pipeline | only the dead are reclaimed, and all of them | `Booster` |
| Priority broadcaster (`priority.py`) | urgent holder, tenants to clear | set_priority, urgent, urgent_clear | everyone who was asked to wait is cleared | `Priority` |
| Gate link (`feeder.py`: datagrams to the tenants) | armed flags, sends under way, the pass | arm, release, a pass of `_run` | the gate follows the flag, the armed are fed, the released are not | `FeederLink` (not the control check and the work-conserving push) |
| Scheduler, allocator, metrics, agent, scanner, schedctl, webhook | little or none | I/O, wording, parsing | - | not modelled |

The hard parts: the feeder reads the clock before it takes the lock; the shared-memory
table is written by two threads without one; device IDs are reused, and almost every
table goes by that name; the HTTP server has one thread and the booster's watcher calls
back into it; the feeder's table changes under a lock and its datagrams go out after it;
the control loops are processes that can be killed at any place and whose
posts can be lost; several operations call things that raise half way. `PROJECT.json`
lists each hazard at its line with the properties that cover it.

## 2. The modules

| Module | Extends | Models |
|---|---|---|
| `PyDict` | | Python dictionaries as functions |
| `ShareContract` | | abstract: what the feeder promises of a share, with no clock, lock or thread |
| `RatioLease` | `PyDict` | `Feeder.register`, `deregister`, `set_ratios`, `release_ratio_lease`, `_expire_leases`, head of `_run`; `KeepsPromise` is its refinement of `ShareContract` |
| `IdleShares` | `PyDict` | `Feeder.budgets`, `_redistribute`, `arm`, `release` |
| `ClosedLoop` | | `closed_loop.main` with `read_obs`, `actuate`, `renew_lease`, and the feeder's view of it |
| `SliceLoop` | `PyDict` | `slice_loop.main` and the feeder's view of it |
| `SlotTable` | | `TenantRegistry`, `OvercommitManager`, the routes that reach them |
| `Swap` | | `StateMachine`, `SwapOrchestrator.run`, the closures of `_start_swap` |
| `Placement` | `PyDict` | `ResidualLedger`, `decide`, `bless_limit_pct`, the swap's and the booster's use of them |
| `Pair` | `Placement` | `decide_pair` |
| `Booster` | `PyDict` | `Booster` and the `EventSubscriber` it starts |
| `FeederLink` | | `Feeder.arm`, `release`, `register`, `deregister`, the pass of `_run`, each datagram a step, and the processes they go to |
| `Priority` | `FeederLink` | `PriorityManager` on the same table and sockets |
| `*Proofs` | its module, `TLAPS` | theorems and lemmas of the module it is named after: `RatioLease`, `ClosedLoop`, `SliceLoop`, `SlotTable`, `Swap`, `Booster`; `TenantLinkProofs` those of `FeederLink` and `Priority`, `SharesProofs` those of `IdleShares`, `Placement` and `Pair`, which share the facts about sums |

Each `MC*` module instantiates the module of its name for TLC (`MCTenantLink` the two
before the last row, `MCShares` `IdleShares`, `Placement` and `Pair`), and each `.cfg` is
a run.
Definitions called "Variant of X" are wrong versions of X (a dropped guard, a missing
reset); they belong to no specification. `PROJECT.json` pairs each with the property that
has to reject it.

How state and actions correspond to the code:

* **RatioLease.** `tenants`, `lease` are `_tenants`, `_ratio_lease`. `set_ratios` and
  `_expire_leases` are two actions each, the reading of the clock (`SetRatiosRead`,
  `RestoreRead`) and the part under the lock, so any other thread comes between; `pend`
  holds the time read. A value `float()` refuses raises in the middle of the loop
  (`SetRatios`, second disjunct): its lease is written, or taken away by an opt-out, its
  share is not, and any of the entries before it are. `waived` and `stranded` are history:
  shares that an opt-out has written, and shares on loan whose lease an opt-out took away
  before it failed. A new value, a lease or a registration ends both.
* **IdleShares.** `Tick` and `Evaluate` are one call of `budgets`, without and with an
  evaluation. The sum of granted minus charged credit is abstracted to the three things
  the code does with it (wants, leaves, unreadable).
* **ClosedLoop.** `pc` is the place in the body of `while True`; `Observe`, `Calibrate`
  and one rule make a round. Every comparison in the loop has the form now - x >= T, so
  instants are ages that stop at the largest T. Observations are any that the code can
  tell apart. The message that narrows the aggressor's mask (`Narrowed`) can fail, and the
  level counts all the same; `narrowing` is history of what became of it. `Crash` is
  possible in every place, `Restart` starts from the same locals
  as `main` with the feeder as it was left.
* **SliceLoop.** A round is `Sample` and one of `Unknown`, `Hold`, `Bounded`, `Move` for
  every tenant of the snapshot; the environment hands in the judgement and may lose the
  sample or the post.
* **SlotTable.** `work[c]` is what thread c has read and not written yet: `total += x` is
  a read and a write, the mode is judged and set in two steps. A move of the idle thread
  reads the slot's name (`Look`), its `active` (`CheckActive`), writes `active` and reads
  the total (`Switch`) and writes that (`WriteTotal`); the HTTP thread comes between any
  two. The plain writes of a registration or deregistration are taken together with that
  of the total. A registration may have no name (`NoId`), as the code allows. The tenants'
  processes write `gate_state` and `active` (`Attach`, `Gate`, external).
* **Swap.** One action per step of the orchestrator, with `Raise` where the code can
  raise. An exception ends the thread where it is; nothing catches it. Beside the thread
  run the callers of arm, release, ratios, register and deregister, the booster's removals
  from the ledger, and the processes of this and of earlier swaps. `made` are the ready
  files that exist: the controller looks at nothing else and deletes none, so a file may
  be there when the swap starts (`fresh` says that it was not, and that no earlier standby
  is left to make it). `kept` are shares a swap has set with `lease_s=0` and nobody since;
  `rearmed` and `taken` are history: what others have done to the gate and the entry after
  the swap was done with them. Old and new tenant may have one name.
* **Placement.** Shares are integers (steps of the grid, of the rounding), so the float
  tolerance EPS has no counterpart: at the bounds the model compares exactly, which is
  what EPS is for. A swap reads its view in `StartSwap` and makes its entry in `Place`.
  The names `LedgerSpec`, `LedgerTypeOK` and so on keep it apart from `IdleShares`, with
  which `SharesProofs` extends it.
* **Pair.** `decide_pair` is an operator on lists; a cap on SMs is counted in the unit of
  requests, since it is not on the grid. The property is a fact of the lists alone, so the
  first state shows it.
* **Booster.** `watch[w]` is the place of a watcher thread; `http` says that the HTTP
  thread waits in `disable()`. Subscribers have a stop event each, poll threads share
  `_poll_stop`, which `enable` clears. A POST that is given up stays in `late` and may be
  served later. A pod does not wait for its registrations, and a registration by hand does
  not look at the pod; `clean` is history: nobody was busy with the name when its pod
  came, it was registered before it went on, and by hand only while it was up.
* **FeederLink.** `op[c]` is what thread c has still to send, and to whom: `arm` is the
  flag under the lock, then `SendMode` and `SendCredit`, `release` the flag and then
  `SendOpen`, and any other thread comes between. `todo` and `sending` are the feeder
  thread's pass: whom it has still to feed, and the socket it has looked up. `timed` and
  `limited` are what the process makes of the datagrams (external); a datagram to a name
  nobody listens on changes nothing, one to a living process can fail (`SendFails`), and
  the sender does not look. A budget that fails is one tick's and left out. `Starts`,
  `Dies` and `Restarts` (of the controller) leave the other side as it was. `got`, `stray`
  and `undisturbed` are history.
* **Priority.** `req` is the loop of `urgent` or `urgent_clear`, one send a step (`Ask`,
  `Clear`; `Misses` is one that fails), so entries can be taken out under it (`Fails`: the
  KeyError half way). The set is recorded or forgotten after the loop (`Done`), as in the
  code. `tidy` is history: no urgent has failed half way, or come before the last one was
  cleared, and no clear was lost.

## 3. The runs

All bounds are named in the modules; sizes are of one complete exploration.

| Run | Instance | Distinct states | Shows |
|---|---|---|---|
| `ratio_lease` | 2 devices, a caller and the feeder thread, 2 shares, clock to 2, last call at 1 | 154,817 | no inherited lease, every share off its contract accounted for, the feeder ends only what is over, loans come home, refinement of `ShareContract` |
| `closed_loop` | 2 possible aggressors, deployed ladder and times in seconds, rounds of 1 or 2 s | 875,711 | space tried, or given up, before relocation, rest is off, no swinging |
| `closed_loop_live` | 1 aggressor, one rung less, any post may fail | 136,738 | a killed loop lets go; a calm victim is released |
| `slot_table` | 3 tenants, 2 slots, word of 2 bits | 4,140,224 | one slot per tenant, count is the last slot, no slot is taken |
| `swap` | 2 tenants in all roles, 1 ready file, callers and booster beside the swap | 483,193 | make before break with a fresh file, ledger and gate after a swap, the cycle ends |
| `shares` | one of two instances: 2 tenants, shares 1 or 4 of 4, hold 2, dwell 3; or 3 tenants, grid 4 by 5, 10 requests, and all lists of up to 3 members | 476,268 | extras fit while no share has grown, hunger is earned, no swinging; the engine's answer is exactly that of a reference (the set of all solutions), pairs fit, time not oversold, pair contracts served |
| `slice_loop` | 1 name, 2 contracts, deployed holds and lease | 69,888 | held is applied, pace, a short tenant gets to the bound |
| `booster` | 1 name, 2 watchers, 1 late POST; 2 pods registered in time, or 1 pod registered late and by hand | 952,043 | spared until seen and dead, reclaim is whole, the dead are reclaimed |
| `tenant_link` | 3 casts of up to 3 tenants, the HTTP thread and one beside it | 763,500 | gates follow flags, one stray budget, who was asked is remembered, the armed are fed |

Why the bounds are enough. Names are compared only for equality and the tables are per
name, so two devices show all that one call over several names can do (`ratio_lease`), two
tenants all that competition for idle share can and the roles of a swap (each may be old,
new or gated, both or the same one), and three names on two slots a full table. One ready
file is the case that matters: requests that name different files do not meet.
`tenant_link` chooses its cast at the start: three tenants for a broadcast (a holder and
two who wait), one tenant that both threads arm and release while another is registered
and asked, or two armed tenants in one pass; the protocol of a gate is about one tenant
and at most two threads, since a third finds the tenant disturbed. The thread beside the
HTTP one is the swap's, or a booster watcher's, which releases before it removes. `stray`
stops at 2, one more than the property allows. One name suffices where what matters is its
reuse (`slice_loop`, `booster`). Ages are cut off where no comparison distinguishes them.
In `ratio_lease` the clock runs past the end of the last possible lease (`LeasesEnd` is
checked as an assumption). Rounds take one or two time units, so a threshold is hit
exactly and overshot. The ledger's part of `shares` has requests that fit exactly, by one
step and not at all, and one out of range on each side. The engine's own grid is 10 steps;
4 by 5 keeps the two axes different.

### Properties worth a word

* `FeederEndsOnlyExpired`: the feeder judges with a clock read before the lock; a lease
  renewed in between has a later end, so it survives. TLC checks it with the renewal in
  the gap, and it is proved.
* `MakeBeforeBreak` needs `fresh`; `swap_seam` shows why. With it no order of late
  standbys, time-outs and retries drains the old tenant too early.
* `GateIsTakenOff` says who may still be armed: whom others have armed after the swap's
  release. Of the shares the gate was given it cannot say the like (`swap_shares`).
* `SpaceBeforeRelocation` does not say that the mask is narrower: the message may have
  been given up, or have gone to the aggressor before (the level outlives both, see
  findings). It says that the stage of space is never passed over without one of these.
* `LoanComesHome` covers leases that were asked for and the default one, and leaves out
  what an opt-out has written or stranded.
* `SparedUntilSeenAndDead` needs `clean`. Without it TLC shows the real limit of the
  design: if a device ID is given to a new pod while its last pod's registration is still
  there (armed), the watcher sees no signal of the pod that is starting, takes it for
  dead and removes its entries. With a name nobody is busy with, no interleaving of
  pipelines, late posts and restarts of the booster does. A pod that dies before it is
  registered stays registered and not armed, and `DeadIsReclaimed` does not speak of it.
* `ReclaimIsWhole` promises the slot only if the POST was answered: the entry is forgotten
  either way, so a failed POST, or the activation through `KRAKEN_BOOSTER`
  (`loop_api.py:95` gives no `base_url`), leaves the slot to the plugin's own watcher.
* `DeadLoopLetsGo` is checked with posts that fail: what lets go is the lease.
  `RestIsOff` is checked with posts delivered; after a lost release the loop believes in
  rest and does not repeat it.
* `HeldIsApplied` excludes the bounds, where the loop sends nothing (see findings).
* `ExtrasFit` holds while no share has grown since the last evaluation. Until the next one
  the extras of the old are added to the bases of now (`feeder.py:493`), so a pass may
  hand out more than the tick the comment at `feeder.py:437` speaks of.
* `GateFollowsFlag` says that one arm or release with the tenant for itself puts gate and
  flag in step, whatever was lost or crossed before. Three things part them without any
  fault, and nobody is told: registering a gated tenant again sets the flag down and sends
  nothing (`feeder.py:288`), a restarted controller has an empty table (gates stay closed
  and get no budget), and a restarted process has its gate open while the flag is up. Two
  calls about one tenant that cross, or a datagram that fails, may leave either. The next
  call mends all of it; the code has no place that makes one.
* `AskedIsRemembered` ends (`tidy`) where the code forgets: an `urgent` that raises half
  way (`priority.py:73`) has asked tenants that are in no set, and an `urgent` for B while
  that for A is pending overwrites the set (`priority.py:76`), so B itself keeps the
  request. A clear that is lost is not repeated either. A clear that raises keeps the set,
  so it can be repeated, but it raises at the same name every time until that tenant is
  registered again.

### Findings

With a run of their own, which TLC refutes:

* `kept_renewal`: at its bound the slice loop sends nothing, the lease runs out and the
  feeder is back on the contract while the loop believes in 1.5 times it, against
  `slice_loop.py:176`.
* `swap_seam`: the ready file of an earlier try, or made by its standby, which still runs,
  counts as the new standby's first step: the retry of a swap that was given up drains the
  old tenant too early, against `machine.py:63`.
* `swap_shares`: the shares that `gate_on` sets for good outlive the swap, against
  `loop_api.py:306`, which names `gate_off` as their clean-up.

In the model of a passing run, whose property has to make room for it:

* `ratio_lease`: a change without `lease_s` has the default lease, against
  `loop_api.py:169` ("indefinite"); the same file's head says what the code does. An
  opt-out that fails at `float()` has taken the lease away: what was lent stays
  (`feeder.py:362`, 367), with no entry in the history, against the docstring of
  `set_ratios`.
* `closed_loop`: `space_level` is raised whether or not the aggressor was told
  (`closed_loop.py:692` against 438), and is kept for the next aggressor.
* `shares`: extras of the last evaluation on bases of now can exceed the tick
  (`feeder.py:493` against 437).

In the model, without a property; nothing in the repository states one:

* `slot_table`: a slot that is freed between the idle thread's look and its write stays
  active without a name (`overcommit.py:96`), and `register` gives it to no new tenant.
* `exit_profiling` calls `check_and_update`, which returns at once in PROFILING; nothing
  ever leaves that mode, against its docstring (`overcommit.py:110`). Two calls in sequence
  show it.

Not modelled: `--observe-only` only stops `actuate`; `renew_lease`, `actuate_space` and the
`finally` block go on acting (`closed_loop.py:268` against 461, 744).

Seen while modelling as well: FALLBACK_GATED -> NORMAL is in the
transition table and no code takes it; an exception in `gate_on` or `spawn_standby`
leaves the machine in GATED, from which no swap can start; `pair.py` rounds the time of a
compute-bound member to the nearest 1e-6 where `decide` rounds up, so it may be served
half a step less.

## 4. Fairness

* `RatioLease!FairSpec`: time passes, the feeder's loop runs, and a thread that waits for
  the lock gets it. Python's lock is not fair by contract, but it is held for short and
  bounded sections; the feeder thread is a daemon that sleeps and passes. Callers owe
  nothing: a lender may fall silent at any time. The feeder's loop has no handler around
  its pass; an exception there would end it, and `LoanComesHome` with it.
* `ClosedLoop!FairSpec`, `SliceLoop!FairSpec`: a living process does its rounds, its posts
  return or run into their timeout. Nobody has to restart it.
* `Swap!FairSpec`: a thread that is alive is scheduled, and the deadline of the wait comes.
* `MCTenantLink!MCSpec`, `Priority!FairSpec`: the feeder's loop goes on. The pass is total
  over a table that changes under it (that is part of what `ArmedIsFed` checks); that the
  clock and the sends raise nothing outside their handlers is assumed.
* `Booster!FairSpec`: watchers are scheduled and their POSTs end after at most 5 s; nothing
  is assumed of the plugin, of events, or of enable and disable.

Deadlock is checked in every run: somebody can always do something.

## 5. Proofs

Eight modules of theorems; the lemmas on dictionaries stand in `RatioLeaseProofs`. The
constants are arbitrary: any sets of tenants, threads, slots and shares, any ladder, hold
times and leases (TLC's bounds on clocks are arbitrary naturals there).

| Module | Theorem | States |
|---|---|---|
| `RatioLeaseProofs` | `Invariant` | `Spec => []IInv` |
| | `TypeCorrect`, `NothingInherited`, `AllAccountedFor` | the invariants of the run; a share off its contract has one reason only |
| | `FeederIsPatient` | `FeederEndsOnlyExpired` |
| | `ContractStays` | only a registration moves a contract, and it resets share and lease |
| | `Refinement` | `Spec => KeepsPromise`: the table implements `ShareContract` |
| `ClosedLoopProofs` | `LoopTypeCorrect`, `SpaceComesFirst` | `TypeOK`, `SpaceBeforeRelocation` |
| | `RestLetsGo` | `RestIsOff`, while no POST is lost |
| | `LadderIsSteady` | `NoSwing`, posts lost or not |
| | `SharesAreLent` | a share off the contract has a lease running, posts lost or not |
| | `DeadLoopRunsOut` | what a dead loop has lent gets shorter with every step: the safety half of `DeadLoopLetsGo` |
| `SliceLoopProofs` | `SliceTypeCorrect`, `HeldStays` | types, `HeldIsApplied` |
| | `FactorIsPaced` | `Pace` |
| | `AdjustedIsOnLoan` | a share off the contract has a lease running |
| | `LoopOnlyLends` | `Spec => Promise!Spec`: loop and feeder implement `ShareContract` |
| `SlotTableProofs` | `TableTypeCorrect`, `OneSlotEach`, `CountIsRight` | `TypeOK`, `OneSlotPerTenant`, `CountIsLastSlot` |
| | `SlotsPassFreed` | `SlotsAreNotTaken` |
| `SwapProofs` | `SwapTypeCorrect`, `MadeBeforeBroken`, `GateIsOffAtEnd`, `NewIsBooked` | types, `MakeBeforeBreak`, `GateIsTakenOff`, `PrimeIsBooked` |
| | `SwapAdvances` | a swap ends after eleven steps and two for each of its gate: the safety half of `SwapEnds` |
| | `OnlyTheFirstIsRefused` | no swap that has begun ends in an `IllegalTransition` |
| `TenantLinkProofs` | `LinkTypeCorrect`, `GateAgrees`, `StrayIsOne` | types, `GateFollowsFlag`, `OneStrayBudget` |
| | `IsFeederLink` | `Spec => LinkSpec`: the broadcast beside the link implements the link |
| | `TypeCorrect`, `NobodyIsForgotten` | types, `AskedIsRemembered` |
| `BoosterProofs` | `ReclaimInvariant` | `Spec => []IInv` |
| | `BoosterTypeCorrect`, `OnlyTheGoneAreTaken`, `ReclaimedWhole` | `TypeOK`, `SparedUntilSeenAndDead`, `ReclaimIsWhole` |
| `SharesProofs` | `AppetiteInvariant` | streaks and ages are backed by judgements |
| | `HungerNeedsEvidence`, `HungerIsSteady` | `HungerIsEarned`, `NoSwing` |
| | `BudgetInvariant` | contracts and extras together fit the pool |
| | `BudgetTypeCorrect`, `BudgetsFit` | `TypeOK`, `ExtrasFit` |
| | `LedgerInvariant` | from decision to entry there is room |
| | `LedgerTypeCorrect`, `PairsFitTogether`, `TimeNotOversold` | `LedgerTypeOK`, `PairsFit`, `TimeIsNotOversold` |
| | `EngineExact` | `EngineIsExact`, for every grid, request and view |
| | `ContractsServed` | `ContractsAreServed`, for every grid and all contracts |

Assumptions are the named ones of the modules, evaluated by TLC. Those that say something
of the deployment: the feeder thread is not one of the callers and leases are positive
(`RatioLease`), the mask is narrowed no later than a pair is promoted, that is
`SPACE_AFTER_S` and `SPACE_DWELL` are at most `PROMOTE_AFTER_S` (`ClosedLoop`), the bounds
of the factor lie on both sides of 1 (`SliceLoop`), the HTTP thread is one of the threads
(`FeederLink`). The others keep the stand-ins (`Nobody`, `NoId`, `NoTenant`) out of the
sets and the numbers in their ranges.

The arguments, and what each invariant has to add:

* **RatioLease.** `OffContractIsAccountedFor` alone is not inductive: ending a lease
  restores the contract only of names that are registered, so leases must belong to
  registered names (`NoInheritedLease`), and a restore must not meet a name that was
  waived or stranded (`OneReasonEach`). `FeederEndsOnlyExpired` compares with the clock of
  now although the code compares with one read earlier, so `IInv` carries `NowIsPast` (a
  pending call's time is not ahead of the clock) and `FeederOnlyExpires` (the feeder's own
  call names nobody). `SetRatiosBodyIs` and `RestoreIs` say once what the two bodies do,
  and the refinement reuses them: a body is, for every name, an adjustment, a return, a
  stranding or nothing of `ShareContract`; the clock and the reads are stutters. The
  mapping `DealOf` reads a name as gone, on contract, on loan, waived or stranded.
* **ClosedLoop.** No swing needs `Deadband`: each move resets the instants the opposite
  rule looks at, so they are never older than the move. The order of the stages needs
  `Stages`: at the last rung, with the mask not narrowed, the mask was released before the
  victim began to suffer, so the space rule's time is up no later than relocation's; and a
  level above 0 is one that was tried (`SpaceIsTried`). Rest
  needs `Leased` (a share that is not the contract has a lease running, or the entry would
  stay when its loop forgets it) and `Resting`. Only `Resting` assumes that posts arrive:
  the one post that sets a share sets its lease with it, so losing posts cannot part them.
  From `Leased`, and from what time does to an entry (`EntryByElapse`), follows that a
  dead loop's leases run out; that time goes on is what the liveness run adds.
* **SliceLoop.** `HeldIsApplied` speaks of the tenants judged in this round, so the
  invariant says nobody is judged twice (`JudgedOnce`): a second post, lost, would undo
  what the first established. `Pace` needs `Counts`: a streak's count is at most the
  number of judgements since the last step. For the refinement, `Becoming` says once what
  a step can mean for a tenant (as before, new, gone, lent, returned), each of which is
  one action of `ShareContract`; nothing this loop does waives a contract.
* **SlotTable.** `TableInv` adds whose the pending write is (`WhoAdds`) and that
  `tenant_count` lags only in the middle of a registration, and only by its slot. A slot
  that was registered without a name is held by its share (`Held`). The
  recount on deregistration takes the greatest slot in use; that there is one
  (`GreatestExists`) is derived from the well-foundedness of strict subsets.
* **Swap.** `Whereabouts` says in which state of the machine the thread can be where. That
  a thread which raised leaves the machine in GATED or HANDOFF is part of it, and so is
  that the machine is where the next transition is legal. The seam needs that who hands
  over has found the file (`HandingIsReady`) and that a fresh file is made by nobody else
  (`FreshIsUnmade`); the gate, that whom the swap has released stays so but for others
  (`OpenedStaysOpen`). `Ahead` ranks the places of the thread; arming and releasing stay
  at their place, and have one less to do each time.
* **FeederLink.** `GateInv`: while a tenant is undisturbed at most one thread is about it,
  and what that thread has done so far is known, datagram by datagram. `StrayInv`: who has
  had a stray budget is neither in the pass nor about to be sent another.
* **Priority.** The simulation `IsFeederLink` carries the gates' theorems over to the
  whole. `Known` says whom the loop of a request has told when it is half way: in an
  urgent the asked are among those behind the loop, in a clear among those ahead of it.
* **Booster.** The properties speak of a pod that came to a name at rest (`clean`).
  `Spared` says what its life allows: before it was up its entry is not armed, and until
  it has died no pipeline is past its second look and no POST is left over from one.
  `Whole` says what a pipeline has taken by each of its places; what it took does not come
  back, because a clean pod that has been up has nothing left to register, and the next
  pod under the name is clean only if nobody is busy with it any more. The registration of
  a clean name is that of its own pod; `Numbered` says that pods are numbered from 1.
* **Sums.** The library's sum is a recursive function on the subsets of the set it is
  taken over. Induction on finite sets cannot be instantiated with an operator, but a
  least counterexample can: of a non-empty set of subsets of a finite set one has no other
  inside (`LeastSet`), and a smallest subset where the recursion, or a claim about it,
  fails is refuted by the one without a member. That gives the sum's type, its step
  (`SumWithout`), that it is monotone in values and in the set, additive, and that a
  common factor comes out (`SumScales`).
* **IdleShares.** `Earned`: a sated tenant's streak is at most the judgements it was found
  wanting in (`wanted`), a hungry one's age at most the time since it was fed, and one
  without an anchor starts from nothing, so no evidence is handed on with a name.
  `ExtrasFit` speaks of the budgets of one tick and is not inductive: the extras that a
  later tick pays were handed out by an earlier evaluation. `PoolHolds` says it of the
  shares: unless one has grown since, the contracts of the armed and the extras of the
  armed fit the pool. An evaluation hands out proportional parts rounded down of what is
  idle, so they are no more than it (`PartsTogether`); whoever leaves takes contract and
  extra along; whoever is armed, or gets a larger share, sets `grown`.
* **Placement.** `PairsFit` is about entries decided with an old view. `Room` says that
  what was decided still has its room, beside every entry and, if nobody insisted, in
  time: between decision and entry the ledger only loses entries, and only one swap runs.
  `EngineExact`: a candidate has the least time for its SMs (`TimeForIs`), every
  solution's SMs are a candidate's (`SolutionHasCandidate`), a preferred candidate always
  exists (`PreferredExists`; for a balanced share, one of the nearest above and the
  nearest below the root, `NearestExists`), and what is nearest leaves no solution between
  itself and the root (`NothingBetween`).
* **Pair.** A contract that fits with others fits alone (`ContractIs`, a member of a sum).
  Alone on a free GPU in the time of its contract a member can only have all SMs
  (`StrictIs`); rounding to the nearest step loses at most half a step (`ContractTimeIs`).

Only model-checked: liveness (`LoanComesHome`, `DeadLoopLetsGo`, `CalmIsReleased`,
`SwapEnds`, `ShortIsRaised`, `DeadIsReclaimed`, `ArmedIsFed`), which is beyond the prover,
and the three disagreements, which are counterexamples. Every safety property of a passing
run is a theorem.

## 6. Not modelled, and why

* The clock going back (`time.time()` is used for leases): the model's clock does not.
* The control check (`_ctlcheck`) and the work-conserving push (`_wc_push`): they compare
  kernel counts out of libbless' log, which nothing in the repository writes; what a count
  means, or that it goes down at a restart, would be invented. `set_scale`, the weights,
  samples and the audit are numbers that are passed on or reported.
* libbless: what it does with `time_add`, gates and priorities. Where the controller
  depends on it, it is marked external in the map.
* The arithmetic on latencies, usage and logs, floating point, JSON, regular expressions.
  `decide` takes `ceil(t * 1e6)` of a float without its EPS, which can be one step of 1e-6
  more than the exact quotient (r = 0.14, s = 0.2); the model's is exact.
* `--observe-only` of the interference loop, in which the loop acts in part (see findings).
  `--dry-run` of the slice loop leaves out the posts; for loop and feeder that is a round
  whose posts are lost, which the model has.
* A slice loop that starts anew takes the shares it finds for the base, so restarts while a
  share is on loan can carry share and base upwards without end. `SliceLoop!Restart` is
  enabled only while shares lie in `MinShare .. MaxShare`, which cuts this off.
* The mask itself: a message that would widen it again can be lost, and the `finally` block
  does not widen it. The model keeps what the loop believes and whether it was told.
* A single budget that is lost on the way to a living process.
* What a retention report, an event or a status route says.
* The value of `virtual_sm_total` under lost updates: the interleaving is in `SlotTable`,
  but nothing in the repository says what the total has to be.
* The subscriber's half-written lines and a file that is replaced under it: `Booster`
  leaves open which events come, so it covers an event that is lost, not the reading.
* Memory quotas and MPS percentages, which are written beside what is modelled.
* Scheduler, allocator, metrics and capacity reports, scanner, agent, schedctl, webhook,
  the pair predictor: I/O, wording or numbers without decisions over several steps.

## 7. Plan

Done: share table, budgets, gate link, priority broadcast, both loops, slot table, swap,
placement and pair policies, booster; proofs of the safety properties of all of them.

Left, in this order:

1. An abstract specification of reclaim (a name is in use, seen dead, forgotten) that
   `Booster` implements, with its safety theorems as the step simulation.
2. The subscriber's file: half-written lines, truncation, in front of `Booster`'s events.
3. `Swap` composed with `FeederLink` and the opt-out of `RatioLease`: the datagrams of the
   gate, and whose share is whose after FALLBACK_GATED, where it stays on by design.
4. An abstract ledger (entries that fit the GPU) that `Placement` implements, for a
   composition with `Swap`.
