------------------------------ MODULE Booster ------------------------------
(***************************************************************************)
(* booster/booster.py takes back what dead tenants hold: a watcher thread  *)
(* (a poll every second, or the subscriber of TERM_PREDICTED events) looks *)
(* for a registered tenant that is armed and not alive, and its pipeline   *)
(* takes the tenant out of the feeder's table and of the ledger and, by a  *)
(* POST to the controller's own HTTP server, out of the slot table.        *)
(*                                                                         *)
(* Everything goes by the tenant's name, the device ID, which the device   *)
(* plugin gives to one pod after the other; pods of a name are numbered.   *)
(* The HTTP server has one thread: while it waits in disable() for the     *)
(* watcher to end it answers no POST, and a POST that the watcher has      *)
(* given up is served all the same, later.                                 *)
(*                                                                         *)
(* An event names a GPU and perhaps processes; whether it matches a single *)
(* tenant, and whether it is right, is left open.  The feeder's table and  *)
(* the slots are here only the names that have an entry (RatioLease and    *)
(* SlotTable detail them); the ledger's part is Placement!Reclaim.         *)
(***************************************************************************)
EXTENDS Integers, FiniteSets, PyDict

CONSTANTS
    Names,          \* device IDs
    Watchers,       \* watcher threads that exist at a time
    Nobody,         \* no watcher, no tenant
    MaxPods,        \* bound: pods a name is given to
    MaxPending,     \* bound: requests waiting to be placed
    MaxLate         \* bound: POSTs given up and still to be served

ASSUME NamesAssumption == Nobody \notin Names \cup Watchers
ASSUME BoundAssumption == {MaxPods, MaxPending, MaxLate} \subseteq Nat

VARIABLES
    pod,            \* pod[n]: number and state of the last pod with the name
    toRegister,     \* what the plugin has still to register for it
    clean,          \* history: nobody was busy with the name when the pod came, it was
                    \* registered before it went on, and by hand only while it was up
    feeder,         \* names registered with the feeder
    slots,          \* names that have a slot
    reg,            \* _tenants: name -> [pod, armed, pid]
    pending,        \* how many requests _pending holds
    mode,           \* _mode while _enabled, else "off"
    current,        \* the thread _poll_thread or _subscriber knows
    told,           \* threads whose stop is set: subscribers have their own, the
                    \* poll threads share one (_poll_stop)
    watch,          \* watch[w]: where the thread is
    armer,          \* _arm_loop: Nobody, or the name it found alive
    http,           \* what the HTTP thread does: "free", or what follows disable()
    late            \* late[n]: POSTs for n given up by their watcher

world == <<pod, toRegister, clean>>
control == <<mode, current, told, http>>
vars == <<world, feeder, slots, reg, pending, control, watch, armer, late>>

Off == [at |-> "off"]
Top(kind) == [at |-> "pass", kind |-> kind, name |-> Nobody, todo |-> {}]
Stages == {"look", "clear", "posting", "answered", "unanswered"}

\* gone: it had been up; failed: it died while starting.
Dead(n) == pod[n].is \in {"gone", "failed"}
Busy(w, n) == watch[w] # Off /\ watch[w].name = n

TypeOK ==
    /\ pod \in [Names -> [no : 0 .. MaxPods, is : {"none", "starting", "up", "gone", "failed"}]]
    /\ toRegister \in [Names -> SUBSET {"slot", "feeder", "booster"}]
    /\ clean \in [Names -> BOOLEAN]
    /\ feeder \subseteq Names /\ slots \subseteq Names
    /\ DOMAIN reg \subseteq Names
    /\ \A n \in DOMAIN reg : reg[n] \in [pod : 1 .. MaxPods, armed : BOOLEAN, pid : BOOLEAN]
    /\ pending \in 0 .. MaxPending
    /\ mode \in {"off", "poll", "event"}
    /\ current \in Watchers \cup {Nobody} /\ told \subseteq Watchers
    /\ watch \in [Watchers -> {Off} \cup
           [at : {"pass"} \cup Stages, kind : {"poll", "event"},
            name : Names \cup {Nobody}, todo : SUBSET Names]]
    /\ \A w \in Watchers : watch[w] # Off => (watch[w].at = "pass") = (watch[w].name = Nobody)
    /\ armer \in Names \cup {Nobody}
    /\ http \in {"free", "off", "poll", "event"}
    /\ late \in [Names -> 0 .. MaxLate]

Init ==
    /\ pod = [n \in Names |-> [no |-> 0, is |-> "none"]]
    /\ toRegister = [n \in Names |-> {}]
    /\ clean = [n \in Names |-> FALSE]
    /\ feeder = {} /\ slots = {}
    /\ reg = EmptyDict
    /\ pending = 0
    /\ mode = "off" /\ current = Nobody /\ told = {}
    /\ watch = [w \in Watchers |-> Off]
    /\ armer = Nobody
    /\ http = "free"
    /\ late = [n \in Names |-> 0]

---------------------------------------------------------------------------
(* Pods, and the device plugin, which registers a pod when it is allocated *)

\* Nobody knows the name, and nobody is busy with it.
AtRest(n) ==
    /\ n \notin DOMAIN reg /\ armer # n /\ late[n] = 0
    /\ \A w \in Watchers : ~Busy(w, n)

Allocate(n) ==
    /\ pod[n].is = "none" \/ Dead(n)
    /\ pod[n].no < MaxPods
    /\ pod' = [pod EXCEPT ![n] = [no |-> @.no + 1, is |-> "starting"]]
    /\ toRegister' = [toRegister EXCEPT ![n] = {"slot", "feeder", "booster"}]
    /\ clean' = [clean EXCEPT ![n] = AtRest(n)]
    /\ UNCHANGED <<feeder, slots, reg, pending, control, watch, armer, late>>

\* The pod's socket answers; the pod is killed, the file of the socket stays.  It does
\* not wait for its registrations.
PodMoves(n) ==
    /\ \E to \in {"up", "gone", "failed"} :
          /\ <<pod[n].is, to>> \in {<<"starting", "up">>, <<"starting", "failed">>, <<"up", "gone">>}
          /\ pod' = [pod EXCEPT ![n].is = to]
    /\ clean' = [clean EXCEPT ![n] = @ /\ toRegister[n] = {}]
    /\ UNCHANGED <<toRegister, feeder, slots, reg, pending, control, watch, armer, late>>

RegisterSlot(n) ==
    /\ http = "free" /\ "slot" \in toRegister[n]
    /\ slots' = slots \cup {n}
    /\ toRegister' = [toRegister EXCEPT ![n] = @ \ {"slot"}]
    /\ UNCHANGED <<pod, clean, feeder, reg, pending, control, watch, armer, late>>

RegisterFeeder(n) ==
    /\ http = "free" /\ "feeder" \in toRegister[n]
    /\ feeder' = feeder \cup {n}
    /\ toRegister' = [toRegister EXCEPT ![n] = @ \ {"feeder"}]
    /\ UNCHANGED <<pod, clean, slots, reg, pending, control, watch, armer, late>>

\* The watcher of the plugin reports the end of a pod, or not.
PodEnded(n) ==
    /\ http = "free" /\ Dead(n)
    /\ \/ slots' = slots \ {n} /\ UNCHANGED feeder
       \/ feeder' = feeder \ {n} /\ UNCHANGED slots
    /\ UNCHANGED <<world, reg, pending, control, watch, armer, late>>

---------------------------------------------------------------------------
(* Registration with the booster *)

\* By the plugin: the process is not known yet, the pattern of its socket is.
RegisterTenant(n) ==
    /\ http = "free" /\ "booster" \in toRegister[n]
    /\ reg' = Put(reg, {n}, [pod |-> pod[n].no, armed |-> FALSE, pid |-> FALSE])
    /\ toRegister' = [toRegister EXCEPT ![n] = @ \ {"booster"}]
    /\ UNCHANGED <<pod, clean, feeder, slots, pending, control, watch, armer, late>>

\* By hand, with the process and no socket: armed at once, whether the process is
\* there or not.
RegisterByHand(n) ==
    /\ http = "free" /\ pod[n].is # "none"
    /\ reg' = Put(reg, {n}, [pod |-> pod[n].no, armed |-> TRUE, pid |-> TRUE])
    /\ clean' = [clean EXCEPT ![n] = @ /\ pod[n].is = "up"]
    /\ UNCHANGED <<pod, toRegister, feeder, slots, pending, control, watch, armer, late>>

DeregisterTenant(n) ==
    /\ http = "free" /\ Dead(n)
    /\ reg' = Drop(reg, {n})
    /\ UNCHANGED <<world, feeder, slots, pending, control, watch, armer, late>>

AddPending ==
    /\ http = "free" /\ pending < MaxPending
    /\ pending' = pending + 1
    /\ UNCHANGED <<world, feeder, slots, reg, control, watch, armer, late>>

\* Variant of SockAlive: the file is there, whether anybody listens or not.
SockFile(n) == pod[n].is \in {"up", "gone"}

\* Somebody answers at a socket of the name, of whichever pod.
SockAlive(n) == pod[n].is = "up"

\* Variant of Alive: an unknown process is not found in /proc.
AliveByPid(n) == reg[n].pid /\ pod[n] = [no |-> reg[n].pod, is |-> "up"]

Alive(n) == IF reg[n].pid THEN pod[n] = [no |-> reg[n].pod, is |-> "up"] ELSE SockAlive(n)

\* _arm_loop looks at a registration, and later arms the one the name has then.
ArmLook(n) ==
    /\ mode # "off" /\ armer = Nobody
    /\ n \in DOMAIN reg /\ ~reg[n].armed /\ SockAlive(n)
    /\ armer' = n
    /\ UNCHANGED <<world, feeder, slots, reg, pending, control, watch, late>>

ArmSet ==
    /\ armer # Nobody
    /\ armer' = Nobody
    /\ reg' = IF armer \in DOMAIN reg THEN [reg EXCEPT ![armer].armed = TRUE] ELSE reg
    /\ UNCHANGED <<world, feeder, slots, pending, control, watch, late>>

---------------------------------------------------------------------------
(* enable and disable, both on the HTTP thread *)

Pollers == {w \in Watchers : watch[w] # Off /\ watch[w].kind = "poll"}

\* disable() up to the join; enable(then) begins with it, too.
Disable(then) ==
    /\ http = "free"
    /\ http' = then
    /\ mode' = "off"
    /\ told' = told \cup (IF current = Nobody THEN {}
                          ELSE IF watch[current].kind = "poll" THEN Pollers ELSE {current})
    /\ UNCHANGED <<world, feeder, slots, reg, pending, current, watch, armer, late>>

\* The join is over: the watcher has ended, or it has been waiting for two seconds,
\* which takes one that waits for this thread.  The watcher is forgotten; enable
\* starts another one, and clears the poll threads' stop if it is of theirs.
Joined ==
    /\ http # "free"
    /\ current # Nobody => watch[current] = Off \/ watch[current].at = "posting"
    /\ armer = Nobody
    /\ http' = "free"
    /\ mode' = http
    /\ IF http = "off" THEN current' = Nobody /\ UNCHANGED <<told, watch>>
       ELSE \E w \in {v \in Watchers : watch[v] = Off} :
            /\ current' = w
            /\ watch' = [watch EXCEPT ![w] = Top(http)]
            /\ told' = IF http = "poll" THEN told \ Pollers ELSE told
    /\ UNCHANGED <<world, feeder, slots, reg, pending, armer, late>>

---------------------------------------------------------------------------
(* Watchers *)

Goes(w, step) == watch' = [watch EXCEPT ![w] = step]
At(w, place) == watch[w] # Off /\ watch[w].at = place
InPass(w) == [watch[w] EXCEPT !.at = "pass", !.name = Nobody]
Stage(w, place) == [watch[w] EXCEPT !.at = place]

\* A thread that has been told to stop does so between two passes, or two events.
Ends(w) ==
    /\ At(w, "pass") /\ watch[w].todo = {} /\ w \in told
    /\ Goes(w, Off)
    /\ told' = told \ {w}
    /\ UNCHANGED <<world, feeder, slots, reg, pending, mode, current, http, armer, late>>

\* _poll_loop: a pass over the tenants of now.
Snapshot(w) ==
    /\ At(w, "pass") /\ watch[w].kind = "poll" /\ watch[w].todo = {}
    /\ w \notin told /\ DOMAIN reg # {}
    /\ Goes(w, [watch[w] EXCEPT !.todo = DOMAIN reg])
    /\ UNCHANGED <<world, feeder, slots, reg, pending, control, armer, late>>

Visit(w, n) ==
    /\ At(w, "pass") /\ n \in watch[w].todo
    /\ Goes(w, [watch[w] EXCEPT !.todo = @ \ {n},
                    !.at = IF n \in DOMAIN reg /\ reg[n].armed /\ ~Alive(n) THEN "look" ELSE "pass",
                    !.name = IF n \in DOMAIN reg /\ reg[n].armed /\ ~Alive(n) THEN n ELSE Nobody])
    /\ UNCHANGED <<world, feeder, slots, reg, pending, control, armer, late>>

\* _on_event goes on with an event of high confidence that matches n alone.
OnEvent(n) == mode # "off" /\ n \in DOMAIN reg

\* A line of the file that is such an event; a subscriber told to stop still hands
\* on the lines it has read, and one that starts reads the file from its beginning.
Event(w, n) ==
    /\ At(w, "pass") /\ watch[w].kind = "event"
    /\ OnEvent(n)
    /\ Goes(w, [watch[w] EXCEPT !.at = "look", !.name = n])
    /\ UNCHANGED <<world, feeder, slots, reg, pending, control, armer, late>>

\* The pipeline looks again: armed, and not alive.
Look(w) ==
    /\ At(w, "look")
    /\ LET n == watch[w].name
       IN Goes(w, IF n \in DOMAIN reg /\ reg[n].armed /\ ~Alive(n) THEN Stage(w, "clear") ELSE InPass(w))
    /\ UNCHANGED <<world, feeder, slots, reg, pending, control, armer, late>>

\* Variant of Clear: the gate is opened and the entry stays.
ClearGateOnly(w) ==
    /\ At(w, "clear")
    /\ Goes(w, Stage(w, "posting"))
    /\ UNCHANGED <<world, feeder, slots, reg, pending, control, armer, late>>

\* feeder.release and deregister, ledger.remove
Clear(w) ==
    /\ At(w, "clear")
    /\ feeder' = feeder \ {watch[w].name}
    /\ Goes(w, Stage(w, "posting"))
    /\ UNCHANGED <<world, slots, reg, pending, control, armer, late>>

\* POST /deregister_by_id is served.
Served(w) ==
    /\ At(w, "posting") /\ http = "free"
    /\ slots' = slots \ {watch[w].name}
    /\ Goes(w, Stage(w, "answered"))
    /\ UNCHANGED <<world, feeder, reg, pending, control, armer, late>>

\* It fails (at once, if no URL was given to enable), or the watcher gives it up
\* after five seconds and it stays in the server's queue.
Unserved(w) ==
    /\ At(w, "posting")
    /\ Goes(w, Stage(w, "unanswered"))
    /\ LET n == watch[w].name
       IN late' \in {late} \cup {l \in {[late EXCEPT ![n] = @ + 1]} : l[n] <= MaxLate}
    /\ UNCHANGED <<world, feeder, slots, reg, pending, control, armer>>

ServedLate(n) ==
    /\ late[n] > 0 /\ http = "free"
    /\ slots' = slots \ {n}
    /\ late' = [late EXCEPT ![n] = @ - 1]
    /\ UNCHANGED <<world, feeder, reg, pending, control, watch, armer>>

\* Variant of Popped: without asking whether there is one.
PoppedAny == pending - 1

\* _pending.pop(0), if it holds a request, which decide() then gets.
Popped == IF pending = 0 THEN 0 ELSE pending - 1

Finish(w) ==
    /\ At(w, "answered") \/ At(w, "unanswered")
    /\ pending' = Popped
    /\ reg' = Drop(reg, {watch[w].name})
    /\ Goes(w, InPass(w))
    /\ UNCHANGED <<world, feeder, slots, control, armer, late>>

Works(w) ==
    \/ Ends(w) \/ Snapshot(w) \/ \E n \in Names : Visit(w, n)
    \/ Look(w) \/ Clear(w) \/ Served(w) \/ Unserved(w) \/ Finish(w)

Next ==
    \/ \E n \in Names :
        \/ Allocate(n) \/ PodMoves(n)
        \/ RegisterSlot(n) \/ RegisterFeeder(n) \/ PodEnded(n)
        \/ RegisterTenant(n) \/ RegisterByHand(n) \/ DeregisterTenant(n)
        \/ ArmLook(n) \/ ServedLate(n)
        \/ \E w \in Watchers : Event(w, n)
    \/ AddPending
    \/ ArmSet
    \/ \E then \in {"off", "poll", "event"} : Disable(then)
    \/ Joined
    \/ \E w \in Watchers : Works(w)

Spec == Init /\ [][Next]_vars

\* The threads run, and joins end.
Fairness ==
    /\ \A w \in Watchers : WF_vars(Works(w))
    /\ WF_vars(ArmSet)

FairSpec == Spec /\ Fairness

---------------------------------------------------------------------------
(* Properties *)

\* The step is the booster's: of a pipeline, or of a POST it left behind.
OfThePipeline == watch' # watch \/ late' # late

\* A pod whose name nobody was busy with when it came, and which was registered in
\* time, loses its entries and its registration to the booster only after it has been
\* up and has died: it is not reclaimed while it starts, nor by an event that is wrong,
\* however its pipelines, posts and restarts of the booster overlap.
SparedUntilSeenAndDead ==
    [][\A n \in Names :
        /\ clean[n] /\ OfThePipeline
        /\ n \in (feeder \ feeder') \cup (slots \ slots') \cup (DOMAIN reg \ DOMAIN reg')
        => pod[n].is = "gone"]_vars

\* When the booster forgets a tenant, the feeder has no entry of it any more, and
\* the slot table neither if the POST was answered.  (If it was not, the slot may stay
\* and no retry comes: the plugin's own report of the end is what frees it then.)
ReclaimIsWhole ==
    [][\A n \in Names, w \in Watchers :
        /\ clean[n] /\ Finish(w) /\ watch[w].name = n /\ n \in DOMAIN reg
        => n \notin feeder /\ (watch[w].at = "answered" => n \notin slots)]_vars

\* While the booster polls, an armed tenant that has died is reclaimed, although
\* earlier watchers may still run, unless its name is given to another pod or
\* registered again (which disarms it until its socket answers).
DeadIsReclaimed ==
    \A n \in Names :
        (n \in DOMAIN reg /\ reg[n].armed /\ pod[n].is = "gone")
            ~> (n \notin DOMAIN reg \/ ~reg[n].armed \/ pod[n].is # "gone" \/ mode # "poll")

=============================================================================
