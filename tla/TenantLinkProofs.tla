-------------------------- MODULE TenantLinkProofs --------------------------
(***************************************************************************)
(* FeederLink for any tenants and any number of calling threads: its       *)
(* types, and the two safety properties of the tenants' gates.  Each has   *)
(* an inductive strengthening that says what holds while datagrams are on  *)
(* their way; they need nothing of one another but the types.              *)
(*                                                                         *)
(* Then Priority, the broadcast beside it.  A behaviour of Priority is one *)
(* of FeederLink (the HTTP thread does less), so what is proved of the     *)
(* gates holds there too; the broadcast needs an invariant of its own,     *)
(* which says who has been told in the middle of a request.                *)
(***************************************************************************)
EXTENDS Priority, TLAPS

\* At most one thread is about t.
Alone(t) == \A c, d \in Threads : op[c].t = t /\ op[d].t = t => c = d

\* What a thread that is about t has done so far, and what it leaves behind.
HalfWay(t) ==
    \A c \in Threads : op[c].t = t =>
        /\ op[c].at = "mode" => t \in armed
        /\ op[c].at = "credit" => t \in armed /\ t \in timed
        /\ op[c].at = "open" => t \notin armed

Settled(t) == (\A c \in Threads : op[c].t # t) => (Closed(t) <=> t \in armed)

GateInv == \A t \in undisturbed : t \in up /\ Alone(t) /\ HalfWay(t) /\ Settled(t)

\* Who has had a stray budget is not due for another one.
StrayInv ==
    /\ sending \notin todo
    /\ \A t \in Armable :
          /\ stray[t] \in {0, 1}
          /\ stray[t] = 1 => t \notin armed /\ t \notin todo /\ t # sending

---------------------------------------------------------------------------

\* What a thread is about is a tenant that callers arm, or nobody.
LEMMA OpIsTyped ==
    ASSUME LinkTypeOK, NEW c \in Threads
    PROVE  /\ \/ op[c] = Idle
              \/ op[c].at \in Sends /\ op[c].t \in Armable
           /\ op[c].t = Nobody => op[c] = Idle
           /\ op[c].at \in Sends => op[c].t \in Armable /\ op[c].t # Nobody
  BY LinkAssumption DEF LinkTypeOK, Idle, Sends

LEMMA TypeHoldsAtFirst == LinkInit => LinkTypeOK
  BY DEF LinkInit, LinkTypeOK

LEMMA TypeIsKept == LinkTypeOK /\ [LinkNext]_link => LinkTypeOK'
<1> SUFFICES ASSUME LinkTypeOK, [LinkNext]_link PROVE LinkTypeOK'
    OBVIOUS
<1> USE LinkAssumption DEF LinkTypeOK
<1>1. ASSUME NEW t \in Tenants, Starts(t) \/ Dies(t) PROVE LinkTypeOK'
  BY <1>1 DEF Starts, Dies, table, pass
<1>2. ASSUME NEW t \in Tenants, Register(t) \/ Deregister(t) PROVE LinkTypeOK'
  BY <1>2 DEF Register, Deregister, pass, process
<1>3. ASSUME NEW c \in Threads, NEW t \in Armable, Arm(c, t) \/ Release(c, t) PROVE LinkTypeOK'
  <2>1. [at |-> "mode", t |-> t] \in [at : Sends, t : Armable] /\ [at |-> "open", t |-> t] \in [at : Sends, t : Armable]
    BY DEF Sends
  <2>2. op' \in [Threads -> {Idle} \cup [at : Sends, t : Armable]]
    BY <1>3, <2>1 DEF Arm, Release
  <2>3. undisturbed' \subseteq Armable
    BY <1>3 DEF Arm, Release, Begins
  <2>4. stray' \in [Armable -> 0 .. 2]
    BY <1>3 DEF Arm, Release
  <2> QED BY <1>3, <2>2, <2>3, <2>4 DEF Arm, Release, pass, process
<1>4. ASSUME NEW c \in Threads, Sending(c) PROVE LinkTypeOK'
  <2>1. op[c].at \in Sends /\ op[c].t \in Armable
    BY <1>4, OpIsTyped DEF Sending, SendMode, SendCredit, SendOpen, SendFails, Sends
  <2>2. op' \in [Threads -> {Idle} \cup [at : Sends, t : Armable]]
    <3>1. [op[c] EXCEPT !.at = "credit"] \in [at : Sends, t : Armable]
      BY <2>1, OpIsTyped DEF Sends, Idle
    <3> QED BY <1>4, <3>1 DEF Sending, SendMode, SendCredit, SendOpen, SendFails
  <2>3. CASE SendFails(c)
    BY <2>1, <2>2, <2>3 DEF SendFails, table, pass, process
  <2> QED BY <1>4, <2>1, <2>2, <2>3 DEF Sending, SendMode, SendCredit, SendOpen, Reaches, table, pass
<1>5. ASSUME Feeds PROVE LinkTypeOK'
  <2>1. CASE BeginPass
    BY <2>1 DEF BeginPass, table, process
  <2>2. CASE \E t \in Armable : Lookup(t)
    BY <2>2 DEF Lookup, table, process
  <2>3. CASE SendBudget
    <3>1. sending \in Armable
      BY <2>3 DEF SendBudget
    <3>2. stray' \in [Armable -> 0 .. 2]
      BY <2>3, <3>1 DEF SendBudget, AtMostTwo
    <3> QED BY <2>3, <3>1, <3>2 DEF SendBudget, Reaches, table, process
  <2> QED BY <1>5, <2>1, <2>2, <2>3 DEF Feeds
<1>6. CASE Restarts
  BY <1>6 DEF Restarts, process
<1>7. CASE UNCHANGED link
  BY <1>7 DEF link, table, pass, process
<1> QED
  BY <1>1, <1>2, <1>3, <1>4, <1>5, <1>6, <1>7 DEF LinkNext, Calling, Registering, Removing

\* The table, the datagrams and the processes are of their types.
THEOREM LinkTypeCorrect == LinkSpec => []LinkTypeOK
  BY TypeHoldsAtFirst, TypeIsKept, PTL DEF LinkSpec

---------------------------------------------------------------------------
(* GateFollowsFlag *)

LEMMA GateInvHoldsAtFirst == LinkInit => GateInv
  BY DEF LinkInit, GateInv

LEMMA GateInvIsKept == LinkTypeOK /\ GateInv /\ [LinkNext]_link => GateInv'
<1> SUFFICES ASSUME LinkTypeOK, GateInv, [LinkNext]_link, NEW u \in undisturbed'
             PROVE  (u \in up /\ Alone(u) /\ HalfWay(u) /\ Settled(u))'
    BY DEF GateInv
<1>u. u \in undisturbed => u \in up /\ Alone(u) /\ HalfWay(u) /\ Settled(u)
  BY DEF GateInv
<1> USE DEF Alone, HalfWay, Settled, Closed
\* Steps that are not about u leave it as it is.
<1>1. ASSUME NEW t \in Tenants, Starts(t) \/ Dies(t) \/ Register(t) \/ Deregister(t)
      PROVE  (u \in up /\ Alone(u) /\ HalfWay(u) /\ Settled(u))'
  <2>1. u \in undisturbed /\ u # t
    BY <1>1 DEF Starts, Dies, Register, Deregister
  <2> QED BY <1>1, <1>u, <2>1 DEF Starts, Dies, Register, Deregister, table, pass, process
<1>2. ASSUME NEW c \in Threads, NEW t \in Armable, Arm(c, t) \/ Release(c, t)
      PROVE  (u \in up /\ Alone(u) /\ HalfWay(u) /\ Settled(u))'
  <2>1. /\ op[c] = Idle /\ up' = up /\ timed' = timed /\ limited' = limited
        /\ \A d \in Threads \ {c} : op'[d] = op[d]
        /\ op'[c].t = t
        /\ Begins(c, t)
    BY <1>2 DEF Arm, Release, process, LinkTypeOK
  <2>2. CASE u = t
    <3>1. ~Taken(c, t) /\ t \in up
      BY <2>1, <2>2 DEF Begins
    <3>2. \A d \in Threads \ {c} : op'[d].t # u
      BY <2>1, <2>2, <3>1 DEF Taken
    <3>3. \/ op'[c] = [at |-> "mode", t |-> t] /\ t \in armed'
          \/ op'[c] = [at |-> "open", t |-> t] /\ t \notin armed'
      <4>1. CASE Arm(c, t)
        BY <4>1 DEF Arm, LinkTypeOK
      <4>2. CASE Release(c, t)
        BY <4>2 DEF Release, LinkTypeOK
      <4> QED BY <1>2, <4>1, <4>2
    <3> QED BY <2>1, <2>2, <3>1, <3>2, <3>3
  <2>3. CASE u # t
    <3>1. u \in undisturbed
      BY <2>1, <2>3 DEF Begins
    <3>2. op[c].t # u /\ op'[c].t # u
      BY <2>1, <2>3, <3>1, LinkAssumption DEF Idle, LinkTypeOK
    <3>3. u \in armed' <=> u \in armed
      BY <1>2, <2>3 DEF Arm, Release
    <3> QED BY <1>u, <2>1, <3>1, <3>2, <3>3
  <2> QED BY <2>2, <2>3
<1>3. ASSUME NEW c \in Threads, Sending(c)
      PROVE  (u \in up /\ Alone(u) /\ HalfWay(u) /\ Settled(u))'
  <2>1. /\ u \in undisturbed /\ u \in Armable /\ u # Nobody
        /\ up' = up /\ armed' = armed
        /\ \A d \in Threads \ {c} : op'[d] = op[d]
    BY <1>3, LinkAssumption DEF Sending, SendMode, SendCredit, SendOpen, SendFails, table, process, LinkTypeOK
  <2>2. CASE op[c].t # u
    <3>1. op'[c].t # u
      BY <1>3, <2>1, <2>2, OpIsTyped DEF Sending, SendMode, SendCredit, SendOpen, SendFails, Idle, Sends, LinkTypeOK
    <3>2. (u \in timed' <=> u \in timed) /\ (u \in limited' <=> u \in limited)
      BY <1>3, <2>2 DEF Sending, SendMode, SendCredit, SendOpen, SendFails, process, Reaches
    <3> QED BY <1>u, <2>1, <2>2, <3>1, <3>2
  <2>3. CASE op[c].t = u
    <3>1. \A d \in Threads \ {c} : op'[d].t # u
      BY <1>u, <2>1, <2>3
    <3>2. CASE SendMode(c)
      <4>1. op'[c].at = "credit" /\ op'[c].t = u
        BY <2>3, <3>2, OpIsTyped DEF SendMode, LinkTypeOK, Sends, Idle
      <4>2. u \in timed'
        BY <1>u, <2>1, <2>3, <3>2 DEF SendMode, Reaches
      <4>3. u \in armed
        BY <1>u, <2>1, <2>3, <3>2 DEF SendMode
      <4> QED BY <1>u, <2>1, <3>1, <4>1, <4>2, <4>3
    <3>3. CASE SendCredit(c)
      <4>1. op'[c].t # u
        BY <2>1, <3>3 DEF SendCredit, LinkTypeOK, Idle
      <4>2. u \in timed' /\ u \in limited' /\ u \in armed'
        BY <1>u, <2>1, <2>3, <3>3 DEF SendCredit, Reaches
      <4> QED BY <1>u, <2>1, <3>1, <4>1, <4>2
    <3>4. CASE SendOpen(c)
      <4>1. op'[c].t # u
        BY <2>1, <3>4 DEF SendOpen, LinkTypeOK, Idle
      <4>2. u \notin limited' /\ u \notin armed'
        BY <1>u, <2>1, <2>3, <3>4 DEF SendOpen
      <4> QED BY <1>u, <2>1, <3>1, <4>1, <4>2
    <3>5. ~SendFails(c)
      BY <2>3 DEF SendFails
    <3> QED BY <1>3, <3>2, <3>3, <3>4, <3>5 DEF Sending
  <2> QED BY <2>2, <2>3
<1>4. ASSUME Feeds \/ UNCHANGED link
      PROVE  (u \in up /\ Alone(u) /\ HalfWay(u) /\ Settled(u))'
  <2>1. UNCHANGED <<table, op, process, undisturbed>>
    BY <1>4 DEF Feeds, BeginPass, Lookup, SendBudget, link
  <2> QED BY <1>u, <2>1 DEF table, process
<1>5. ~Restarts
  BY DEF Restarts
<1> QED
  BY <1>1, <1>2, <1>3, <1>4, <1>5 DEF LinkNext, Calling, Registering, Removing

\* An arm or release that has its tenant for itself leaves the process's gate as the
\* flag says.
THEOREM GateAgrees == LinkSpec => []GateFollowsFlag
<1>1. GateInv => GateFollowsFlag
  BY DEF GateInv, GateFollowsFlag, Settled
<1> QED
  BY <1>1, TypeHoldsAtFirst, TypeIsKept, GateInvHoldsAtFirst, GateInvIsKept, PTL DEF LinkSpec

---------------------------------------------------------------------------
(* OneStrayBudget *)

LEMMA StrayInvHoldsAtFirst == LinkInit => StrayInv
  BY DEF LinkInit, StrayInv

LEMMA StrayInvIsKept == LinkTypeOK /\ StrayInv /\ [LinkNext]_link => StrayInv'
<1> SUFFICES ASSUME LinkTypeOK, StrayInv, [LinkNext]_link PROVE StrayInv'
    OBVIOUS
<1> USE DEF StrayInv
<1>1. ASSUME NEW t \in Tenants, Starts(t) \/ Dies(t) \/ Register(t) \/ Deregister(t) PROVE StrayInv'
  BY <1>1 DEF Starts, Dies, Register, Deregister, table, pass
<1>2. ASSUME NEW c \in Threads, NEW t \in Armable, Arm(c, t) \/ Release(c, t) PROVE StrayInv'
  BY <1>2 DEF Arm, Release, pass, LinkTypeOK
<1>3. ASSUME NEW c \in Threads, Sending(c) PROVE StrayInv'
  BY <1>3 DEF Sending, SendMode, SendCredit, SendOpen, SendFails, table, pass
<1>4. CASE BeginPass
  BY <1>4, LinkAssumption DEF BeginPass, table, LinkTypeOK
<1>5. ASSUME NEW t \in Armable, Lookup(t) PROVE StrayInv'
  BY <1>5, LinkAssumption DEF Lookup, table, LinkTypeOK
<1>6. CASE SendBudget
  <2>1. sending \in Armable /\ sending' = Nobody /\ Nobody \notin todo
    BY <1>6, LinkAssumption DEF SendBudget, LinkTypeOK
  <2>2. stray[sending] = 0
    BY <2>1
  <2>3. stray' = stray \/ (stray' = [stray EXCEPT ![sending] = 1] /\ sending \notin armed)
    BY <1>6, <2>1, <2>2 DEF SendBudget, AtMostTwo, LinkTypeOK
  <2> QED BY <1>6, <2>1, <2>2, <2>3, LinkAssumption DEF SendBudget, table, LinkTypeOK
<1>7. CASE Restarts
  BY <1>7, LinkAssumption DEF Restarts, LinkTypeOK
<1>8. CASE UNCHANGED link
  BY <1>8 DEF link, table, pass
<1> QED
  BY <1>1, <1>2, <1>3, <1>4, <1>5, <1>6, <1>7, <1>8 DEF LinkNext, Feeds, Calling, Registering, Removing

\* A tenant whose flag is down is sent at most one more budget.
THEOREM StrayIsOne == LinkSpec => []OneStrayBudget
<1>1. StrayInv => OneStrayBudget
  BY DEF StrayInv, OneStrayBudget
<1> QED
  BY <1>1, TypeHoldsAtFirst, TypeIsKept, StrayInvHoldsAtFirst, StrayInvIsKept, PTL DEF LinkSpec

---------------------------------------------------------------------------
(* The broadcast *)

\* Who may have been asked and not cleared.
Known ==
    /\ req = NoReq => asked \subseteq pendingSent
    /\ req.kind = "urgent" => pendingSent = {} /\ asked \subseteq req.others \ req.left
    /\ req.kind = "clear" => req.others = pendingSent /\ asked \subseteq req.left

AskedInv == tidy => Known

---------------------------------------------------------------------------
(* Every step is one of FeederLink *)

LEMMA FirstIsLinkInit == Init => LinkInit
  BY DEF Init

LEMMA StepIsLinkStep == [Next]_vars => [LinkNext]_link
<1> SUFFICES ASSUME [Next]_vars PROVE [LinkNext]_link
    OBVIOUS
<1>1. CASE LinkStep
  BY <1>1 DEF LinkStep, LinkNext
<1>2. CASE Requests
  <2>1. UNCHANGED link
    BY <1>2 DEF Requests, SetPriority, Urgent, Ask, Clear, Misses, UrgentClear, Fails, Done
  <2> QED BY <2>1
<1>3. CASE UNCHANGED vars
  BY <1>3 DEF vars
<1> QED
  BY <1>1, <1>2, <1>3 DEF Next

\* The broadcast does nothing to the gates that FeederLink does not.
THEOREM IsFeederLink == Spec => LinkSpec
  BY FirstIsLinkInit, StepIsLinkStep, PTL DEF Spec, LinkSpec

\* So an arm or release that has its tenant for itself leaves the gate as the flag says.
COROLLARY GateAgreesHere == Spec => []GateFollowsFlag
  BY IsFeederLink, GateAgrees, PTL

---------------------------------------------------------------------------
(* Types *)

\* What a step of FeederLink does to the broadcast.
LEMMA LinkStepDoes ==
    ASSUME LinkStep
    PROVE  \/ up \subseteq up' /\ UNCHANGED broadcast
           \/ \E t \in Tenants : /\ up' = up \ {t} /\ asked' = asked \ {t} /\ urgent' = urgent \ {t}
                                 /\ UNCHANGED <<pendingSent, req, tidy>>
           \/ /\ up' = up /\ UNCHANGED <<asked, urgent>>
              /\ pendingSent' = {} /\ req' = NoReq /\ tidy' = FALSE
<1>1. ASSUME NEW t \in Tenants, Starts(t) PROVE up \subseteq up'
  BY <1>1 DEF Starts
<1>2. ASSUME NEW c \in Threads, Calling(c) PROVE up \subseteq up'
  BY <1>2 DEF Calling, Arm, Release, process
<1>3. ASSUME NEW c \in Threads, Sending(c) PROVE up \subseteq up'
  BY <1>3 DEF Sending, SendMode, SendCredit, SendOpen, SendFails, process
<1>4. ASSUME Registering \/ Removing PROVE up \subseteq up'
  BY <1>4 DEF Registering, Removing, Register, Deregister, process
<1>5. ASSUME Feeds PROVE up \subseteq up'
  BY <1>5 DEF Feeds, BeginPass, Lookup, SendBudget, process
<1>6. ASSUME NEW t \in Tenants, Dies(t) PROVE up' = up \ {t}
  BY <1>6 DEF Dies
<1>7. ASSUME Restarts PROVE up' = up
  BY <1>7 DEF Restarts, process
<1> QED
  BY <1>1, <1>2, <1>3, <1>4, <1>5, <1>6, <1>7 DEF LinkStep

LEMMA NoReqIs == NoReq.kind = "none" /\ NoReq.left = {} /\ NoReq.others = {}
  BY DEF NoReq

LEMMA TypeOKIsKept == TypeOK /\ [Next]_vars => TypeOK'
<1> SUFFICES ASSUME TypeOK, [Next]_vars PROVE TypeOK'
    OBVIOUS
<1>l. LinkTypeOK' /\ feeder \subseteq Tenants
  BY StepIsLinkStep, TypeIsKept DEF TypeOK, LinkTypeOK
<1> USE DEF TypeOK
<1>1. CASE LinkStep
  BY <1>1, <1>l, LinkStepDoes, NoReqIs DEF broadcast
<1>2. ASSUME NEW t \in Tenants, NEW on \in BOOLEAN, SetPriority(t, on) PROVE TypeOK'
  BY <1>2, <1>l DEF SetPriority, Reaches, link, process
<1>3. ASSUME NEW t \in Tenants, Urgent(t) PROVE TypeOK'
  BY <1>3, <1>l DEF Urgent, Reaches, link, process
<1>4. ASSUME NEW t \in Tenants, Ask(t) \/ Clear(t) \/ Misses(t) PROVE TypeOK'
  <2>1. req \in [kind : {"urgent", "clear"}, tenant : Tenants \cup {Nobody}, left : SUBSET Tenants, others : SUBSET Tenants]
    BY <1>4, NoReqIs DEF Ask, Clear, Misses, In
  <2>2. /\ [req EXCEPT !.left = @ \ {t}].left = req.left \ {t}
        /\ [req EXCEPT !.left = @ \ {t}].others = req.others
        /\ [req EXCEPT !.left = @ \ {t}]
             \in [kind : {"urgent", "clear"}, tenant : Tenants \cup {Nobody}, left : SUBSET Tenants, others : SUBSET Tenants]
    BY <2>1
  <2> QED BY <1>4, <1>l, <2>1, <2>2 DEF Ask, Clear, Misses, In, Reaches, link, process
<1>5. CASE UrgentClear
  BY <1>5, <1>l DEF UrgentClear, link, process
<1>6. CASE Fails
  BY <1>6, <1>l, NoReqIs DEF Fails, link, process
<1>7. CASE Done
  <2>1. req.others \subseteq Tenants
    BY NoReqIs
  <2> QED BY <1>7, <1>l, <2>1, NoReqIs DEF Done, link, process
<1>8. CASE UNCHANGED vars
  BY <1>8, <1>l DEF vars, broadcast, link, process
<1> QED
  BY <1>1, <1>2, <1>3, <1>4, <1>5, <1>6, <1>7, <1>8 DEF Next, Requests

\* The broadcast's state is of its types.
THEOREM TypeCorrect == Spec => []TypeOK
<1>1. Init => TypeOK
  BY TypeHoldsAtFirst, NoReqIs DEF Init, TypeOK
<1> QED
  BY <1>1, TypeOKIsKept, PTL DEF Spec

---------------------------------------------------------------------------
(* AskedIsRemembered *)

LEMMA AskedInvIsKept == TypeOK /\ AskedInv /\ [Next]_vars => AskedInv'
<1> SUFFICES ASSUME TypeOK, AskedInv, [Next]_vars, tidy' PROVE Known'
    BY DEF AskedInv
<1> USE NoReqIs DEF AskedInv, Known
<1>1. CASE LinkStep
  BY <1>1, LinkStepDoes DEF broadcast
<1>2. ASSUME NEW t \in Tenants, NEW on \in BOOLEAN, SetPriority(t, on) PROVE Known'
  BY <1>2 DEF SetPriority
<1>3. ASSUME NEW t \in Tenants, Urgent(t) PROVE Known'
  BY <1>3 DEF Urgent, HttpFree
<1>4. ASSUME NEW t \in Tenants, Ask(t) PROVE Known'
  <2>1. req \in [kind : {"urgent", "clear"}, tenant : Tenants \cup {Nobody}, left : SUBSET Tenants, others : SUBSET Tenants]
    BY <1>4 DEF Ask, In, TypeOK
  <2>2. /\ req'.kind = "urgent" /\ req'.left = req.left \ {t} /\ req'.others = req.others
        /\ asked' \subseteq asked \cup {t} /\ t \in req.others
    BY <1>4, <2>1 DEF Ask, In, Reaches, TypeOK
  <2> QED BY <1>4, <2>2 DEF Ask, In
<1>5. ASSUME NEW t \in Tenants, Clear(t) PROVE Known'
  <2>1. req \in [kind : {"urgent", "clear"}, tenant : Tenants \cup {Nobody}, left : SUBSET Tenants, others : SUBSET Tenants]
    BY <1>5 DEF Clear, In, TypeOK
  <2>2. req'.kind = "clear" /\ req'.left = req.left \ {t} /\ req'.others = req.others
    BY <1>5, <2>1 DEF Clear, In
  <2> QED BY <1>5, <2>2 DEF Clear, In
<1>10. ASSUME NEW t \in Tenants, Misses(t) PROVE Known'
  <2>1. req \in [kind : {"urgent", "clear"}, tenant : Tenants \cup {Nobody}, left : SUBSET Tenants, others : SUBSET Tenants]
    BY <1>10 DEF Misses, TypeOK
  <2>2. req'.kind = req.kind /\ req'.left = req.left \ {t} /\ req'.others = req.others
    BY <1>10, <2>1 DEF Misses
  <2> QED BY <1>10, <2>2 DEF Misses, In
<1>6. CASE UrgentClear
  BY <1>6 DEF UrgentClear, HttpFree
<1>7. CASE Fails
  BY <1>7 DEF Fails, In, TypeOK
<1>8. CASE Done
  BY <1>8 DEF Done, In, TypeOK
<1>9. CASE UNCHANGED vars
  BY <1>9 DEF vars, broadcast
<1> QED
  BY <1>1, <1>2, <1>3, <1>4, <1>5, <1>6, <1>7, <1>8, <1>9, <1>10 DEF Next, Requests

\* Whoever was told to give way is known to urgent_clear, while calls come in pairs,
\* no urgent fails half way and no clear is lost.
THEOREM NobodyIsForgotten == Spec => []AskedIsRemembered
<1>1. Init => AskedInv
  BY NoReqIs DEF Init, AskedInv, Known
<1>2. AskedInv => AskedIsRemembered
  BY DEF AskedInv, Known, AskedIsRemembered
<1> QED
  BY <1>1, <1>2, TypeCorrect, AskedInvIsKept, PTL DEF Spec

=============================================================================
