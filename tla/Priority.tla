------------------------------ MODULE Priority ------------------------------
(***************************************************************************)
(* controller/priority.py: a tenant is made URGENT and all others are told *)
(* to give way (urgent_request) until urgent_clear.  The requests of the   *)
(* HTTP thread go over the same sockets and look up the same table as      *)
(* FeederLink, whose other threads take entries out meanwhile: a tenant    *)
(* without entry raises KeyError, in the middle of the loop.               *)
(*                                                                         *)
(* A process keeps that it was asked until it is cleared or ends; an       *)
(* URGENT one does not look (external).  NORMAL and BACKGROUND are the     *)
(* same here, and so are the orders the loops go in.                       *)
(***************************************************************************)
EXTENDS FeederLink

VARIABLES
    asked,          \* processes with urgent_pending
    urgent,         \* processes of class URGENT
    pendingSent,    \* _pending_sent: whom urgent_clear will clear
    req,            \* the urgent or urgent_clear the HTTP thread is in
    tidy            \* history: no urgent has failed or come before the last was cleared,
                    \* and no clear was lost on a process that lives

broadcast == <<asked, urgent, pendingSent, req, tidy>>
vars == <<link, broadcast>>

NoReq == [kind |-> "none", tenant |-> Nobody, left |-> {}, others |-> {}]

TypeOK ==
    /\ LinkTypeOK
    /\ asked \subseteq up /\ urgent \subseteq up
    /\ pendingSent \subseteq Tenants
    /\ req \in {NoReq} \cup [kind : {"urgent", "clear"}, tenant : Tenants \cup {Nobody},
                             left : SUBSET Tenants, others : SUBSET Tenants]
    /\ req.left \subseteq req.others
    /\ tidy \in BOOLEAN

Init ==
    /\ LinkInit
    /\ asked = {} /\ urgent = {} /\ pendingSent = {} /\ req = NoReq
    /\ tidy = TRUE

HttpFree == op[Http] = Idle /\ req = NoReq

\* POST /priority
SetPriority(t, on) ==
    /\ HttpFree /\ t \in feeder
    /\ urgent' = IF on THEN Reaches(urgent, t) ELSE urgent \ {t}
    /\ UNCHANGED <<link, asked, pendingSent, req, tidy>>

\* POST /urgent: the others are listed by the route; set_priority comes first, and may
\* be lost.
Urgent(t) ==
    /\ HttpFree /\ t \in feeder
    /\ urgent' \in {urgent, Reaches(urgent, t)}
    /\ req' = [kind |-> "urgent", tenant |-> t, left |-> feeder \ {t}, others |-> feeder \ {t}]
    /\ tidy' = (tidy /\ pendingSent = {})
    /\ UNCHANGED <<link, asked, pendingSent>>

\* POST /urgent_clear
UrgentClear ==
    /\ HttpFree
    /\ req' = [kind |-> "clear", tenant |-> Nobody, left |-> pendingSent, others |-> pendingSent]
    /\ UNCHANGED <<link, asked, urgent, pendingSent, tidy>>

In(kind) == req.kind = kind

\* The next of the loop is told.
Ask(t) ==
    /\ In("urgent") /\ t \in req.left \cap feeder
    /\ asked' = Reaches(asked, t)
    /\ req' = [req EXCEPT !.left = @ \ {t}]
    /\ UNCHANGED <<link, urgent, pendingSent, tidy>>

Clear(t) ==
    /\ In("clear") /\ t \in req.left \cap feeder
    /\ asked' = asked \ {t}
    /\ req' = [req EXCEPT !.left = @ \ {t}]
    /\ UNCHANGED <<link, urgent, pendingSent, tidy>>

\* The next of the loop is sent to and the datagram fails: the loop goes on.
Misses(t) ==
    /\ req # NoReq /\ t \in req.left \cap feeder \cap up
    /\ req' = [req EXCEPT !.left = @ \ {t}]
    /\ tidy' = (tidy /\ In("urgent"))
    /\ UNCHANGED <<link, asked, urgent, pendingSent>>

\* Variant of Fails: what was to be cleared is forgotten.
FailsForgetting ==
    /\ req.left \ feeder # {}
    /\ req' = NoReq
    /\ pendingSent' = IF In("clear") THEN {} ELSE pendingSent
    /\ tidy' = (tidy /\ In("clear"))
    /\ UNCHANGED <<link, asked, urgent>>

\* The next of the loop has no entry any more: 400, and nothing is recorded.
Fails ==
    /\ req.left \ feeder # {}
    /\ req' = NoReq
    /\ tidy' = (tidy /\ In("clear"))
    /\ UNCHANGED <<link, asked, urgent, pendingSent>>

\* The holder and the set are recorded, or forgotten.
Done ==
    /\ req # NoReq /\ req.left = {}
    /\ req' = NoReq
    /\ pendingSent' = IF In("urgent") THEN req.others ELSE {}
    /\ UNCHANGED <<link, asked, urgent, tidy>>

Requests ==
    \/ \E t \in Tenants : Urgent(t) \/ Ask(t) \/ Clear(t) \/ Misses(t)
    \/ \E t \in Tenants, on \in BOOLEAN : SetPriority(t, on)
    \/ UrgentClear \/ Fails \/ Done

\* FeederLink's steps, with the HTTP thread busy while it is in a request.
LinkStep ==
    \/ /\ \/ \E t \in Tenants : Starts(t)
          \/ \E c \in Threads : (c = Http => req = NoReq) /\ Calling(c)
          \/ \E c \in Threads : Sending(c)
          \/ req = NoReq /\ Registering
          \/ Removing
          \/ Feeds
       /\ UNCHANGED broadcast
    \/ \E t \in Tenants :
          /\ Dies(t)
          /\ asked' = asked \ {t} /\ urgent' = urgent \ {t}
          /\ UNCHANGED <<pendingSent, req, tidy>>
    \/ /\ Restarts
       /\ pendingSent' = {} /\ req' = NoReq /\ tidy' = FALSE
       /\ UNCHANGED <<asked, urgent>>

Next == LinkStep \/ Requests

Spec == Init /\ [][Next]_vars

\* The feeder's loop goes on.
FairSpec == Spec /\ WF_vars(Feeds /\ UNCHANGED broadcast)

---------------------------------------------------------------------------
(* Properties *)

\* Whoever was told to give way is known to urgent_clear, as long as calls come in
\* pairs, no urgent fails half way and no clear is lost on the way: also when entries
\* are taken out half way through a request, a clear fails and is repeated, or
\* processes come and go.  So after such a clear, once answered, nobody is left waiting
\* for an urgent tenant that is done.
AskedIsRemembered == tidy /\ req = NoReq => asked \subseteq pendingSent

=============================================================================
