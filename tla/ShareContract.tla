-------------------------- MODULE ShareContract --------------------------
(***************************************************************************)
(* What the feeder promises about a tenant's share of GPU time, with no    *)
(* clock, lock, thread or message in it.                                   *)
(*                                                                         *)
(* A tenant signs a contract when it is registered.  Somebody may lend it  *)
(* another share for a while (the interference loop, the adaptive loop) or *)
(* waive the contract for good (a swap, a renegotiation).  A loan ends in  *)
(* exactly the contract as it is then, in one step; or it is stranded: the *)
(* share stays as lent, and nobody will end it.                            *)
(***************************************************************************)

CONSTANTS Tenants,   \* device IDs
          Ratios     \* shares of the GPU time

VARIABLE deal        \* deal[n]: the contract of tenant n and what it is given

Gone == [kind |-> "gone"]

Deals == {Gone} \cup
         [kind : {"contract", "loan", "waived", "stranded"}, contract : Ratios, applied : Ratios]

Init == deal = [n \in Tenants |-> Gone]

\* Registration, or a new registration under the same name.
Sign(n) ==
    \E r \in Ratios :
        deal'[n] = [kind |-> "contract", contract |-> r, applied |-> r]

Leave(n) == deal'[n] = Gone

\* Another share, for a while ("loan") or for good ("waived").
Adjust(n, kind) ==
    /\ deal[n] # Gone
    /\ \E r \in Ratios :
           deal'[n] = [kind |-> kind, contract |-> deal[n].contract, applied |-> r]

\* The end of a loan: all of the contract, at once.
Return(n) ==
    /\ deal[n].kind = "loan"
    /\ deal'[n] = [kind     |-> "contract",
                   contract |-> deal[n].contract,
                   applied  |-> deal[n].contract]

\* The end of a loan that leaves the share as it was lent.
Strand(n) ==
    /\ deal[n].kind = "loan"
    /\ deal'[n] = [deal[n] EXCEPT !.kind = "stranded"]

TenantStep(n) ==
    \/ Sign(n)
    \/ Leave(n)
    \/ Adjust(n, "loan")
    \/ Adjust(n, "waived")
    \/ Return(n)
    \/ Strand(n)
    \/ deal'[n] = deal[n]

\* One call may name several tenants, so several deals change in one step.
Next == /\ deal' \in [Tenants -> Deals]
        /\ \A n \in Tenants : TenantStep(n)

Spec == Init /\ [][Next]_deal

=============================================================================
