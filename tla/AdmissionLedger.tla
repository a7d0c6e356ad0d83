--------------------------- MODULE AdmissionLedger ---------------------------
(***************************************************************************)
(* What the scheduler of mini-kueue promises about quota: a ledger in      *)
(* which a workload is submitted, admitted to a flavor that its queue      *)
(* offers and that has room for all of it beside everything already        *)
(* admitted there, and finished, once each.  There are no queues, passes   *)
(* or counters here: what is taken is what the ledger says.                *)
(***************************************************************************)
EXTENDS Integers, Functions

CONSTANTS
    Workloads,
    Demand,     \* workload -> the resources it asks for -> amount
    Capacity,   \* flavor -> the resources it tracks -> amount
    Offered     \* workload -> the flavors of its queue

VARIABLES
    phase,      \* of each workload
    place       \* the flavor each was admitted to

vars == <<phase, place>>

Init ==
    /\ phase = [w \in Workloads |-> "new"]
    /\ place \in [Workloads -> {"none"}]

Amount(w, r) == IF r \in DOMAIN Demand[w] THEN Demand[w][r] ELSE 0

Taken(f, r) ==
    SumFunctionOnSet([v \in Workloads |-> Amount(v, r)],
                     {v \in Workloads : phase[v] = "Admitted" /\ place[v] = f})

Submit(w) ==
    /\ phase[w] = "new"
    /\ phase' = [phase EXCEPT ![w] = "Pending"]
    /\ UNCHANGED place

Admit(w, f) ==
    /\ phase[w] = "Pending"
    /\ f \in Offered[w]
    /\ \A r \in DOMAIN Demand[w] :
            /\ r \in DOMAIN Capacity[f]
            /\ Taken(f, r) + Demand[w][r] <= Capacity[f][r]
    /\ phase' = [phase EXCEPT ![w] = "Admitted"]
    /\ place' = [place EXCEPT ![w] = f]

Finish(w) ==
    /\ phase[w] = "Admitted"
    /\ phase' = [phase EXCEPT ![w] = "Finished"]
    /\ UNCHANGED place

Next ==
    \E w \in Workloads :
        \/ Submit(w)
        \/ \E f \in Offered[w] : Admit(w, f)
        \/ Finish(w)

Spec == Init /\ [][Next]_vars
=============================================================================
