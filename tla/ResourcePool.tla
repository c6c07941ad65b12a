---------------------------- MODULE ResourcePool ----------------------------
(***************************************************************************)
(* What the resource endpoints promise, with no goroutines, mutex or       *)
(* pointers: a pool of units per resource, and requests that are reviewed, *)
(* then granted in full, refused for lack of free units, and returned.     *)
(* Every decision is one step.  The count of free units is promised for a  *)
(* resource that is registered once and posts no negative in_use; of the   *)
(* others, the life cycle of the requests.                                 *)
(***************************************************************************)
EXTENDS Integers

CONSTANTS ResourceIds, RequestIds, MaxCapacity, MaxQuantity, None, Lost

VARIABLES
  free,    \* resource -> its free units, None before it is registered, Lost
           \* once the count of them means nothing
  need,    \* request -> the resource and the quantity it asks for
  stage    \* request -> where it stands

vars == <<free, need, stage>>

Init ==
  /\ free = [r \in ResourceIds |-> None]
  /\ need = [q \in RequestIds |-> None]
  /\ stage = [q \in RequestIds |-> "none"]

\* Registered once, with at most MaxCapacity units that are not in use.
Register(r) ==
  /\ free[r] = None
  /\ free'[r] \in Int /\ free'[r] <= MaxCapacity
  /\ free' = [free EXCEPT ![r] = free'[r]]
  /\ UNCHANGED <<need, stage>>

\* Registered again, or with a negative number of units in use.
LoseCount(r) ==
  /\ free' = [free EXCEPT ![r] = Lost]
  /\ UNCHANGED <<need, stage>>

Submit(q, r) ==
  /\ stage[q] = "none"
  /\ free[r] # None
  /\ \E n \in 1..MaxQuantity :
       need' = [need EXCEPT ![q] = [resource |-> r, quantity |-> n]]
  /\ stage' = [stage EXCEPT ![q] = "pending"]
  /\ UNCHANGED free

Approve(q) ==
  /\ stage[q] = "pending"
  /\ stage' = [stage EXCEPT ![q] = "approved"]
  /\ UNCHANGED <<free, need>>

Counted(r) == free[r] # Lost

Grant(q) ==
  /\ stage[q] = "approved"
  /\ Counted(need[q].resource) => free[need[q].resource] >= need[q].quantity
  /\ stage' = [stage EXCEPT ![q] = "allocated"]
  /\ free' = [free EXCEPT ![need[q].resource] =
                IF Counted(need[q].resource) THEN @ - need[q].quantity ELSE Lost]
  /\ UNCHANGED need

Refuse(q) ==
  /\ stage[q] = "approved"
  /\ Counted(need[q].resource) => free[need[q].resource] < need[q].quantity
  /\ stage' = [stage EXCEPT ![q] = "rejected"]
  /\ UNCHANGED <<free, need>>

GiveBack(q) ==
  /\ stage[q] = "allocated"
  /\ stage' = [stage EXCEPT ![q] = "released"]
  /\ free' = [free EXCEPT ![need[q].resource] =
                IF Counted(need[q].resource) THEN @ + need[q].quantity ELSE Lost]
  /\ UNCHANGED need

Next ==
  \/ \E r \in ResourceIds : Register(r) \/ LoseCount(r)
  \/ \E r \in ResourceIds, q \in RequestIds : Submit(q, r)
  \/ \E q \in RequestIds : Approve(q) \/ Grant(q) \/ Refuse(q) \/ GiveBack(q)

Spec == Init /\ [][Next]_vars
=============================================================================
