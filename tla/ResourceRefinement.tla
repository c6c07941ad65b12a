------------------------- MODULE ResourceRefinement -------------------------
(***************************************************************************)
(* The resource service implements the abstract pool: what it keeps in     *)
(* structs and statuses under allocMu amounts to one atomic step per       *)
(* decision.                                                               *)
(***************************************************************************)
EXTENDS ResourceService

CONSTANT Lost   \* what counts the free units of a resource registered again

ASSUME LostAssumption == {None, Lost} \cap (Int \cup Requests) = {} /\ None # Lost

FreeUnits ==
  [r \in ResourceIds |->
     IF resources[r] = None THEN None
     ELSE IF RegisteredOnce(r) THEN Available(resources[r]) ELSE Lost]
Needs ==
  [q \in RequestIds |->
     IF request[q] = None THEN None
     ELSE [resource |-> request[q].resource, quantity |-> request[q].quantity]]

Pool == INSTANCE ResourcePool WITH free <- FreeUnits, need <- Needs, stage <- status

\* Seen from outside, a call of the service is one step of the pool or none:
\* the interleavings of approval, allocation, arbitration, release and
\* registration show nothing the atomic pool could not do (approvals of one
\* request not overlapping).
ImplementsPool == Pool!Spec
=============================================================================
