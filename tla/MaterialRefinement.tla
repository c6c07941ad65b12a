------------------------- MODULE MaterialRefinement -------------------------
(***************************************************************************)
(* The material service implements the abstract ledger: what it keeps in   *)
(* structs and requests under outMu amounts to one atomic step per         *)
(* decision.                                                               *)
(***************************************************************************)
EXTENDS MaterialService

CONSTANT Lost   \* what counts the stock of a material registered again

ASSUME LostAssumption == {None, Lost} \cap Int = {} /\ None # Lost /\ None \notin Requests

StockLeft ==
  [m \in MaterialIds |->
     IF materials[m] = None THEN None
     ELSE IF RegisteredOnce(m) THEN stock[materials[m]] ELSE Lost]
LineQuantities(q, m) == {Items(q)[i].quantity : i \in LinesFor(q, m)}
AskedLines ==
  [q \in RequestIds |->
     IF request[q] = None THEN None ELSE [m \in MaterialIds |-> LineQuantities(q, m)]]
Needs ==
  [q \in RequestIds |->
     IF request[q] = None THEN None ELSE [m \in MaterialIds |-> Demand(q, m)]]
SignedRequests == {q \in RequestIds : managerSigned[q]}

Ledger == INSTANCE StockLedger
            WITH left <- StockLeft, lines <- AskedLines, need <- Needs,
                 stage <- status, taken <- SignedRequests

\* Seen from outside, a call of the service is one step of the ledger or none: the
\* lines of a request are taken once, from all their materials at the same moment
\* and only if there is enough for each, and nothing is completed without
\* (service/material.go:67-69).
ImplementsLedger == Ledger!Spec
=============================================================================
