---------------------------- MODULE StockLedger ----------------------------
(***************************************************************************)
(* What the material endpoints promise, with no goroutines, mutex or       *)
(* pointers: a ledger of stock, and requests whose lines are taken from    *)
(* all their materials in one step, once, and only if there is enough for  *)
(* every line (for each by itself: lines that share a material may take    *)
(* more than there is).  The stock is promised for a material that is      *)
(* registered once.  That a request is decided once is not promised: a     *)
(* rejection may come late.                                                *)
(***************************************************************************)
EXTENDS Integers

CONSTANTS MaterialIds, RequestIds, MaxStock, None, Lost

VARIABLES
  left,    \* material -> its stock, None before it is registered, Lost once
           \* registered again
  lines,   \* request -> what its lines for each material ask, one by one
  need,    \* request -> what they ask together
  stage,   \* request -> where it stands
  taken    \* the requests whose lines were taken

vars == <<left, lines, need, stage, taken>>

Init ==
  /\ left = [m \in MaterialIds |-> None]
  /\ lines = [q \in RequestIds |-> None]
  /\ need = [q \in RequestIds |-> None]
  /\ stage = [q \in RequestIds |-> "none"]
  /\ taken = {}

Register(m) ==
  /\ left[m] = None /\ left'[m] \in 0..MaxStock
  /\ left' = [left EXCEPT ![m] = left'[m]]
  /\ UNCHANGED <<lines, need, stage, taken>>

RegisterAgain(m) ==
  /\ left[m] # None /\ left'[m] = Lost
  /\ left' = [left EXCEPT ![m] = Lost]
  /\ UNCHANGED <<lines, need, stage, taken>>

\* A request asks for something, and only of registered materials; together its
\* lines ask for at least what each asks.
Submit(q) ==
  /\ stage[q] = "none" /\ stage' = [stage EXCEPT ![q] = "requested"]
  /\ lines'[q] \in [MaterialIds -> SUBSET Nat]
  /\ need'[q] \in [MaterialIds -> Nat]
  /\ \E m \in MaterialIds : need'[q][m] > 0
  /\ \A m \in MaterialIds :
       /\ need'[q][m] > 0 => left[m] # None
       /\ \A n \in lines'[q][m] : n <= need'[q][m]
  /\ lines' = [lines EXCEPT ![q] = lines'[q]]
  /\ need' = [need EXCEPT ![q] = need'[q]]
  /\ UNCHANGED <<left, taken>>

Counted(m) == left[m] \notin {None, Lost}

\* Everything q needs leaves the ledger at once, if each line finds enough.
Take(q) ==
  /\ stage[q] # "none"
  /\ q \notin taken /\ taken' = taken \cup {q}
  /\ \A m \in MaterialIds : Counted(m) => \A n \in lines[q][m] : left[m] >= n
  /\ left' = [m \in MaterialIds |-> IF Counted(m) THEN left[m] - need[q][m] ELSE left[m]]
  /\ UNCHANGED <<lines, need, stage>>

Complete(q) ==
  /\ q \in taken
  /\ stage' = [stage EXCEPT ![q] = "completed"]
  /\ UNCHANGED <<left, lines, need, taken>>

Reject(q) ==
  /\ stage[q] # "none"
  /\ stage' = [stage EXCEPT ![q] = "rejected"]
  /\ UNCHANGED <<left, lines, need, taken>>

Next ==
  \/ \E q \in RequestIds : Submit(q) \/ Take(q) \/ Complete(q) \/ Reject(q)
  \/ \E m \in MaterialIds : Register(m) \/ RegisterAgain(m)

Spec == Init /\ [][Next]_vars
=============================================================================
