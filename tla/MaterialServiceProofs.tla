----------------------- MODULE MaterialServiceProofs -----------------------
(***************************************************************************)
(* Theorems about MaterialService, for any number of goroutines, materials *)
(* and requests, any posted lists, stocks and priorities.                  *)
(***************************************************************************)
EXTENDS MaterialService, FiniteSetTheorems, TLAPS

-----------------------------------------------------------------------------
(* Type correctness.                                                       *)

\* What a request takes of a material is a number.
LEMMA DemandIsNat ==
  ASSUME NEW q, NEW m
  PROVE  Demand(q, m) \in Nat
<1>1. IsFiniteSet((1..MaxLines) \X (1..MaxQuantity))
  <2>1. 1 \in Int /\ MaxLines \in Int /\ MaxQuantity \in Int
    BY MaterialAssumption
  <2>2. IsFiniteSet(1..MaxLines) /\ IsFiniteSet(1..MaxQuantity)
    BY <2>1, FS_Interval
  <2> QED
    BY <2>2, FS_Product
<1> QED
  BY <1>1, FS_Subset, FS_CardinalityType DEF Demand, DemandUnits

LEMMA TypeInit == Init => TypeOK
<1> SUFFICES ASSUME Init PROVE TypeOK
  OBVIOUS
<1>1. clock \in 0..MaxClock /\ managers \subseteq Managers
  BY MaterialAssumption DEF Init
<1>2. /\ mats \in [Procs -> [MaterialIds -> Objects \cup {None}]]
      /\ materials \in [MaterialIds -> Objects \cup {None}]
  BY DEF Init, NoMaterials
<1>3. VarsTyped
  <2>1. /\ locked \in BOOLEAN
        /\ pc \in [Procs -> ControlPoints]
        /\ op \in [Procs -> {"sign", "arbitrate", "reject", None}]
        /\ arg \in [Procs -> RequestIds \cup {None}]
        /\ by \in [Procs -> Actors \cup {None}]
    BY DEF Init, ControlPoints
  <2>2. /\ todo \in [Procs -> SUBSET RequestIds]
        /\ completed \in [Procs -> SUBSET RequestIds]
        /\ rejected \in [Procs -> SUBSET RequestIds]
    BY DEF Init
  <2>3. /\ id \in [Objects -> MaterialIds \cup {None}]
        /\ stock \in [Objects -> Int] /\ posted \in [Objects -> Nat]
    BY DEF Init
  <2>4. /\ request \in [RequestIds -> Requests \cup {None}]
        /\ status \in [RequestIds -> Statuses]
        /\ managerId \in [RequestIds -> Actors \cup {None}]
        /\ managerSigned \in [RequestIds -> BOOLEAN] /\ arbitrated \subseteq RequestIds
    BY DEF Init, Statuses
  <2> QED
    BY <1>1, <1>2, <2>1, <2>2, <2>3, <2>4 DEF VarsTyped
<1>4. \A m \in MaterialIds : materials[m] = None
  BY DEF Init, NoMaterials
<1>5. ASSUME NEW q \in RequestIds PROVE RequestTyped(q)
  BY DEF Init, RequestTyped
<1>6. ASSUME NEW p \in Procs PROVE CallTyped(p)
  BY DEF Init, CallTyped
<1> QED
  BY <1>3, <1>4, <1>5, <1>6 DEF TypeOK

\* A line of a stored request names a material a client may register.
LEMMA LineNamesMaterial ==
  ASSUME NEW q, request[q] \in Requests, NEW i \in DOMAIN Items(q)
  PROVE  Items(q)[i].material \in MaterialIds
<1>1. Items(q) \in Seq(Lines)
  BY MaterialAssumption DEF Items, Requests
<1>2. Items(q)[i] \in Lines
  BY <1>1
<1> QED
  BY <1>2 DEF Lines

LEMMA CompleteTyped ==
  ASSUME TypeOK, NEW p \in Procs, Complete(p)
  PROVE  TypeOK'
<1>1. /\ VarsTyped /\ CallTyped(p)
      /\ \A m \in MaterialIds : materials[m] # None => id[materials[m]] = m
  BY DEF TypeOK
<1>2. /\ arg[p] \in RequestIds /\ status[arg[p]] # "none"
      /\ mats[p] \in [MaterialIds -> Objects \cup {None}]
      /\ \A m \in MaterialIds : mats[p][m] # None => id[mats[p][m]] = m
  BY <1>1 DEF CallTyped, VarsTyped, Complete
<1>3. /\ materials' \in [MaterialIds -> Objects \cup {None}]
      /\ id' = id
      /\ \A m \in MaterialIds : /\ materials[m] # None => materials'[m] # None
                                /\ materials'[m] # None => id[materials'[m]] = m
  BY <1>1, <1>2, MaterialAssumption DEF VarsTyped, Complete, SaveMaterials
<1>4. /\ status' \in [RequestIds -> Statuses]
      /\ \A q \in RequestIds : status'[q] = "none" <=> status[q] = "none"
  BY <1>1, <1>2 DEF VarsTyped, Complete, Statuses
<1>5. VarsTyped'
  <2>1. NoMaterials \in [MaterialIds -> Objects \cup {None}]
    BY DEF NoMaterials
  <2>2. mats' \in [Procs -> [MaterialIds -> Objects \cup {None}]]
    BY <1>1, <2>1 DEF VarsTyped, Complete, Return
  <2>3. /\ pc' \in [Procs -> ControlPoints]
        /\ op' \in [Procs -> {"sign", "arbitrate", "reject", None}]
        /\ arg' \in [Procs -> RequestIds \cup {None}]
        /\ by' \in [Procs -> Actors \cup {None}]
    BY <1>1 DEF VarsTyped, Complete, Return, ControlPoints
  <2>4. /\ locked' \in BOOLEAN
        /\ todo' \in [Procs -> SUBSET RequestIds]
        /\ completed' \in [Procs -> SUBSET RequestIds]
        /\ rejected' \in [Procs -> SUBSET RequestIds]
    <3>1. CASE op[p] = "sign"
      <4>1. locked' = FALSE /\ Return(p)
        BY <3>1 DEF Complete
      <4>2. /\ todo' = [todo EXCEPT ![p] = {}]
            /\ completed' = [completed EXCEPT ![p] = {}]
            /\ rejected' = [rejected EXCEPT ![p] = {}]
        BY <4>1 DEF Return
      <4>3. /\ todo \in [Procs -> SUBSET RequestIds]
            /\ completed \in [Procs -> SUBSET RequestIds]
            /\ rejected \in [Procs -> SUBSET RequestIds]
        BY <1>1 DEF VarsTyped
      <4> QED
        BY <4>1, <4>2, <4>3
    <3>2. CASE op[p] = "arbitrate"
      <4>1. /\ UNCHANGED <<locked, todo, rejected>>
            /\ completed' = [completed EXCEPT ![p] = @ \cup {arg[p]}]
        BY <3>2 DEF Complete, Return
      <4> QED
        BY <1>1, <1>2, <4>1 DEF VarsTyped
    <3> QED
      BY <3>1, <3>2 DEF Complete
  <2>5. UNCHANGED <<managers, id, stock, posted, request, managerId, managerSigned,
                    arbitrated, clock>>
    BY DEF Complete
  <2> QED
    BY <1>1, <1>3, <1>4, <2>2, <2>3, <2>4, <2>5 DEF VarsTyped
<1>6. ASSUME NEW q \in RequestIds PROVE RequestTyped(q)'
  <2>1. RequestTyped(q) /\ request' = request
    BY DEF TypeOK, Complete
  <2> QED
    <3>1. ASSUME status[q] # "none", NEW i \in DOMAIN Items(q)
          PROVE  materials'[Items(q)[i].material] # None
      <4>1. /\ request[q] \in Requests
            /\ materials[Items(q)[i].material] # None
        BY <2>1, <3>1 DEF RequestTyped
      <4>2. Items(q)[i].material \in MaterialIds
        BY <4>1, LineNamesMaterial
      <4> QED
        BY <1>3, <4>1, <4>2
    <3> QED
      BY <1>4, <2>1, <3>1 DEF RequestTyped, Items
<1>7. ASSUME NEW r \in Procs, r # p PROVE CallTyped(r)'
  <2>1. CallTyped(r) /\ request' = request
    BY DEF TypeOK, Complete
  <2>2. /\ pc'[r] = pc[r] /\ op'[r] = op[r] /\ arg'[r] = arg[r] /\ by'[r] = by[r]
        /\ mats'[r] = mats[r] /\ todo'[r] = todo[r]
    BY <1>1, <1>7 DEF VarsTyped, Complete, Return
  <2>3. todo[r] \subseteq RequestIds
    BY <1>1 DEF VarsTyped
  <2> QED
    BY <1>3, <1>4, <2>1, <2>2, <2>3 DEF CallTyped, Wanted, LinesFor, Items
<1>8. ASSUME NEW r \in Procs, r = p PROVE CallTyped(r)'
  <2>1. CASE op[p] = "sign"
    <3>1. pc'[p] = "idle" /\ todo'[p] = {}
      BY <1>1, <2>1 DEF VarsTyped, Complete, Return
    <3> QED
      BY <1>8, <3>1 DEF CallTyped
  <2>2. CASE op[p] = "arbitrate"
    <3>1. /\ pc'[p] = "arbitrating" /\ op'[p] = op[p] /\ by'[p] = by[p]
          /\ todo'[p] = todo[p] /\ todo[p] \subseteq RequestIds
      BY <1>1, <2>2 DEF VarsTyped, Complete
    <3>2. by[p] \in Actors /\ \A q \in todo[p] : status[q] # "none"
      BY <1>1 DEF CallTyped, Complete
    <3> QED
      BY <1>4, <1>8, <2>2, <3>1, <3>2 DEF CallTyped
  <2> QED
    BY <2>1, <2>2 DEF Complete
<1>9. \A r \in Procs : CallTyped(r)'
  BY <1>7, <1>8
<1> QED
  BY <1>3, <1>5, <1>6, <1>9 DEF TypeOK

LEMMA RejectTyped ==
  ASSUME TypeOK, NEW p \in Procs, NEW q \in RequestIds, ArbitrateReject(p, q)
  PROVE  TypeOK'
<1>1. /\ VarsTyped /\ CallTyped(p) /\ by[p] \in Actors /\ status[q] # "none"
      /\ op[p] = "arbitrate" /\ RequestTyped(q)
  BY DEF TypeOK, CallTyped, ArbitrateReject, Turn
<1>2. /\ status' \in [RequestIds -> Statuses]
      /\ managerId' \in [RequestIds -> Actors \cup {None}]
      /\ \A b \in RequestIds : status'[b] = "none" <=> status[b] = "none"
  <2>1. CASE status[q] = "requested"
    BY <1>1, <2>1 DEF VarsTyped, ArbitrateReject, Statuses
  <2>2. CASE status[q] # "requested"
    BY <1>1, <2>2 DEF VarsTyped, ArbitrateReject
  <2> QED
    BY <2>1, <2>2
<1>3. /\ UNCHANGED <<locked, op, by, completed, managers, materials, id, stock, posted,
                     request, managerSigned, arbitrated, clock>>
      /\ pc' = [pc EXCEPT ![p] = "turnedDown"]
      /\ arg' = [arg EXCEPT ![p] = q]
      /\ mats' = [mats EXCEPT ![p] = Lookup(q)]
      /\ todo' \in [Procs -> SUBSET RequestIds]
      /\ rejected' \in [Procs -> SUBSET RequestIds]
      /\ \A r \in Procs : todo'[r] \subseteq todo[r]
  BY <1>1 DEF VarsTyped, ArbitrateReject, Turn, stockVars
<1>4. /\ Lookup(q) \in [MaterialIds -> Objects \cup {None}]
      /\ \A m \in MaterialIds : IF m \in Wanted(q)
                                THEN Lookup(q)[m] # None /\ id[Lookup(q)[m]] = m
                                ELSE Lookup(q)[m] = None
  <2>1. \A m \in Wanted(q) : materials[m] # None
    BY <1>1 DEF RequestTyped, Wanted, LinesFor
  <2> QED
    BY <1>1, <2>1 DEF VarsTyped, TypeOK, Lookup
<1>5. VarsTyped'
  <2>1. /\ pc' \in [Procs -> ControlPoints] /\ arg' \in [Procs -> RequestIds \cup {None}]
        /\ mats' \in [Procs -> [MaterialIds -> Objects \cup {None}]]
    BY <1>1, <1>3, <1>4 DEF VarsTyped, ControlPoints
  <2> QED
    BY <1>1, <1>2, <1>3, <2>1 DEF VarsTyped
<1>6. ASSUME NEW b \in RequestIds PROVE RequestTyped(b)'
  BY <1>2, <1>3 DEF TypeOK, RequestTyped, Items
<1>7. ASSUME NEW r \in Procs, r # p PROVE CallTyped(r)'
  <2>1. CallTyped(r) /\ todo[r] \subseteq RequestIds
    BY <1>1 DEF TypeOK, VarsTyped
  <2>2. pc'[r] = pc[r] /\ arg'[r] = arg[r] /\ mats'[r] = mats[r]
    BY <1>1, <1>3, <1>7 DEF VarsTyped
  <2>3. \A b \in todo'[r] : status'[b] # "none"
    BY <1>2, <1>3, <2>1 DEF CallTyped
  <2>4. arg[r] \in RequestIds /\ status[arg[r]] # "none" => status'[arg[r]] # "none"
    BY <1>2
  <2>5. \A b : Wanted(b)' = Wanted(b)
    BY <1>3 DEF Wanted, LinesFor, Items
  <2> QED
    BY <1>3, <2>1, <2>2, <2>3, <2>4, <2>5 DEF CallTyped
<1>8. CallTyped(p)'
  <2>1. pc'[p] = "turnedDown" /\ arg'[p] = q /\ mats'[p] = Lookup(q)
    BY <1>1, <1>3 DEF VarsTyped
  <2>2. Wanted(q)' = Wanted(q)
    BY <1>3 DEF Wanted, LinesFor, Items
  <2>3. \A b \in todo'[p] : status'[b] # "none"
    BY <1>1, <1>2, <1>3 DEF CallTyped, VarsTyped
  <2> QED
    BY <1>1, <1>2, <1>3, <1>4, <2>1, <2>2, <2>3 DEF CallTyped
<1>9. \A r \in Procs : CallTyped(r)'
  BY <1>7, <1>8
<1> QED
  BY <1>3, <1>5, <1>6, <1>9 DEF TypeOK

\* Saving the materials of a call changes nothing the others rely on.
LEMMA SaveBackTyped ==
  ASSUME TypeOK, NEW p \in Procs, ArbitrateSaveBack(p)
  PROVE  TypeOK'
<1>1. /\ VarsTyped /\ CallTyped(p)
      /\ \A m \in MaterialIds : materials[m] # None => id[materials[m]] = m
  BY DEF TypeOK
<1>2. /\ mats[p] \in [MaterialIds -> Objects \cup {None}]
      /\ \A m \in MaterialIds : mats[p][m] # None => id[mats[p][m]] = m
      /\ op[p] = "arbitrate" /\ by[p] \in Actors
  BY <1>1 DEF CallTyped, VarsTyped, ArbitrateSaveBack
<1>3. /\ materials' \in [MaterialIds -> Objects \cup {None}]
      /\ id' = id
      /\ \A m \in MaterialIds : /\ materials[m] # None => materials'[m] # None
                                /\ materials'[m] # None => id[materials'[m]] = m
  BY <1>1, <1>2, MaterialAssumption DEF VarsTyped, ArbitrateSaveBack, SaveMaterials
<1>4. /\ UNCHANGED <<locked, op, by, todo, completed, rejected, managers, id, stock,
                     posted, request, status, managerId, managerSigned, arbitrated, clock>>
      /\ pc' = [pc EXCEPT ![p] = "arbitrating"]
      /\ arg' = [arg EXCEPT ![p] = None]
      /\ mats' = [mats EXCEPT ![p] = NoMaterials]
  BY DEF ArbitrateSaveBack, requestVars
<1>5. VarsTyped'
  <2>1. NoMaterials \in [MaterialIds -> Objects \cup {None}]
    BY DEF NoMaterials
  <2>2. /\ pc' \in [Procs -> ControlPoints] /\ arg' \in [Procs -> RequestIds \cup {None}]
        /\ mats' \in [Procs -> [MaterialIds -> Objects \cup {None}]]
    BY <1>1, <1>4, <2>1 DEF VarsTyped, ControlPoints
  <2> QED
    BY <1>1, <1>3, <1>4, <2>2 DEF VarsTyped
<1>6. ASSUME NEW q \in RequestIds PROVE RequestTyped(q)'
  <2>1. RequestTyped(q)
    BY DEF TypeOK
  <2>2. ASSUME status[q] # "none", NEW i \in DOMAIN Items(q)
        PROVE  materials'[Items(q)[i].material] # None
    <3>1. /\ request[q] \in Requests
          /\ materials[Items(q)[i].material] # None
      BY <2>1, <2>2 DEF RequestTyped
    <3>2. Items(q)[i].material \in MaterialIds
      BY <3>1, LineNamesMaterial
    <3> QED
      BY <1>3, <3>1, <3>2
  <2> QED
    BY <1>4, <2>1, <2>2 DEF RequestTyped, Items
<1>7. ASSUME NEW r \in Procs, r # p PROVE CallTyped(r)'
  <2>1. CallTyped(r) /\ todo[r] \subseteq RequestIds
    BY <1>1 DEF TypeOK, VarsTyped
  <2>2. pc'[r] = pc[r] /\ arg'[r] = arg[r] /\ mats'[r] = mats[r]
    BY <1>1, <1>4, <1>7 DEF VarsTyped
  <2> QED
    BY <1>4, <2>1, <2>2 DEF CallTyped, Wanted, LinesFor, Items
<1>8. CallTyped(p)'
  <2>1. pc'[p] = "arbitrating"
    BY <1>1, <1>4 DEF VarsTyped
  <2>2. \A b \in todo'[p] : status'[b] # "none"
    BY <1>1, <1>4 DEF CallTyped
  <2> QED
    BY <1>2, <1>4, <2>1, <2>2 DEF CallTyped
<1>9. \A r \in Procs : CallTyped(r)'
  BY <1>7, <1>8
<1> QED
  BY <1>3, <1>5, <1>6, <1>9 DEF TypeOK

LEMMA TypeNext == TypeOK /\ [Next]_vars => TypeOK'
<1> SUFFICES ASSUME TypeOK, [Next]_vars PROVE TypeOK'
  OBVIOUS
<1> USE MaterialAssumption DEF TypeOK, VarsTyped, RequestTyped, CallTyped, ControlPoints,
        Statuses, Items
<1>1. ASSUME NEW m \in Managers, RegisterManager(m)
      PROVE  TypeOK'
  BY <1>1 DEF RegisterManager, callVars, requestVars, Wanted, LinesFor
<1>2. ASSUME NEW o \in Objects, NEW m \in MaterialIds, NEW s \in -1..MaxStock,
             CreateMaterial(o, m, s)
      PROVE  TypeOK'
  BY <1>2 DEF CreateMaterial, callVars, requestVars, Wanted, LinesFor
<1>3. ASSUME NEW q \in RequestIds, NEW l \in ItemLists, NEW pr \in Priorities,
             NEW t \in 0..MaxClock, CreateRequest(q, l, pr, t)
      PROVE  TypeOK'
  <2>1. VarsTyped'
    BY <1>3 DEF CreateRequest, callVars, stockVars, Requests
  <2>2. ASSUME NEW p \in Procs PROVE CallTyped(p)'
    BY <1>3 DEF CreateRequest, callVars, stockVars, Wanted, LinesFor
  <2>3. ASSUME NEW b \in RequestIds PROVE RequestTyped(b)'
    BY <1>3 DEF CreateRequest, callVars, stockVars, LineOK, Requests
  <2>4. \A n \in MaterialIds : materials'[n] # None => id'[materials'[n]] = n
    BY <1>3 DEF CreateRequest, stockVars
  <2> HIDE DEF VarsTyped, RequestTyped, CallTyped
  <2> QED
    BY <2>1, <2>2, <2>3, <2>4
<1>4. ASSUME NEW p \in Procs, NEW q \in RequestIds, NEW m \in Actors,
             CallManagerSign(p, q, m)
      PROVE  TypeOK'
  BY <1>4 DEF CallManagerSign, Call, stockVars, requestVars, Wanted, LinesFor
<1>5. ASSUME NEW p \in Procs, NEW m \in Actors, CallArbitrate(p, m)
      PROVE  TypeOK'
  BY <1>5 DEF CallArbitrate, Call, stockVars, requestVars, Wanted, LinesFor
<1>6. ASSUME NEW p \in Procs, NEW q \in RequestIds, NEW m \in Actors,
             RejectRequest(p, q, m)
      PROVE  TypeOK'
  BY <1>6 DEF RejectRequest, stockVars, requestVars, Wanted, LinesFor
<1>7. ASSUME NEW p \in Procs, SignBegin(p)
      PROVE  TypeOK'
  <2>1. VarsTyped'
    BY <1>7 DEF SignBegin, EnterSign, Lookup, stockVars, requestVars
  <2>2. ASSUME NEW r \in Procs PROVE CallTyped(r)'
    BY <1>7 DEF SignBegin, EnterSign, Signable, Lookup, stockVars, requestVars, Wanted, LinesFor
  <2>3. ASSUME NEW q \in RequestIds PROVE RequestTyped(q)'
    BY <1>7 DEF SignBegin, EnterSign, stockVars, requestVars
  <2> HIDE DEF VarsTyped, RequestTyped, CallTyped
  <2>4. UNCHANGED <<stockVars, requestVars>>
    BY <1>7 DEF SignBegin, EnterSign
  <2> QED
    BY <2>1, <2>2, <2>3, <2>4 DEF stockVars
<1>8. ASSUME NEW p \in Procs, SignRefuse(p)
      PROVE  TypeOK'
  BY <1>8 DEF SignRefuse, Return, NoMaterials, stockVars, requestVars, Wanted, LinesFor
<1>9. ASSUME NEW p \in Procs, TakeStock(p)
      PROVE  TypeOK'
  <2>1. stock' \in [Objects -> Int]
    BY <1>9, DemandIsNat DEF TakeStock
  <2> QED
    BY <1>9, <2>1 DEF TakeStock, Wanted, LinesFor
<1>10. ASSUME NEW p \in Procs, Complete(p)
       PROVE  TypeOK'
  BY <1>10, CompleteTyped
<1>11. ASSUME NEW p \in Procs, ArbitrateBegin(p)
       PROVE  TypeOK'
  BY <1>11 DEF ArbitrateBegin, PendingMaterialRequests, stockVars, requestVars, Wanted, LinesFor
<1>12. ASSUME NEW p \in Procs, NEW q \in RequestIds, ArbitrateSign(p, q)
       PROVE  TypeOK'
  BY <1>12 DEF ArbitrateSign, Turn, Lookup, stockVars, Wanted, LinesFor
<1>13. ASSUME NEW p \in Procs, NEW q \in RequestIds, ArbitrateSkip(p, q)
       PROVE  TypeOK'
  BY <1>13 DEF ArbitrateSkip, Turn, stockVars, Wanted, LinesFor
<1>14. ASSUME NEW p \in Procs, NEW q \in RequestIds, ArbitrateReject(p, q)
       PROVE  TypeOK'
  BY <1>14, RejectTyped
<1>15. ASSUME NEW p \in Procs, ArbitrateEnd(p)
       PROVE  TypeOK'
  <2>1. VarsTyped'
    BY <1>15 DEF ArbitrateEnd, Return, NoMaterials, stockVars, requestVars
  <2>2. ASSUME NEW p2 \in Procs PROVE CallTyped(p2)'
    BY <1>15 DEF ArbitrateEnd, Return, stockVars, requestVars, Wanted, LinesFor
  <2>3. ASSUME NEW q \in RequestIds PROVE RequestTyped(q)'
    BY <1>15 DEF ArbitrateEnd, stockVars, requestVars
  <2> HIDE DEF VarsTyped, RequestTyped, CallTyped
  <2> QED
    BY <1>15, <2>1, <2>2, <2>3 DEF ArbitrateEnd, stockVars
<1>16. ASSUME NEW p \in Procs, RejectManager(p)
       PROVE  TypeOK'
  BY <1>16 DEF RejectManager, stockVars, Wanted, LinesFor
<1>17. ASSUME NEW p \in Procs, RejectStatus(p)
       PROVE  TypeOK'
  BY <1>17 DEF RejectStatus, Return, NoMaterials, stockVars, Wanted, LinesFor
<1>18. ASSUME NEW p \in Procs, ArbitrateSaveBack(p)
       PROVE  TypeOK'
  BY <1>18, SaveBackTyped
<1>19. CASE UNCHANGED vars
  BY <1>19 DEF vars, Wanted, LinesFor
<1> HIDE DEF TypeOK, VarsTyped, RequestTyped, CallTyped, ControlPoints, Statuses, Items
<1> QED
  BY <1>1, <1>2, <1>3, <1>4, <1>5, <1>6, <1>7, <1>8, <1>9, <1>10, <1>11, <1>12, <1>13,
     <1>14, <1>15, <1>16, <1>17, <1>18, <1>19 DEF Next, Clients, Acquire, Proceed

\* In every reachable state all variables and call locals are of the right kind,
\* and every material a request or a call names is registered: the lookups of
\* internal/service/material.go never fail once a request is stored.
THEOREM TypeCorrect == Spec => []TypeOK
BY TypeInit, TypeNext, PTL DEF Spec
-----------------------------------------------------------------------------
(* Mutual exclusion.                                                       *)

LEMMA MutexNext == TypeOK /\ Mutex /\ [Next]_vars => Mutex'
<1> SUFFICES ASSUME TypeOK, Mutex, [Next]_vars PROVE Mutex'
  OBVIOUS
<1>1. pc \in [Procs -> ControlPoints]
  BY DEF TypeOK, VarsTyped
<1>2. ASSUME UNCHANGED <<locked, pc>> PROVE Mutex'
  BY <1>2 DEF Mutex, Critical
<1>3. ASSUME NEW p \in Procs, pc[p] \notin {"signing", "completing", "arbitrating", "turnedDown"},
             NEW c \in {"idle", "waiting", "rejecting", "rejected"},
             locked' = locked, pc' = [pc EXCEPT ![p] = c]
      PROVE  Mutex'
  BY <1>1, <1>3 DEF Mutex, Critical
<1>4. ASSUME NEW p \in Procs, ~locked, locked',
             NEW c \in {"signing", "arbitrating"}, pc' = [pc EXCEPT ![p] = c]
      PROVE  Mutex'
  BY <1>1, <1>4 DEF Mutex, Critical
<1>5. ASSUME NEW p \in Procs,
             pc[p] \in {"signing", "completing", "arbitrating", "turnedDown"},
             NEW c \in {"signing", "completing", "arbitrating", "turnedDown"},
             locked' = locked, pc' = [pc EXCEPT ![p] = c]
      PROVE  Mutex'
  BY <1>1, <1>5 DEF Mutex, Critical
<1>6. ASSUME NEW p \in Procs, pc[p] \in {"signing", "completing", "arbitrating"},
             locked' = FALSE, pc' = [pc EXCEPT ![p] = "idle"]
      PROVE  Mutex'
  BY <1>1, <1>6 DEF Mutex, Critical
<1>7. CASE Clients \/ UNCHANGED vars
  BY <1>2, <1>3, <1>7 DEF Clients, RegisterManager, CreateMaterial, CreateRequest, Call,
     CallManagerSign, CallArbitrate, RejectRequest, callVars, vars
<1>8. ASSUME NEW p \in Procs, Acquire(p) PROVE Mutex'
  BY <1>3, <1>4, <1>8 DEF Acquire, SignBegin, EnterSign, SignRefuse, Return, ArbitrateBegin
<1>9. ASSUME NEW p \in Procs, Proceed(p) PROVE Mutex'
  <2>1. CASE Complete(p)
    BY <1>5, <1>6, <2>1 DEF Complete, Return
  <2>2. CASE TakeStock(p) \/ ArbitrateSaveBack(p) \/ ArbitrateEnd(p)
    BY <1>5, <1>6, <2>2 DEF TakeStock, ArbitrateSaveBack, ArbitrateEnd, Return
  <2>3. ASSUME NEW q \in RequestIds,
               ArbitrateSign(p, q) \/ ArbitrateSkip(p, q) \/ ArbitrateReject(p, q)
        PROVE  Mutex'
    BY <1>2, <1>5, <2>3 DEF ArbitrateSign, ArbitrateSkip, ArbitrateReject, Turn
  <2>4. CASE RejectManager(p) \/ RejectStatus(p)
    BY <1>3, <2>4 DEF RejectManager, RejectStatus, Return
  <2> QED
    BY <1>9, <2>1, <2>2, <2>3, <2>4 DEF Proceed
<1> QED
  BY <1>7, <1>8, <1>9 DEF Next

\* ManagerSign and ArbitrateMaterials exclude each other for any number of calls,
\* and outMu is held exactly while one of them is past its Lock: no path of
\* internal/service/material.go leaves it locked.
THEOREM MutualExclusion == Spec => []Mutex
<1>1. Init => Mutex
  BY DEF Init, Mutex, Critical
<1> QED
  BY <1>1, MutexNext, TypeCorrect, PTL DEF Spec

-----------------------------------------------------------------------------
(* Dual signature.                                                         *)

\* A signed request is stored, and still open only while the call that signed it
\* completes it: no arbitration finds it open and turns it down.
OpenInv ==
  \A q \in RequestIds : managerSigned[q] =>
    /\ status[q] # "none"
    /\ status[q] = "requested" => \E p \in Procs : pc[p] = "completing" /\ arg[p] = q

\* Only a taking of stock signs.
LEMMA SignedKept ==
  ASSUME [Next]_vars, \A p \in Procs : ~TakeStock(p)
  PROVE  managerSigned' = managerSigned
<1>1. CASE Clients \/ UNCHANGED vars
  BY <1>1 DEF Clients, RegisterManager, CreateMaterial, CreateRequest, CallManagerSign,
     CallArbitrate, Call, RejectRequest, requestVars, vars
<1>2. ASSUME NEW p \in Procs, Acquire(p) PROVE managerSigned' = managerSigned
  BY <1>2 DEF Acquire, SignBegin, EnterSign, SignRefuse, ArbitrateBegin, requestVars
<1>3. ASSUME NEW p \in Procs, Proceed(p) PROVE managerSigned' = managerSigned
  BY <1>3 DEF Proceed, Complete, ArbitrateSign, ArbitrateSkip, ArbitrateReject, Turn,
     ArbitrateSaveBack, ArbitrateEnd, RejectManager, RejectStatus, requestVars
<1> QED
  BY <1>1, <1>2, <1>3 DEF Next

\* A request becomes open only when it is stored; a completion goes on until it is done.
LEMMA OpenKept ==
  ASSUME TypeOK, [Next]_vars
  PROVE  /\ \A q \in RequestIds :
              /\ status[q] # "none" => status'[q] # "none"
              /\ status'[q] = "requested" => status[q] \in {"none", "requested"}
         /\ \A p \in Procs : pc[p] = "completing" =>
              \/ Complete(p)
              \/ pc'[p] = "completing" /\ arg'[p] = arg[p]
<1> DEFINE Kept(q) == /\ status[q] # "none" => status'[q] # "none"
                      /\ status'[q] = "requested" => status[q] \in {"none", "requested"}
           Goes(p) == pc[p] = "completing" =>
                        \/ Complete(p)
                        \/ pc'[p] = "completing" /\ arg'[p] = arg[p]
<1>1. VarsTyped
  BY DEF TypeOK
<1>2. ASSUME Clients \/ UNCHANGED vars
      PROVE  (\A q \in RequestIds : Kept(q)) /\ (\A p \in Procs : Goes(p))
  <2>1. \A q \in RequestIds : Kept(q)
    BY <1>1, <1>2 DEF VarsTyped, Clients, RegisterManager, CreateMaterial, CreateRequest,
       CallManagerSign, CallArbitrate, Call, RejectRequest, requestVars, vars
  <2>2. \A p \in Procs : Goes(p)
    BY <1>1, <1>2 DEF VarsTyped, Clients, RegisterManager, CreateMaterial, CreateRequest,
       CallManagerSign, CallArbitrate, Call, RejectRequest, callVars, vars
  <2> QED
    BY <2>1, <2>2
<1>3. ASSUME NEW r \in Procs, Acquire(r)
      PROVE  (\A q \in RequestIds : Kept(q)) /\ (\A p \in Procs : Goes(p))
  <2>1. \A q \in RequestIds : Kept(q)
    BY <1>3 DEF Acquire, SignBegin, EnterSign, SignRefuse, ArbitrateBegin, requestVars
  <2>2. \A p \in Procs : Goes(p)
    BY <1>1, <1>3 DEF VarsTyped, Acquire, SignBegin, EnterSign, SignRefuse, ArbitrateBegin,
       Return
  <2> QED
    BY <2>1, <2>2
<1>4. ASSUME NEW r \in Procs,
             TakeStock(r) \/ Complete(r) \/ ArbitrateSaveBack(r) \/ ArbitrateEnd(r)
      PROVE  (\A q \in RequestIds : Kept(q)) /\ (\A p \in Procs : Goes(p))
  <2>1. \A q \in RequestIds : Kept(q)
    BY <1>1, <1>4 DEF VarsTyped, TakeStock, Complete, ArbitrateSaveBack, ArbitrateEnd,
       requestVars
  <2>2. \A p \in Procs : Goes(p)
    BY <1>1, <1>4 DEF VarsTyped, TakeStock, Complete, ArbitrateSaveBack, ArbitrateEnd, Return
  <2> QED
    BY <2>1, <2>2
<1>5. ASSUME NEW r \in Procs, NEW b \in RequestIds,
             ArbitrateSign(r, b) \/ ArbitrateSkip(r, b) \/ ArbitrateReject(r, b)
      PROVE  (\A q \in RequestIds : Kept(q)) /\ (\A p \in Procs : Goes(p))
  <2>1. \A q \in RequestIds : Kept(q)
    BY <1>1, <1>5 DEF VarsTyped, ArbitrateSign, ArbitrateSkip, ArbitrateReject
  <2>2. \A p \in Procs : Goes(p)
    BY <1>1, <1>5 DEF VarsTyped, ArbitrateSign, ArbitrateSkip, ArbitrateReject, Turn
  <2> QED
    BY <2>1, <2>2
<1>6. ASSUME NEW r \in Procs, RejectManager(r) \/ RejectStatus(r)
      PROVE  (\A q \in RequestIds : Kept(q)) /\ (\A p \in Procs : Goes(p))
  <2>1. \A q \in RequestIds : Kept(q)
    BY <1>1, <1>6 DEF VarsTyped, RejectManager, RejectStatus
  <2>2. \A p \in Procs : Goes(p)
    BY <1>1, <1>6 DEF VarsTyped, RejectManager, RejectStatus, Return
  <2> QED
    BY <2>1, <2>2
<1>7. (\A q \in RequestIds : Kept(q)) /\ (\A p \in Procs : Goes(p))
  <2> HIDE DEF Kept, Goes
  <2> QED
    BY <1>2, <1>3, <1>4, <1>5, <1>6 DEF Next, Proceed
<1> QED
  BY <1>7

LEMMA OpenNext == TypeOK /\ OpenInv /\ [Next]_vars => OpenInv'
<1> SUFFICES ASSUME TypeOK, OpenInv, [Next]_vars, NEW q \in RequestIds, managerSigned'[q]
             PROVE  /\ status'[q] # "none"
                    /\ status'[q] = "requested" =>
                         \E p \in Procs : pc'[p] = "completing" /\ arg'[p] = q
  BY DEF OpenInv
<1>1. VarsTyped /\ \A p \in Procs : CallTyped(p)
  BY DEF TypeOK
<1>2. ASSUME NEW p \in Procs, TakeStock(p), arg[p] = q
      PROVE  status[q] # "none" /\ pc'[p] = "completing" /\ arg'[p] = q
  BY <1>1, <1>2 DEF VarsTyped, CallTyped, TakeStock
<1>3. CASE \E p \in Procs : TakeStock(p) /\ arg[p] = q
  BY <1>2, <1>3, OpenKept
<1>4. CASE \A p \in Procs : TakeStock(p) => arg[p] # q
  <2>1. managerSigned[q]
    <3>1. ASSUME NEW p \in Procs, TakeStock(p) PROVE managerSigned[q]
      BY <1>1, <1>4, <3>1 DEF VarsTyped, TakeStock
    <3> QED
      BY <3>1, SignedKept
  <2>2. ASSUME status'[q] = "requested"
        PROVE  \E p \in Procs : pc'[p] = "completing" /\ arg'[p] = q
    <3>1. PICK p \in Procs : pc[p] = "completing" /\ arg[p] = q
      BY <2>1, <2>2, OpenKept DEF OpenInv
    <3>2. ~Complete(p)
      BY <1>1, <2>2, <3>1 DEF VarsTyped, Complete
    <3> QED
      BY <3>1, <3>2, OpenKept
  <2> QED
    BY <2>1, <2>2, OpenKept DEF OpenInv
<1> QED
  BY <1>3, <1>4

\* A signature or a rejection past its checks carries a registered manager; what an
\* arbitration signs is marked.
SignInv ==
  /\ \A p \in Procs :
       /\ pc[p] \in {"signing", "completing", "rejecting", "rejected"} =>
            op[p] = "arbitrate" \/ by[p] \in managers
       /\ pc[p] = "completing" => managerSigned[arg[p]]
       /\ pc[p] \in {"rejecting", "rejected"} => op[p] = "reject"
  /\ \A q \in RequestIds :
       /\ managerSigned[q] => managerId[q] \in managers \/ q \in arbitrated
       /\ status[q] = "completed" => managerSigned[q]

LEMMA SignNext ==
  ASSUME TypeOK, Mutex, OpenInv, SignInv, [Next]_vars
  PROVE  SignInv'
<1> USE DEF TypeOK, VarsTyped, CallTyped, SignInv, ControlPoints
<1>1. ASSUME NEW m \in Managers, RegisterManager(m)
      PROVE  SignInv'
  BY <1>1 DEF RegisterManager, callVars, requestVars
<1>2. ASSUME NEW o \in Objects, NEW m \in MaterialIds, NEW s \in -1..MaxStock,
             CreateMaterial(o, m, s)
      PROVE  SignInv'
  BY <1>2 DEF CreateMaterial, callVars, requestVars
<1>3. ASSUME NEW q \in RequestIds, NEW l \in ItemLists, NEW pr \in Priorities,
             NEW t \in 0..MaxClock, CreateRequest(q, l, pr, t)
      PROVE  SignInv'
  BY <1>3 DEF CreateRequest, callVars, stockVars
<1>4. ASSUME NEW p \in Procs, NEW q \in RequestIds, NEW m \in Actors,
             CallManagerSign(p, q, m)
      PROVE  SignInv'
  BY <1>4 DEF CallManagerSign, Call, stockVars, requestVars
<1>5. ASSUME NEW p \in Procs, NEW m \in Actors, CallArbitrate(p, m)
      PROVE  SignInv'
  BY <1>5 DEF CallArbitrate, Call, stockVars, requestVars
<1>6. ASSUME NEW p \in Procs, NEW q \in RequestIds, NEW m \in Actors,
             RejectRequest(p, q, m)
      PROVE  SignInv'
  BY <1>6 DEF RejectRequest, IsManager, stockVars, requestVars
<1>7. ASSUME NEW p \in Procs, Acquire(p)
      PROVE  SignInv'
  <2>1. CASE SignBegin(p)
    BY <2>1 DEF SignBegin, EnterSign, Signable, IsManager, stockVars, requestVars
  <2>2. CASE SignRefuse(p)
    BY <2>2 DEF SignRefuse, Return, stockVars, requestVars
  <2>3. CASE ArbitrateBegin(p)
    BY <2>3 DEF ArbitrateBegin, stockVars, requestVars
  <2> QED
    BY <1>7, <2>1, <2>2, <2>3 DEF Acquire
<1>8. ASSUME NEW p \in Procs, TakeStock(p)
      PROVE  SignInv'
  BY <1>8 DEF TakeStock
<1>9. ASSUME NEW p \in Procs, Complete(p)
      PROVE  SignInv'
  <2>1. CASE op[p] = "sign"
    BY <1>9, <2>1 DEF Complete, Return
  <2>2. CASE op[p] = "arbitrate"
    BY <1>9, <2>2 DEF Complete
  <2> HIDE DEF SignInv
  <2> QED
    BY <1>9, <2>1, <2>2 DEF Complete
<1>10. ASSUME NEW p \in Procs, NEW q \in RequestIds,
              ArbitrateSign(p, q) \/ ArbitrateSkip(p, q)
       PROVE  SignInv'
  BY <1>10 DEF ArbitrateSign, ArbitrateSkip, Turn, stockVars
<1>11. ASSUME NEW p \in Procs, NEW q \in RequestIds, ArbitrateReject(p, q)
       PROVE  SignInv'
  <2>1. CASE status[q] = "requested"
    <3>1. ~managerSigned[q]
      BY <1>11, <2>1 DEF ArbitrateReject, Turn, Mutex, Critical, OpenInv
    <3> QED
      BY <1>11, <2>1, <3>1 DEF ArbitrateReject, Turn, stockVars
  <2>2. CASE status[q] # "requested"
    BY <1>11, <2>2 DEF ArbitrateReject, Turn, stockVars
  <2> HIDE DEF SignInv
  <2> QED
    BY <2>1, <2>2
<1>12. ASSUME NEW p \in Procs,
              \/ ArbitrateSaveBack(p) \/ ArbitrateEnd(p)
              \/ RejectManager(p) \/ RejectStatus(p)
       PROVE  SignInv'
  <2>1. CASE ArbitrateEnd(p)
    BY <2>1 DEF ArbitrateEnd, Return, stockVars, requestVars
  <2>2. CASE RejectManager(p)
    BY <2>2 DEF RejectManager, stockVars
  <2>3. CASE RejectStatus(p)
    BY <2>3 DEF RejectStatus, Return, stockVars
  <2>4. CASE ArbitrateSaveBack(p)
    BY <2>4 DEF ArbitrateSaveBack, requestVars
  <2> QED
    BY <1>12, <2>1, <2>2, <2>3, <2>4
<1>13. CASE UNCHANGED vars
  BY <1>13 DEF vars
<1> HIDE DEF TypeOK, VarsTyped, CallTyped, SignInv, ControlPoints
<1> QED
  BY <1>1, <1>2, <1>3, <1>4, <1>5, <1>6, <1>7, <1>8, <1>9, <1>10, <1>11, <1>12, <1>13
     DEF Next, Clients, Proceed

\* A completed outbound carries a signature, and that of a registered manager unless
\* an arbitration gave it, for any interleaving of signatures, arbitrations and the
\* rejections that take no lock.
THEOREM DualSignature == Spec => []CompletedWasSigned
<1>1. Init => SignInv
  BY DEF Init, SignInv
<1>2. SignInv => CompletedWasSigned
  BY DEF SignInv, CompletedWasSigned
<1>3. TypeOK /\ Mutex /\ OpenInv /\ SignInv /\ [Next]_vars => SignInv'
  BY SignNext
<1>4. Init => OpenInv
  BY DEF Init, OpenInv
<1> QED
  BY <1>1, <1>2, <1>3, <1>4, OpenNext, TypeCorrect, MutualExclusion, PTL DEF Spec
-----------------------------------------------------------------------------
(* Stock.                                                                  *)

\* A stored request never changes, so neither does what it takes.
LEMMA RequestsKept ==
  ASSUME TypeOK, [Next]_vars, NEW q \in RequestIds, status[q] # "none"
  PROVE  /\ request'[q] = request[q] /\ status'[q] # "none"
         /\ Wanted(q)' = Wanted(q)
         /\ \A m : LinesFor(q, m)' = LinesFor(q, m) /\ Demand(q, m)' = Demand(q, m)
<1>1. /\ request \in [RequestIds -> Requests \cup {None}]
      /\ status \in [RequestIds -> Statuses]
  BY DEF TypeOK, VarsTyped
<1>2. request'[q] = request[q] /\ status'[q] # "none"
  <2>1. CASE UNCHANGED vars
    BY <2>1 DEF vars
  <2>2. CASE Clients
    BY <1>1, <2>2 DEF Clients, RegisterManager, CreateMaterial, CreateRequest,
       CallManagerSign, CallArbitrate, Call, RejectRequest, requestVars
  <2>3. ASSUME NEW p \in Procs, Acquire(p)
        PROVE  request'[q] = request[q] /\ status'[q] # "none"
    BY <2>3 DEF Acquire, SignBegin, EnterSign, SignRefuse, ArbitrateBegin, requestVars
  <2>4. ASSUME NEW p \in Procs, Proceed(p)
        PROVE  request'[q] = request[q] /\ status'[q] # "none"
    BY <1>1, <2>4 DEF Proceed, TakeStock, Complete, ArbitrateSign, ArbitrateSkip,
       ArbitrateReject, Turn, ArbitrateSaveBack, ArbitrateEnd, RejectManager, RejectStatus,
       requestVars
  <2> QED
    BY <2>1, <2>2, <2>3, <2>4 DEF Next
<1>3. \A m : LinesFor(q, m)' = LinesFor(q, m)
  BY <1>2 DEF LinesFor, Items
<1>4. \A m : Demand(q, m)' = Demand(q, m)
  BY <1>2, <1>3 DEF Demand, DemandUnits, Items
<1> QED
  BY <1>2, <1>3, <1>4 DEF Wanted

\* Every line of a request that a call is about to take for finds enough, of the
\* structs the call looked up.
StockInv ==
  /\ OverdraftIsOneRequest
  /\ \A p \in Procs, q \in RequestIds : pc[p] = "signing" /\ arg[p] = q =>
       \A m \in MaterialIds : \A i \in LinesFor(q, m) : stock[mats[p][m]] >= Items(q)[i].quantity

\* A request keeps what it overdrew as long as the stock stays.
LEMMA OverdrawnKept ==
  ASSUME TypeOK, OpenInv, [Next]_vars, NEW o \in Objects, NEW q \in RequestIds,
         OverdrawnBy(o, q), managerSigned'[q], stock'[o] = stock[o], id'[o] = id[o]
  PROVE  OverdrawnBy(o, q)'
<1>1. status[q] # "none"
  BY DEF OverdrawnBy, OpenInv
<1>2. PICK m : m = id[o]
  OBVIOUS
<1>3. /\ LinesFor(q, m)' = LinesFor(q, m) /\ Demand(q, m)' = Demand(q, m)
      /\ Items(q)' = Items(q)
  BY <1>1, RequestsKept DEF Items
<1>4. /\ LinesFor(q, m) # {}
      /\ \A i \in LinesFor(q, m) : stock[o] + Demand(q, m) >= Items(q)[i].quantity
  BY <1>2 DEF OverdrawnBy
<1> QED
  BY <1>2, <1>3, <1>4 DEF OverdrawnBy

\* A step that leaves the registered stock and the signatures alone.
LEMMA StockFrame ==
  ASSUME TypeOK, OpenInv, StockInv, [Next]_vars,
         \A q \in RequestIds : managerSigned[q] => managerSigned'[q],
         \A o \in Objects : stock'[o] < 0 =>
           stock[o] < 0 /\ stock'[o] = stock[o] /\ id'[o] = id[o]
  PROVE  OverdraftIsOneRequest'
<1> SUFFICES ASSUME NEW o \in Objects, stock'[o] < 0
             PROVE  \E q \in RequestIds : OverdrawnBy(o, q)'
  BY DEF OverdraftIsOneRequest
<1>1. PICK q \in RequestIds : OverdrawnBy(o, q)
  BY DEF StockInv, OverdraftIsOneRequest
<1>2. managerSigned'[q]
  BY <1>1 DEF OverdrawnBy
<1> QED
  BY <1>1, <1>2, OverdrawnKept

LEMMA StockNext ==
  ASSUME TypeOK, Mutex, OpenInv, StockInv, [Next]_vars
  PROVE  StockInv'
<1> DEFINE Enough(p, q) ==
      \A m \in MaterialIds : \A i \in LinesFor(q, m) :
        stock[mats[p][m]] >= Items(q)[i].quantity
<1>1. VarsTyped /\ \A p \in Procs : CallTyped(p)
  BY DEF TypeOK
<1>2. ASSUME NEW p \in Procs, NEW q \in RequestIds, pc[p] = "signing", arg[p] = q
      PROVE  /\ status[q] # "none" /\ Enough(p, q)
             /\ \A m \in Wanted(q) : /\ m \in MaterialIds /\ mats[p][m] \in Objects
                                    /\ id[mats[p][m]] = m /\ id[mats[p][m]] # None
  <2>1. \A m \in Wanted(q) : m \in MaterialIds /\ m # None
    BY MaterialAssumption DEF Wanted
  <2> QED
    BY <1>1, <1>2, <2>1 DEF VarsTyped, CallTyped, StockInv
<1>3. ASSUME UNCHANGED managerSigned,
             \A o \in Objects : stock'[o] < 0 =>
               stock[o] < 0 /\ stock'[o] = stock[o] /\ id'[o] = id[o],
             \A o \in Objects : id[o] # None => stock'[o] = stock[o],
             \A p \in Procs : pc'[p] = "signing" =>
               pc[p] = "signing" /\ arg'[p] = arg[p] /\ mats'[p] = mats[p]
      PROVE  StockInv'
  <2>1. ASSUME NEW p \in Procs, NEW q \in RequestIds, pc'[p] = "signing", arg'[p] = q,
               NEW m \in MaterialIds, NEW i \in LinesFor(q, m)'
        PROVE  stock'[mats'[p][m]] >= Items(q)'[i].quantity
    <3>1. pc[p] = "signing" /\ arg[p] = q /\ mats'[p] = mats[p]
      BY <1>3, <2>1
    <3>2. LinesFor(q, m)' = LinesFor(q, m) /\ Items(q)' = Items(q)
      BY <1>2, <3>1, RequestsKept DEF Items
    <3>3. m \in Wanted(q)
      BY <2>1, <3>2 DEF Wanted
    <3>4. stock'[mats[p][m]] = stock[mats[p][m]]
      BY <1>2, <1>3, <3>1, <3>3
    <3> QED
      BY <1>2, <2>1, <3>1, <3>2, <3>4
  <2> QED
    BY <1>3, <2>1, StockFrame DEF StockInv
<1>4. ASSUME NEW p \in Procs, NEW q \in RequestIds, status[q] # "none",
             StockOK(q, materials), UNCHANGED <<stock, id, managerSigned>>,
             Critical \subseteq {p}, pc[p] # "signing",
             pc' = [pc EXCEPT ![p] = "signing"], arg'[p] = q,
             mats' = [mats EXCEPT ![p] = Lookup(q)]
      PROVE  StockInv'
  <2>1. ASSUME NEW r \in Procs, NEW b \in RequestIds, pc'[r] = "signing", arg'[r] = b,
               NEW m \in MaterialIds, NEW i \in LinesFor(b, m)'
        PROVE  stock'[mats'[r][m]] >= Items(b)'[i].quantity
    <3>1. r = p /\ b = q
      BY <1>1, <1>4, <2>1 DEF VarsTyped, Critical
    <3>2. LinesFor(q, m)' = LinesFor(q, m) /\ Items(q)' = Items(q)
      BY <1>4, RequestsKept DEF Items
    <3>3. mats'[p][m] = materials[m]
      BY <1>1, <1>4, <2>1, <3>1, <3>2 DEF VarsTyped, Lookup, Wanted
    <3> QED
      BY <1>4, <2>1, <3>1, <3>2, <3>3 DEF StockOK
  <2> QED
    BY <1>4, <2>1, StockFrame DEF StockInv
<1>5. CASE Clients \/ UNCHANGED vars
  <2>1. ASSUME NEW o \in Objects
        PROVE  /\ id[o] # None => stock'[o] = stock[o]
               /\ stock'[o] < 0 => stock[o] < 0 /\ stock'[o] = stock[o] /\ id'[o] = id[o]
    <3>1. ASSUME NEW x \in Objects, NEW m \in MaterialIds, NEW n \in -1..MaxStock,
                 CreateMaterial(x, m, n)
          PROVE  /\ id[o] # None => stock'[o] = stock[o]
                 /\ stock'[o] < 0 => stock[o] < 0 /\ stock'[o] = stock[o] /\ id'[o] = id[o]
      <4>1. n \in Int /\ n >= 0
        BY <3>1, MaterialAssumption DEF CreateMaterial
      <4> QED
        BY <1>1, <3>1, <4>1 DEF VarsTyped, CreateMaterial
    <3>2. CASE ~\E x \in Objects, m \in MaterialIds, n \in -1..MaxStock :
                 CreateMaterial(x, m, n)
      <4>1. UNCHANGED <<stock, id>>
        BY <1>5, <3>2 DEF Clients, RegisterManager, CreateRequest, CallManagerSign,
           CallArbitrate, Call, RejectRequest, stockVars, vars
      <4> QED
        BY <4>1
    <3> QED
      BY <3>1, <3>2
  <2>2. UNCHANGED managerSigned
    BY <1>5 DEF Clients, RegisterManager, CreateMaterial, CreateRequest, CallManagerSign,
       CallArbitrate, Call, RejectRequest, requestVars, vars
  <2>3. ASSUME NEW r \in Procs, pc'[r] = "signing"
        PROVE  pc[r] = "signing" /\ arg'[r] = arg[r] /\ mats'[r] = mats[r]
    BY <1>1, <1>5, <2>3 DEF VarsTyped, Clients, RegisterManager, CreateMaterial,
       CreateRequest, CallManagerSign, CallArbitrate, Call, RejectRequest, callVars, vars
  <2> QED
    BY <1>3, <2>1, <2>2, <2>3
<1>6. ASSUME NEW p \in Procs, TakeStock(p)
      PROVE  StockInv'
  <2>1. PICK q \in RequestIds : q = arg[p] /\ pc[p] = "signing"
    BY <1>1, <1>6 DEF CallTyped, TakeStock
  <2>2. \A r \in Procs : pc'[r] # "signing"
    BY <1>1, <1>6, <2>1 DEF VarsTyped, TakeStock, Mutex, Critical
  <2>3. /\ id' = id /\ managerSigned'[q]
        /\ \A b \in RequestIds : managerSigned[b] => managerSigned'[b]
    BY <1>1, <1>6, <2>1 DEF VarsTyped, TakeStock
  <2>4. ASSUME NEW o \in Objects, stock'[o] < 0
        PROVE  \E b \in RequestIds : OverdrawnBy(o, b)'
    <3>1. CASE \E m \in Wanted(q) : mats[p][m] = o
      <4>1. PICK m \in Wanted(q) : mats[p][m] = o
        BY <3>1
      <4>2. m \in MaterialIds /\ id[o] = m /\ Enough(p, q) /\ status[q] # "none"
        BY <1>2, <2>1, <4>1
      <4>3. stock'[o] = stock[o] - Demand(q, m)
        BY <1>6, <2>1, <3>1, <4>2 DEF TakeStock
      <4>4. stock[o] \in Int /\ Demand(q, m) \in Int
        BY <1>1, DemandIsNat DEF VarsTyped
      <4>5. stock'[o] + Demand(q, m) = stock[o]
        BY <4>3, <4>4
      <4>6. /\ LinesFor(q, m)' = LinesFor(q, m) /\ Demand(q, m)' = Demand(q, m)
            /\ Items(q)' = Items(q)
        BY <4>2, RequestsKept DEF Items
      <4>7. LinesFor(q, m) # {} /\ \A i \in LinesFor(q, m) : stock[o] >= Items(q)[i].quantity
        BY <4>1, <4>2 DEF Wanted
      <4>8. OverdrawnBy(o, q)'
        BY <2>3, <4>2, <4>5, <4>6, <4>7 DEF OverdrawnBy
      <4> QED
        BY <4>8
    <3>2. CASE ~\E m \in Wanted(q) : mats[p][m] = o
      <4>1. stock'[o] = stock[o]
        BY <1>6, <2>1, <3>2 DEF TakeStock
      <4>2. PICK b \in RequestIds : OverdrawnBy(o, b)
        BY <2>4, <4>1 DEF StockInv, OverdraftIsOneRequest
      <4>3. managerSigned'[b]
        BY <2>3, <4>2 DEF OverdrawnBy
      <4>4. OverdrawnBy(o, b)'
        BY <2>3, <4>1, <4>2, <4>3, OverdrawnKept
      <4> QED
        BY <4>4
    <3> QED
      BY <3>1, <3>2
  <2>5. OverdraftIsOneRequest'
    BY <2>4 DEF OverdraftIsOneRequest
  <2> QED
    BY <2>2, <2>5 DEF StockInv
<1>7. ASSUME NEW p \in Procs, SignBegin(p)
      PROVE  StockInv'
  <2>1. arg[p] \in RequestIds /\ status[arg[p]] # "none" /\ Critical \subseteq {p}
    BY <1>1, <1>7 DEF VarsTyped, CallTyped, SignBegin, Signable, Mutex
  <2> QED
    BY <1>4, <1>7, <2>1 DEF SignBegin, Signable, EnterSign, stockVars, requestVars
<1>8. ASSUME NEW p \in Procs, NEW q \in RequestIds, ArbitrateSign(p, q)
      PROVE  StockInv'
  <2>1. status[q] # "none" /\ Critical \subseteq {p} /\ arg'[p] = q
    BY <1>1, <1>8 DEF VarsTyped, ArbitrateSign, Turn, Mutex, Critical
  <2> QED
    BY <1>4, <1>8, <2>1 DEF ArbitrateSign, Turn, stockVars
<1>9. ASSUME NEW p \in Procs,
             \/ SignRefuse(p) \/ ArbitrateBegin(p) \/ Complete(p) \/ ArbitrateSaveBack(p)
             \/ ArbitrateEnd(p) \/ RejectManager(p) \/ RejectStatus(p)
             \/ \E q \in RequestIds : ArbitrateSkip(p, q) \/ ArbitrateReject(p, q)
      PROVE  StockInv'
  <2>1. UNCHANGED <<stock, id, managerSigned>>
    BY <1>9 DEF SignRefuse, ArbitrateBegin, Complete, ArbitrateSaveBack, ArbitrateEnd,
       RejectManager, RejectStatus, ArbitrateSkip, ArbitrateReject, Turn, stockVars, requestVars
  <2>2. ASSUME NEW r \in Procs, pc'[r] = "signing"
        PROVE  pc[r] = "signing" /\ arg'[r] = arg[r] /\ mats'[r] = mats[r]
    BY <1>1, <1>9, <2>2 DEF VarsTyped, SignRefuse, ArbitrateBegin, Complete,
       ArbitrateSaveBack, ArbitrateEnd, RejectManager, RejectStatus, ArbitrateSkip,
       ArbitrateReject, Turn, Return
  <2> QED
    BY <1>3, <2>1, <2>2
<1> QED
  BY <1>5, <1>6, <1>7, <1>8, <1>9 DEF Next, Acquire, Proceed

LEMMA StockAlways == Spec => []StockInv
<1>1. Init => StockInv /\ OpenInv
  BY DEF Init, StockInv, OverdraftIsOneRequest, OpenInv
<1>2. TypeOK /\ Mutex /\ OpenInv /\ StockInv /\ [Next]_vars => StockInv'
  BY StockNext
<1> QED
  BY <1>1, <1>2, OpenNext, TypeCorrect, MutualExclusion, PTL DEF Spec

\* For any posted lists, registrations and interleaving, stock goes below zero only in
\* one request that names the material in several lines: the check and the decrement
\* of every signature and every arbitration see the same struct and the same stock,
\* however registrations replace the material in between.
THEOREM OverdraftOnlyWithinRequest == Spec => []OverdraftIsOneRequest
<1>1. StockInv => OverdraftIsOneRequest
  BY DEF StockInv
<1> QED
  BY <1>1, StockAlways, PTL

-----------------------------------------------------------------------------
(* Arbitration order.                                                      *)

\* A struct keeps its ID and its stock only shrinks; an ID that leads to a struct
\* always will.
LEMMA StoreNext ==
  ASSUME TypeOK, [Next]_vars
  PROVE  /\ \A o \in Objects : id[o] # None => id'[o] = id[o] /\ stock'[o] <= stock[o]
         /\ \A m \in MaterialIds : materials[m] # None => materials'[m] # None
<1> DEFINE Kept == /\ \A o \in Objects : id[o] # None => id'[o] = id[o] /\ stock'[o] <= stock[o]
                   /\ \A m \in MaterialIds : materials[m] # None => materials'[m] # None
<1> SUFFICES Kept
  OBVIOUS
<1>1. VarsTyped /\ \A p \in Procs : CallTyped(p)
  BY DEF TypeOK
<1>2. ASSUME UNCHANGED <<materials, id, stock>>
      PROVE  Kept
  BY <1>1, <1>2 DEF VarsTyped
<1>3. ASSUME NEW o \in Objects, NEW m \in MaterialIds, NEW s \in -1..MaxStock,
             CreateMaterial(o, m, s)
      PROVE  Kept
  <2>1. o # None
    BY MaterialAssumption
  <2>2. /\ materials' = [materials EXCEPT ![m] = o] /\ id[o] = None
        /\ id' = [id EXCEPT ![o] = m] /\ stock' = [stock EXCEPT ![o] = s]
    BY <1>3 DEF CreateMaterial
  <2> QED
    BY <1>1, <2>1, <2>2 DEF VarsTyped
<1>4. ASSUME NEW p \in Procs, TakeStock(p)
      PROVE  Kept
  <2>1. \A o \in Objects : stock'[o] <= stock[o]
    BY <1>1, <1>4, DemandIsNat DEF TakeStock, VarsTyped
  <2> QED
    BY <1>1, <1>4, <2>1 DEF TakeStock
<1>5. ASSUME NEW p \in Procs, Complete(p)
      PROVE  Kept
  BY <1>1, <1>5 DEF VarsTyped, Complete, SaveMaterials
<1>10. ASSUME NEW p \in Procs, ArbitrateSaveBack(p)
       PROVE  Kept
  BY <1>1, <1>10 DEF VarsTyped, ArbitrateSaveBack, SaveMaterials
<1>6. CASE Clients
  <2>1. CASE \E o \in Objects, m \in MaterialIds, s \in -1..MaxStock :
               CreateMaterial(o, m, s)
    BY <1>3, <2>1
  <2>2. CASE ~\E o \in Objects, m \in MaterialIds, s \in -1..MaxStock :
               CreateMaterial(o, m, s)
    BY <1>2, <1>6, <2>2 DEF Clients, RegisterManager, CreateRequest, CallManagerSign,
       CallArbitrate, Call, RejectRequest, stockVars
  <2> QED
    BY <2>1, <2>2
<1>7. ASSUME NEW p \in Procs, Acquire(p)
      PROVE  Kept
  BY <1>2, <1>7 DEF Acquire, SignBegin, EnterSign, SignRefuse, ArbitrateBegin, stockVars
<1>8. ASSUME NEW p \in Procs,
             \/ ArbitrateEnd(p) \/ RejectManager(p) \/ RejectStatus(p)
             \/ \E q \in RequestIds :
                  ArbitrateSign(p, q) \/ ArbitrateSkip(p, q) \/ ArbitrateReject(p, q)
      PROVE  Kept
  BY <1>2, <1>8 DEF ArbitrateEnd, RejectManager, RejectStatus, ArbitrateSign,
     ArbitrateSkip, ArbitrateReject, Turn, stockVars
<1>9. CASE UNCHANGED vars
  BY <1>2, <1>9 DEF vars
<1> QED
  BY <1>4, <1>5, <1>6, <1>7, <1>8, <1>9, <1>10 DEF Next, Proceed

\* A material that is registered once by now was before, leads to the same struct,
\* and no stock was added to it.
LEMMA OnceKept ==
  ASSUME TypeOK, [Next]_vars, NEW m \in MaterialIds, materials[m] # None, RegisteredOnce(m)'
  PROVE  /\ RegisteredOnce(m) /\ materials'[m] = materials[m]
         /\ stock'[materials[m]] <= stock[materials[m]]
<1>1. m # None /\ materials[m] \in Objects /\ id[materials[m]] = m
  BY MaterialAssumption DEF TypeOK, VarsTyped
<1>2. TypeOK' /\ materials'[m] # None
  BY TypeNext, StoreNext
<1>3. materials'[m] \in Objects /\ id'[materials'[m]] = m
  BY <1>2 DEF TypeOK, VarsTyped
<1>4. \A o \in Objects : id[o] = m => id'[o] = m
  BY <1>1, StoreNext
<1>5. materials'[m] = materials[m]
  BY <1>1, <1>3, <1>4 DEF RegisteredOnce
<1>6. RegisteredOnce(m)
  BY <1>4 DEF RegisteredOnce
<1> QED
  BY <1>1, <1>5, <1>6, StoreNext

\* What a call has completed, or is about to.
Done(p) == completed[p] \cup (IF pc[p] \in {"signing", "completing"} THEN {arg[p]} ELSE {})

Short(a, b) ==
  \E i \in DOMAIN Items(a) : \A j \in DOMAIN Items(b) :
    Items(b)[j].material = Items(a)[i].material => Items(b)[j].quantity < Items(a)[i].quantity

AllOnce(a) == \A i \in DOMAIN Items(a) : RegisteredOnce(Items(a)[i].material)

\* Some line of a asks for more than there is, unless its material was registered
\* again.
Lacks(a) ==
  \E i \in DOMAIN Items(a) :
    RegisteredOnce(Items(a)[i].material) =>
      stock[materials[Items(a)[i].material]] < Items(a)[i].quantity

\* What an arbitration still has to decide outranks nothing it completed; what it
\* rejected still lacks stock, and asked for more than what it outranks got.
OrderOf(p) ==
  /\ p \notin Critical =>
       todo[p] = {} /\ completed[p] = {} /\ rejected[p] = {}
  /\ \A q \in Done(p) \cup rejected[p] : status[q] # "none"
  /\ \A a \in rejected[p] : Lacks(a)
  /\ \A b \in Done(p) :
       /\ \A a \in todo[p] : ~Outranks(a, b)
       /\ \A a \in rejected[p] : Outranks(a, b) /\ AllOnce(a) => Short(a, b)

OrderInv == \A p \in Procs : OrderOf(p)

\* The parts of a call.
LEMMA CallSets ==
  ASSUME TypeOK, NEW p \in Procs
  PROVE  /\ Done(p) \subseteq RequestIds /\ rejected[p] \subseteq RequestIds
         /\ todo[p] \subseteq RequestIds /\ \A q \in todo[p] : status[q] # "none"
BY DEF TypeOK, VarsTyped, CallTyped, Done

\* A line of a stored request is a line.
LEMMA LineOfStored ==
  ASSUME TypeOK, NEW a \in RequestIds, status[a] # "none", NEW i \in DOMAIN Items(a)
  PROVE  /\ Items(a)[i].material \in MaterialIds /\ Items(a)[i].quantity \in Int
         /\ materials[Items(a)[i].material] \in Objects
         /\ materials[Items(a)[i].material] # None
         /\ stock[materials[Items(a)[i].material]] \in Int
<1>1. request[a] \in Requests /\ materials[Items(a)[i].material] # None
  BY DEF TypeOK, RequestTyped
<1>2. Items(a) \in Seq(Lines)
  BY <1>1, MaterialAssumption DEF Items, Requests
<1>3. Items(a)[i] \in Lines
  BY <1>2
<1>4. Items(a)[i].material \in MaterialIds /\ Items(a)[i].quantity \in Int
  BY <1>3, MaterialAssumption DEF Lines
<1> QED
  BY <1>1, <1>4 DEF TypeOK, VarsTyped

\* What two stored requests are to each other never changes, and materials that are
\* registered once were so before.
LEMMA OrderKept ==
  ASSUME TypeOK, [Next]_vars, NEW a \in RequestIds, NEW b \in RequestIds,
         status[a] # "none", status[b] # "none"
  PROVE  /\ Outranks(a, b)' <=> Outranks(a, b)
         /\ Short(a, b)' <=> Short(a, b)
         /\ AllOnce(a)' => AllOnce(a)
<1>1. request'[a] = request[a] /\ request'[b] = request[b]
  BY RequestsKept
<1>2. ASSUME AllOnce(a)', NEW i \in DOMAIN Items(a)
      PROVE  RegisteredOnce(Items(a)[i].material)
  <2>1. PICK m \in MaterialIds : m = Items(a)[i].material /\ materials[m] # None
    BY LineOfStored
  <2>2. Items(a)' = Items(a)
    BY <1>1 DEF Items
  <2>3. RegisteredOnce(m)'
    BY <1>2, <2>1, <2>2 DEF AllOnce, RegisteredOnce
  <2> QED
    BY <2>1, <2>3, OnceKept
<1> QED
  BY <1>1, <1>2 DEF Outranks, Short, Items, AllOnce

\* What a stored request lacks, it goes on lacking.
LEMMA LacksKept ==
  ASSUME TypeOK, [Next]_vars, NEW a \in RequestIds, status[a] # "none", Lacks(a)
  PROVE  Lacks(a)'
<1>1. PICK i \in DOMAIN Items(a) :
        RegisteredOnce(Items(a)[i].material) =>
          stock[materials[Items(a)[i].material]] < Items(a)[i].quantity
  BY DEF Lacks
<1>2. Items(a)' = Items(a) /\ status'[a] # "none"
  BY RequestsKept DEF Items
<1>3. PICK m \in MaterialIds, n \in Int :
        /\ m = Items(a)[i].material /\ n = Items(a)[i].quantity
        /\ materials[m] # None /\ stock[materials[m]] \in Int
  BY LineOfStored
<1>4. ASSUME RegisteredOnce(m)'
      PROVE  stock'[materials'[m]] < n
  <2>1. /\ RegisteredOnce(m) /\ materials'[m] = materials[m]
        /\ stock'[materials[m]] <= stock[materials[m]]
    BY <1>3, <1>4, OnceKept
  <2>2. TypeOK' /\ materials[m] \in Objects
    BY <1>3, TypeNext DEF TypeOK, VarsTyped
  <2>3. stock'[materials'[m]] \in Int
    BY <2>1, <2>2 DEF TypeOK, VarsTyped
  <2> QED
    BY <1>1, <1>3, <2>1, <2>3
<1> QED
  BY <1>2, <1>3, <1>4 DEF Lacks, RegisteredOnce

\* What has enough asks for less than what lacks, wherever both ask.
LEMMA LacksIsShort ==
  ASSUME TypeOK, NEW a \in RequestIds, NEW b \in RequestIds,
         status[a] # "none", status[b] # "none",
         Lacks(a), AllOnce(a), StockOK(b, materials)
  PROVE  Short(a, b)
<1>1. PICK i \in DOMAIN Items(a) :
        stock[materials[Items(a)[i].material]] < Items(a)[i].quantity
  BY DEF Lacks, AllOnce
<1>2. ASSUME NEW j \in DOMAIN Items(b), Items(b)[j].material = Items(a)[i].material
      PROVE  Items(b)[j].quantity < Items(a)[i].quantity
  <2> DEFINE m == Items(a)[i].material
  <2>1. /\ m \in MaterialIds /\ stock[materials[m]] \in Int
        /\ Items(a)[i].quantity \in Int /\ Items(b)[j].quantity \in Int
    BY LineOfStored
  <2>2. stock[materials[m]] >= Items(b)[j].quantity
    BY <1>2, <2>1 DEF StockOK, LinesFor
  <2> QED
    BY <1>1, <1>2, <2>1, <2>2
<1> QED
  BY <1>2 DEF Short

LEMMA OrderFrame ==
  ASSUME TypeOK, OrderInv, [Next]_vars, NEW p \in Procs,
         todo'[p] \subseteq todo[p], rejected'[p] = rejected[p], Done(p)' \subseteq Done(p),
         p \notin Critical' =>
           todo'[p] = {} /\ completed'[p] = {} /\ rejected'[p] = {}
  PROVE  OrderOf(p)'
<1>1. OrderOf(p)
  BY DEF OrderInv
<1>2. \A q \in Done(p) \cup rejected[p] \cup todo[p] : q \in RequestIds /\ status[q] # "none"
  BY <1>1, CallSets DEF OrderOf
<1>3. \A q \in Done(p)' \cup rejected'[p] : status'[q] # "none"
  BY <1>2, RequestsKept
<1>4. \A a \in rejected'[p] : Lacks(a)'
  BY <1>1, <1>2, LacksKept DEF OrderOf
<1>5. ASSUME NEW b \in Done(p)'
      PROVE  /\ \A a \in todo'[p] : ~Outranks(a, b)'
             /\ \A a \in rejected'[p] : Outranks(a, b)' /\ AllOnce(a)' => Short(a, b)'
  BY <1>1, <1>2, OrderKept DEF OrderOf
<1> QED
  BY <1>3, <1>4, <1>5 DEF OrderOf

LEMMA OrderNext ==
  ASSUME TypeOK, OrderInv, [Next]_vars
  PROVE  OrderInv'
<1> DEFINE Same(r) == /\ pc'[r] = pc[r] /\ arg'[r] = arg[r] /\ todo'[r] = todo[r]
                      /\ completed'[r] = completed[r] /\ rejected'[r] = rejected[r]
<1>1. VarsTyped /\ \A p \in Procs : OrderOf(p) /\ CallTyped(p)
  BY DEF TypeOK, OrderInv
<1>3. ASSUME NEW r \in Procs, Same(r) PROVE OrderOf(r)'
  <2>1. Done(r)' = Done(r)
    BY <1>3 DEF Done
  <2> QED
    BY <1>1, <1>3, <2>1, OrderFrame DEF OrderOf, Critical
<1>4. ASSUME NEW r \in Procs,
             todo'[r] = {}, completed'[r] = {}, rejected'[r] = {},
             pc'[r] \notin {"signing", "completing"}
      PROVE  OrderOf(r)'
  BY <1>4 DEF OrderOf, Done
<1>5. ASSUME NEW r \in Procs,
             pc[r] \notin {"signing", "completing", "arbitrating", "turnedDown"},
             pc'[r] \notin {"signing", "completing"},
             todo'[r] = todo[r], completed'[r] = completed[r], rejected'[r] = rejected[r]
      PROVE  OrderOf(r)'
  BY <1>1, <1>4, <1>5 DEF OrderOf, Critical
<1>6. CASE Clients \/ UNCHANGED vars
  <2>1. ASSUME NEW r \in Procs PROVE OrderOf(r)'
    <3>1. CASE Same(r)
      BY <1>3, <3>1
    <3>2. CASE ~Same(r)
      <4>1. /\ pc[r] \notin {"signing", "completing", "arbitrating", "turnedDown"}
            /\ pc'[r] \notin {"signing", "completing"}
            /\ todo'[r] = todo[r] /\ completed'[r] = completed[r]
            /\ rejected'[r] = rejected[r]
        BY <1>1, <1>6, <3>2 DEF VarsTyped, Clients, RegisterManager, CreateMaterial,
           CreateRequest, CallManagerSign, CallArbitrate, Call, RejectRequest, callVars, vars
      <4> QED
        BY <1>5, <4>1
    <3> QED
      BY <3>1, <3>2
  <2> QED
    BY <2>1 DEF OrderInv
<1>7. ASSUME NEW p \in Procs, Acquire(p) \/ Proceed(p) PROVE OrderInv'
  <2>1. ASSUME NEW r \in Procs, r # p PROVE Same(r)
    BY <1>1, <1>7, <2>1 DEF VarsTyped, Acquire, SignBegin, EnterSign, SignRefuse, Return,
       ArbitrateBegin, Proceed, TakeStock, Complete, ArbitrateSign, ArbitrateSkip,
       ArbitrateReject, Turn, ArbitrateSaveBack, ArbitrateEnd, RejectManager, RejectStatus
  <2>2. ASSUME OrderOf(p)' PROVE OrderInv'
    <3>1. ASSUME NEW r \in Procs PROVE OrderOf(r)'
      <4>1. CASE r = p
        BY <2>2, <4>1
      <4>2. CASE r # p
        BY <1>3, <2>1, <4>2
      <4> QED
        BY <4>1, <4>2
    <3> QED
      BY <3>1 DEF OrderInv
  <2>3. OrderOf(p) /\ CallTyped(p)
    BY <1>1
  <2>4. CASE SignBegin(p)
    <3>1. /\ todo'[p] = {} /\ rejected'[p] = {} /\ completed'[p] = {}
          /\ pc'[p] = "signing" /\ arg'[p] = arg[p]
      BY <1>1, <2>3, <2>4 DEF VarsTyped, OrderOf, Critical, SignBegin, EnterSign
    <3>2. Done(p)' = {arg[p]}
      BY <3>1 DEF Done
    <3>3. status'[arg[p]] # "none"
      BY <2>4 DEF SignBegin, EnterSign, Signable, requestVars
    <3> QED
      BY <2>2, <3>1, <3>2, <3>3 DEF OrderOf, Critical
  <2>5. CASE ArbitrateBegin(p)
    <3>1. /\ rejected'[p] = {} /\ completed'[p] = {} /\ pc'[p] = "arbitrating"
      BY <1>1, <2>3, <2>5 DEF VarsTyped, OrderOf, Critical, ArbitrateBegin
    <3>2. Done(p)' = {}
      BY <3>1 DEF Done
    <3> QED
      BY <2>2, <3>1, <3>2 DEF OrderOf, Critical
  <2>6. CASE SignRefuse(p) \/ ArbitrateEnd(p) \/ RejectStatus(p)
    <3>1. /\ todo'[p] = {} /\ completed'[p] = {} /\ rejected'[p] = {} /\ pc'[p] = "idle"
      BY <1>1, <2>6 DEF VarsTyped, SignRefuse, ArbitrateEnd, RejectStatus, Return
    <3> QED
      BY <1>4, <2>2, <3>1
  <2>7. CASE RejectManager(p)
    BY <1>1, <1>5, <2>2, <2>7 DEF VarsTyped, RejectManager
  <2>8. CASE TakeStock(p)
    <3>1. /\ todo'[p] = todo[p] /\ completed'[p] = completed[p] /\ rejected'[p] = rejected[p]
          /\ arg'[p] = arg[p] /\ pc'[p] = "completing" /\ pc[p] = "signing"
      BY <1>1, <2>8 DEF VarsTyped, TakeStock
    <3>2. Done(p)' = Done(p)
      BY <3>1 DEF Done
    <3> QED
      BY <2>2, <3>1, <3>2, OrderFrame DEF Critical
  <2>9. CASE Complete(p)
    <3>1. CASE op[p] = "sign"
      BY <1>1, <1>4, <2>2, <2>9, <3>1 DEF VarsTyped, Complete, Return
    <3>2. CASE op[p] = "arbitrate"
      <4>1. /\ todo'[p] = todo[p] /\ completed'[p] = completed[p] \cup {arg[p]}
            /\ rejected'[p] = rejected[p] /\ pc'[p] = "arbitrating" /\ pc[p] = "completing"
        BY <1>1, <2>9, <3>2 DEF VarsTyped, Complete
      <4>2. Done(p)' = Done(p)
        BY <4>1 DEF Done
      <4> QED
        BY <2>2, <4>1, <4>2, OrderFrame DEF Critical
    <3> QED
      BY <2>9, <3>1, <3>2 DEF Complete
  <2>10. ASSUME NEW q \in RequestIds, ArbitrateSkip(p, q) PROVE OrderInv'
    <3>1. /\ todo'[p] \subseteq todo[p] /\ completed'[p] = completed[p]
          /\ rejected'[p] = rejected[p] /\ pc'[p] = "arbitrating" /\ pc[p] = "arbitrating"
      BY <1>1, <2>10 DEF VarsTyped, ArbitrateSkip, Turn
    <3>2. Done(p)' = Done(p)
      BY <3>1 DEF Done
    <3> QED
      BY <2>2, <3>1, <3>2, OrderFrame DEF Critical
  <2>11. ASSUME NEW q \in RequestIds, ArbitrateSign(p, q) PROVE OrderInv'
    <3>1. /\ todo'[p] = todo[p] \ {q} /\ completed'[p] = completed[p]
          /\ rejected'[p] = rejected[p] /\ arg'[p] = q
          /\ pc'[p] = "signing" /\ pc[p] = "arbitrating"
      BY <1>1, <2>11 DEF VarsTyped, ArbitrateSign, Turn
    <3>2. Done(p)' = Done(p) \cup {q}
      BY <3>1 DEF Done
    <3>3. \A b \in Done(p) \cup {q} \cup rejected[p] \cup todo[p] :
            b \in RequestIds /\ status[b] # "none"
      BY <2>3, <2>11, CallSets DEF OrderOf, ArbitrateSign
    <3>4. \A b \in Done(p)' \cup rejected'[p] : status'[b] # "none"
      BY <3>1, <3>2, <3>3, RequestsKept
    <3>5. \A a \in rejected'[p] : Lacks(a)'
      BY <1>1, <2>3, <3>1, <3>3, LacksKept DEF OrderOf
    <3>6. /\ \A a \in todo[p] \ {q} : ~Outranks(a, q)
          /\ \A a \in rejected[p] : AllOnce(a) => Short(a, q)
      BY <2>3, <2>11, <3>3, LacksIsShort DEF OrderOf, ArbitrateSign, Turn
    <3>7. ASSUME NEW b \in Done(p)'
          PROVE  /\ \A a \in todo'[p] : ~Outranks(a, b)'
                 /\ \A a \in rejected'[p] : Outranks(a, b)' /\ AllOnce(a)' => Short(a, b)'
      BY <2>3, <3>1, <3>2, <3>3, <3>6, OrderKept DEF OrderOf
    <3> QED
      BY <2>2, <3>1, <3>4, <3>5, <3>7 DEF OrderOf, Critical
  <2>12. ASSUME NEW q \in RequestIds, ArbitrateReject(p, q) PROVE OrderInv'
    <3>1. /\ todo'[p] = todo[p] \ {q} /\ completed'[p] = completed[p]
          /\ rejected'[p] = rejected[p] \cup {q} /\ q \in todo[p]
          /\ pc'[p] = "turnedDown" /\ pc[p] = "arbitrating"
      BY <1>1, <2>12 DEF VarsTyped, ArbitrateReject, Turn
    <3>2. Done(p)' = Done(p)
      BY <3>1 DEF Done
    <3>3. \A b \in Done(p) \cup rejected[p] \cup todo[p] :
            b \in RequestIds /\ status[b] # "none"
      BY <2>3, CallSets DEF OrderOf
    <3>4. \A b \in Done(p)' \cup rejected'[p] : status'[b] # "none"
      BY <3>1, <3>2, <3>3, RequestsKept
    <3>5. Lacks(q)
      <4>1. PICK m \in MaterialIds : \E i \in LinesFor(q, m) :
              ~(stock[materials[m]] >= Items(q)[i].quantity)
        BY <2>12 DEF ArbitrateReject, StockOK
      <4>2. PICK i \in LinesFor(q, m) : ~(stock[materials[m]] >= Items(q)[i].quantity)
        BY <4>1
      <4>3. i \in DOMAIN Items(q) /\ Items(q)[i].material = m
        BY DEF LinesFor
      <4>4. stock[materials[m]] \in Int /\ Items(q)[i].quantity \in Int
        BY <3>1, <3>3, <4>3, LineOfStored
      <4> QED
        BY <4>2, <4>3, <4>4 DEF Lacks
    <3>6. \A a \in rejected'[p] : Lacks(a)'
      BY <1>1, <2>3, <3>1, <3>3, <3>5, LacksKept DEF OrderOf
    <3>7. ASSUME NEW b \in Done(p)'
          PROVE  /\ \A a \in todo'[p] : ~Outranks(a, b)'
                 /\ \A a \in rejected'[p] : Outranks(a, b)' /\ AllOnce(a)' => Short(a, b)'
      BY <2>3, <3>1, <3>2, <3>3, OrderKept DEF OrderOf
    <3> QED
      BY <2>2, <3>1, <3>4, <3>6, <3>7 DEF OrderOf, Critical
  <2>13. CASE ArbitrateSaveBack(p)
    <3>1. /\ todo'[p] = todo[p] /\ completed'[p] = completed[p] /\ rejected'[p] = rejected[p]
          /\ pc'[p] = "arbitrating" /\ pc[p] = "turnedDown"
      BY <1>1, <2>13 DEF VarsTyped, ArbitrateSaveBack
    <3>2. Done(p)' = Done(p)
      BY <3>1 DEF Done
    <3> QED
      BY <2>2, <3>1, <3>2, OrderFrame DEF Critical
  <2> QED
    BY <1>7, <2>4, <2>5, <2>6, <2>7, <2>8, <2>9, <2>10, <2>11, <2>12, <2>13
       DEF Acquire, Proceed
<1> QED
  BY <1>6, <1>7 DEF Next

\* Arbitration decides by priority, then time, for any requests: when it rejected a
\* request that outranks one it completed, the first asked for more of some material
\* than any line of the second, however rejections and new requests interleave with
\* it, unless a material of the first was registered again.
THEOREM ArbitrationInOrder == Spec => []ArbitrationOrder
<1>1. Init => OrderInv
  BY DEF Init, OrderInv, OrderOf, Done, Critical
<1>2. OrderInv => ArbitrationOrder
  BY DEF OrderInv, OrderOf, Done, ArbitrationOrder, Outranks, Short, AllOnce
<1>3. TypeOK /\ OrderInv /\ [Next]_vars => OrderInv'
  BY OrderNext
<1> QED
  BY <1>1, <1>2, <1>3, TypeCorrect, PTL DEF Spec

-----------------------------------------------------------------------------
(* Decisions.                                                              *)

LEMMA SettledNext ==
  ASSUME TypeOK, [Next]_vars, NEW q \in RequestIds, Settled(q)
  PROVE  Settled(q)' /\ UNCHANGED <<status[q], managerId[q], managerSigned[q]>>
<1> DEFINE Kept == UNCHANGED <<status[q], managerId[q], managerSigned[q]>>
           Working(p) == arg[p] = q /\ pc[p] \in {"signing", "completing", "rejecting", "rejected"}
<1>1. /\ status[q] \in {"completed", "rejected"} /\ \A p \in Procs : ~Working(p)
      /\ VarsTyped
  BY DEF Settled, WorkedOn, TypeOK
<1>2. ASSUME Kept, \A p \in Procs : ~Working(p)' PROVE Settled(q)' /\ Kept
  BY <1>1, <1>2 DEF Settled, WorkedOn
<1>3. CASE Clients \/ UNCHANGED vars
  <2>1. Kept
    BY <1>1, <1>3 DEF VarsTyped, Clients, RegisterManager, CreateMaterial, CreateRequest,
       CallManagerSign, CallArbitrate, Call, RejectRequest, requestVars, vars
  <2>2. ASSUME NEW r \in Procs PROVE ~Working(r)'
    BY <1>1, <1>3 DEF VarsTyped, Clients, RegisterManager, CreateMaterial, CreateRequest,
       CallManagerSign, CallArbitrate, Call, RejectRequest, callVars, vars
  <2> QED
    BY <1>2, <2>1, <2>2
<1>4. ASSUME NEW p \in Procs, Acquire(p) PROVE Settled(q)' /\ Kept
  <2>1. Kept
    BY <1>4 DEF Acquire, SignBegin, EnterSign, SignRefuse, ArbitrateBegin, requestVars
  <2>2. ASSUME NEW r \in Procs PROVE ~Working(r)'
    BY <1>1, <1>4 DEF VarsTyped, Acquire, SignBegin, Signable, EnterSign, SignRefuse,
       ArbitrateBegin, Return
  <2> QED
    BY <1>2, <2>1, <2>2
<1>5. ASSUME NEW p \in Procs,
             \/ TakeStock(p) \/ Complete(p) \/ ArbitrateSaveBack(p) \/ ArbitrateEnd(p)
             \/ RejectManager(p) \/ RejectStatus(p)
      PROVE  Settled(q)' /\ Kept
  <2>1. Kept
    BY <1>1, <1>5 DEF VarsTyped, TakeStock, Complete, ArbitrateSaveBack, ArbitrateEnd, RejectManager,
       RejectStatus, requestVars
  <2>2. ASSUME NEW r \in Procs PROVE ~Working(r)'
    BY <1>1, <1>5 DEF VarsTyped, TakeStock, Complete, ArbitrateSaveBack, ArbitrateEnd, RejectManager,
       RejectStatus, Return
  <2> QED
    BY <1>2, <2>1, <2>2
<1>6. ASSUME NEW p \in Procs, NEW b \in RequestIds,
             ArbitrateSign(p, b) \/ ArbitrateSkip(p, b) \/ ArbitrateReject(p, b)
      PROVE  Settled(q)' /\ Kept
  <2>1. Kept
    BY <1>1, <1>6 DEF VarsTyped, ArbitrateSign, ArbitrateSkip, ArbitrateReject, Turn
  <2>2. ASSUME NEW r \in Procs PROVE ~Working(r)'
    BY <1>1, <1>6 DEF VarsTyped, ArbitrateSign, ArbitrateSkip, ArbitrateReject, Turn
  <2> QED
    BY <1>2, <2>1, <2>2
<1> QED
  BY <1>3, <1>4, <1>5, <1>6 DEF Next, Proceed

\* A completed or rejected request that no earlier call is still working on keeps its
\* status, its manager and its signature for good, for any number of calls: an
\* arbitration that listed it before does not decide it again.
THEOREM DecisionsAreFinal == Spec => DecisionHolds
<1>1. TypeOK /\ [Next]_vars =>
        [\A q \in RequestIds : Settled(q) =>
           Settled(q)' /\ UNCHANGED <<status[q], managerId[q], managerSigned[q]>>]_vars
  BY SettledNext
<1> QED
  BY <1>1, TypeCorrect, PTL DEF Spec, DecisionHolds

-----------------------------------------------------------------------------
(* The stock account.                                                      *)

\* The request of a signature that has not taken its stock yet is unsigned, and a
\* signed one is stored.
AccountInv ==
  /\ StockAccounted
  /\ \A m \in MaterialIds : IsFiniteSet(UnitsGone(m))
  /\ \A p \in Procs : pc[p] = "signing" => ~managerSigned[arg[p]]
  /\ \A q \in RequestIds : managerSigned[q] => status[q] # "none"

LEMMA TakenIsFinite ==
  ASSUME NEW m
  PROVE  IsFiniteSet(UnitsTaken(m)) /\ Cardinality(UnitsTaken(m)) \in Nat
<1>1. IsFiniteSet(1..MaxLines) /\ IsFiniteSet(1..MaxQuantity)
  <2>1. 1 \in Int /\ MaxLines \in Int /\ MaxQuantity \in Int
    BY MaterialAssumption
  <2> QED
    BY <2>1, FS_Interval
<1>2. IsFiniteSet((1..MaxLines) \X (1..MaxQuantity))
  BY <1>1, FS_Product
<1>3. IsFiniteSet(RequestIds \X ((1..MaxLines) \X (1..MaxQuantity)))
  BY <1>2, FS_Product, MaterialAssumption
<1> QED
  BY <1>3, FS_Subset, FS_CardinalityType DEF UnitsTaken

\* A signature adds what its request takes.
LEMMA TakenGrows ==
  ASSUME NEW q \in RequestIds, NEW m, ~managerSigned[q],
         managerSigned \in [RequestIds -> BOOLEAN],
         managerSigned' = [managerSigned EXCEPT ![q] = TRUE], UNCHANGED request
  PROVE  Cardinality(UnitsTaken(m)') = Cardinality(UnitsTaken(m)) + Demand(q, m)
<1> DEFINE D == DemandUnits(q, m)
<1>1. IsFiniteSet(D) /\ Cardinality(D) \in Nat
  <2>1. 1 \in Int /\ MaxLines \in Int /\ MaxQuantity \in Int
    BY MaterialAssumption
  <2>2. IsFiniteSet(1..MaxLines) /\ IsFiniteSet(1..MaxQuantity)
    BY <2>1, FS_Interval
  <2>3. IsFiniteSet((1..MaxLines) \X (1..MaxQuantity))
    BY <2>2, FS_Product
  <2> QED
    BY <2>3, FS_Subset, FS_CardinalityType DEF DemandUnits
<1>2. IsFiniteSet({q} \X D) /\ Cardinality({q} \X D) = Cardinality(D)
  <2>1. IsFiniteSet({q}) /\ Cardinality({q}) = 1
    BY FS_Singleton
  <2>2. IsFiniteSet({q} \X D) /\ Cardinality({q} \X D) = Cardinality({q}) * Cardinality(D)
    <3> HIDE DEF D
    <3> QED
      BY <1>1, <2>1, FS_Product
  <2> QED
    BY <1>1, <2>1, <2>2
<1>3. UnitsTaken(m)' = UnitsTaken(m) \cup ({q} \X D)
  BY DEF UnitsTaken, DemandUnits, LinesFor, Items
<1>4. UnitsTaken(m) \cap ({q} \X D) = {}
  BY DEF UnitsTaken
<1>5. Cardinality(UnitsTaken(m) \cup ({q} \X D)) =
        Cardinality(UnitsTaken(m)) + Cardinality({q} \X D) - Cardinality({})
  <2> HIDE DEF D
  <2> QED
    BY <1>2, <1>4, TakenIsFinite, FS_Union
<1> QED
  BY <1>1, <1>2, <1>3, <1>5, TakenIsFinite, FS_EmptySet DEF Demand

\* Apart from signatures, nothing changes what was taken.
LEMMA TakenKept ==
  ASSUME TypeOK, AccountInv, [Next]_vars, UNCHANGED managerSigned, NEW m
  PROVE  UnitsTaken(m)' = UnitsTaken(m)
<1>1. ASSUME NEW q \in RequestIds, managerSigned[q]
      PROVE  DemandUnits(q, m)' = DemandUnits(q, m)
  <2>1. request'[q] = request[q]
    BY <1>1, RequestsKept DEF AccountInv
  <2> QED
    BY <2>1 DEF DemandUnits, LinesFor, Items
<1> QED
  BY <1>1 DEF UnitsTaken

\* What leaves one struct of m leaves m.
LEMMA GoneGrows ==
  ASSUME NEW m, NEW o \in Objects, id[o] = m, NEW n \in Nat,
         stock \in [Objects -> Int], posted \in [Objects -> Nat],
         stock[o] <= posted[o], IsFiniteSet(UnitsGone(m)),
         stock'[o] = stock[o] - n,
         \A x \in Objects : id[x] = m /\ x # o => stock'[x] = stock[x],
         UNCHANGED <<id, posted>>
  PROVE  /\ IsFiniteSet(UnitsGone(m)')
         /\ Cardinality(UnitsGone(m)') = Cardinality(UnitsGone(m)) + n
<1> DEFINE lo == stock[o] - n + 1
           hi == stock[o]
           New == {o} \X (lo..hi)
<1>1. stock[o] \in Int /\ posted[o] \in Int /\ lo \in Int /\ hi \in Int
  OBVIOUS
<1>2. IsFiniteSet(lo..hi) /\ Cardinality(lo..hi) = n
  <2>1. IsFiniteSet(lo..hi) /\ Cardinality(lo..hi) = IF lo > hi THEN 0 ELSE hi - lo + 1
    <3> HIDE DEF lo, hi
    <3> QED
      BY <1>1, FS_Interval
  <2>2. (IF lo > hi THEN 0 ELSE hi - lo + 1) = n
    BY <1>1
  <2> QED
    BY <2>1, <2>2
<1>3. IsFiniteSet(New) /\ Cardinality(New) = n
  <2>1. IsFiniteSet({o}) /\ Cardinality({o}) = 1
    BY FS_Singleton
  <2>2. IsFiniteSet(New) /\ Cardinality(New) = Cardinality({o}) * Cardinality(lo..hi)
    <3> HIDE DEF lo, hi
    <3> QED
      BY <1>2, <2>1, FS_Product
  <2> QED
    BY <1>2, <2>1, <2>2
<1>4. UnitsGone(m)' = UnitsGone(m) \cup New
  <2>1. ASSUME NEW x \in Objects, id[x] = m, x # o
        PROVE  ((stock[x] + 1)..posted[x])' = (stock[x] + 1)..posted[x]
    BY <2>1
  <2>2. ((stock[o] + 1)..posted[o])' = ((stock[o] + 1)..posted[o]) \cup (lo..hi)
    <3>1. (stock'[o] + 1)..posted'[o] = lo..posted[o]
      BY <1>1
    <3> QED
      BY <1>1, <3>1
  <2>3. {x \in Objects : id[x] = m}' = {x \in Objects : id[x] = m}
    OBVIOUS
  <2> HIDE DEF lo, hi
  <2>4. ASSUME NEW u
        PROVE  u \in UnitsGone(m)' <=> u \in UnitsGone(m) \cup New
    <3>1. u \in UnitsGone(m)' <=>
            \E x \in Objects : id[x] = m /\ u \in {x} \X ((stock[x] + 1)..posted[x])'
      BY <2>3 DEF UnitsGone
    <3>2. u \in UnitsGone(m) <=>
            \E x \in Objects : id[x] = m /\ u \in {x} \X ((stock[x] + 1)..posted[x])
      BY DEF UnitsGone
    <3>3. ASSUME NEW x \in Objects, id[x] = m
          PROVE  u \in {x} \X ((stock[x] + 1)..posted[x])' <=>
                   \/ u \in {x} \X ((stock[x] + 1)..posted[x])
                   \/ x = o /\ u \in New
      <4>1. CASE x = o
        BY <2>2, <4>1
      <4>2. CASE x # o
        BY <2>1, <3>3, <4>2
      <4> QED
        BY <4>1, <4>2
    <3> HIDE DEF New
    <3> QED
      BY <3>1, <3>2, <3>3
  <2> QED
    BY <2>4
<1>5. UnitsGone(m) \cap New = {}
  <2>1. ASSUME NEW u \in New PROVE u \notin UnitsGone(m)
    <3>1. u[1] = o /\ u[2] \in lo..hi
      OBVIOUS
    <3>2. ASSUME u \in UnitsGone(m) PROVE FALSE
      <4>1. PICK x \in Objects : u \in {x} \X ((stock[x] + 1)..posted[x])
        BY <3>2 DEF UnitsGone
      <4>2. x = o /\ u[2] \in (stock[o] + 1)..posted[o]
        BY <3>1, <4>1
      <4> QED
        BY <1>1, <3>1, <4>2
    <3> QED
      BY <3>2
  <2> QED
    BY <2>1
<1> HIDE DEF New
<1>6. /\ IsFiniteSet(UnitsGone(m) \cup New)
      /\ Cardinality(UnitsGone(m) \cup New) =
           Cardinality(UnitsGone(m)) + Cardinality(New) - Cardinality({})
  BY <1>3, <1>5, FS_Union
<1>7. Cardinality(UnitsGone(m)) \in Nat /\ Cardinality({}) = 0
  BY FS_CardinalityType, FS_EmptySet
<1> QED
  BY <1>3, <1>4, <1>6, <1>7

LEMMA AccountNext ==
  ASSUME TypeOK, Mutex, AccountInv, [Next]_vars
  PROVE  AccountInv'
<1>1. VarsTyped /\ \A p \in Procs : CallTyped(p)
  BY DEF TypeOK
<1>2. \A q \in RequestIds : managerSigned'[q] => status'[q] # "none"
  <2>1. ASSUME NEW q \in RequestIds, managerSigned'[q] PROVE status[q] # "none"
    <3>1. CASE managerSigned' = managerSigned
      BY <2>1, <3>1 DEF AccountInv
    <3>2. ASSUME NEW p \in Procs, TakeStock(p) PROVE status[q] # "none"
      BY <1>1, <2>1, <3>2 DEF VarsTyped, CallTyped, TakeStock, AccountInv
    <3>3. CASE ~\E p \in Procs : TakeStock(p)
      BY <3>1, <3>3, SignedKept
    <3> QED
      BY <3>2, <3>3
  <2> QED
    BY <2>1, RequestsKept
<1>3. ASSUME UNCHANGED managerSigned,
             \A o \in Objects : stock'[o] <= posted'[o],
             \A m \in MaterialIds : UnitsGone(m)' = UnitsGone(m),
             \A p \in Procs : pc'[p] = "signing" =>
               (pc[p] = "signing" /\ arg'[p] = arg[p]) \/ ~managerSigned[arg'[p]]
      PROVE  AccountInv'
  <2>1. \A m : UnitsTaken(m)' = UnitsTaken(m)
    BY <1>3, TakenKept
  <2>2. /\ \A m \in MaterialIds : Cardinality(UnitsGone(m)') = Cardinality(UnitsTaken(m)')
        /\ \A m \in MaterialIds : IsFiniteSet(UnitsGone(m)')
    BY <1>3, <2>1 DEF AccountInv, StockAccounted
  <2>3. \A p \in Procs : pc'[p] = "signing" => ~managerSigned'[arg'[p]]
    BY <1>3 DEF AccountInv
  <2>4. StockAccounted'
    BY <1>3, <2>2 DEF StockAccounted
  <2> QED
    BY <1>2, <2>2, <2>3, <2>4 DEF AccountInv
<1>4. ASSUME UNCHANGED <<managerSigned, id, posted, stock>>,
             \A p \in Procs : pc'[p] = "signing" =>
               (pc[p] = "signing" /\ arg'[p] = arg[p]) \/ ~managerSigned[arg'[p]]
      PROVE  AccountInv'
  <2>1. \A m \in MaterialIds : UnitsGone(m)' = UnitsGone(m)
    BY <1>4 DEF UnitsGone
  <2>2. \A o \in Objects : stock'[o] <= posted'[o]
    BY <1>4 DEF AccountInv, StockAccounted
  <2> QED
    BY <1>3, <1>4, <2>1, <2>2
<1>5. ASSUME NEW o \in Objects, NEW m \in MaterialIds, NEW s \in -1..MaxStock,
             CreateMaterial(o, m, s)
      PROVE  AccountInv'
  <2>1. /\ id[o] = None /\ id' = [id EXCEPT ![o] = m]
        /\ stock' = [stock EXCEPT ![o] = s] /\ posted' = [posted EXCEPT ![o] = s]
        /\ UNCHANGED <<pc, arg, managerSigned>>
    BY <1>5 DEF CreateMaterial, callVars, requestVars
  <2>2. s \in Int /\ (s + 1)..s = {}
    BY MaterialAssumption
  <2>3. \A x \in Objects : stock'[x] <= posted'[x]
    BY <1>1, <2>1, <2>2 DEF VarsTyped, AccountInv, StockAccounted
  <2>4. ASSUME NEW n \in MaterialIds PROVE UnitsGone(n)' = UnitsGone(n)
    <3>1. ((stock[o] + 1)..posted[o])' = {} /\ id[o] # n
      <4>1. stock'[o] = s /\ posted'[o] = s
        BY <1>1, <2>1 DEF VarsTyped
      <4> QED
        BY <2>1, <2>2, <4>1, MaterialAssumption
    <3>2. ASSUME NEW u PROVE u \in UnitsGone(n)' <=> u \in UnitsGone(n)
      <4>1. u \in UnitsGone(n)' <=>
              \E x \in Objects : id'[x] = n /\ u \in {x} \X ((stock[x] + 1)..posted[x])'
        BY DEF UnitsGone
      <4>2. u \in UnitsGone(n) <=>
              \E x \in Objects : id[x] = n /\ u \in {x} \X ((stock[x] + 1)..posted[x])
        BY DEF UnitsGone
      <4>3. ASSUME NEW x \in Objects
            PROVE  id'[x] = n /\ u \in {x} \X ((stock[x] + 1)..posted[x])' <=>
                     id[x] = n /\ u \in {x} \X ((stock[x] + 1)..posted[x])
        <5>1. CASE x = o
          <6>1. u \notin {x} \X ((stock[x] + 1)..posted[x])'
            BY <3>1, <5>1
          <6> QED
            BY <3>1, <5>1, <6>1
        <5>2. CASE x # o
          <6>1. stock'[x] = stock[x] /\ posted'[x] = posted[x] /\ id'[x] = id[x]
            BY <1>1, <2>1, <5>2 DEF VarsTyped
          <6> QED
            BY <6>1
        <5> QED
          BY <5>1, <5>2
      <4>4. ASSUME u \in UnitsGone(n)' PROVE u \in UnitsGone(n)
        <5>1. PICK x \in Objects : id'[x] = n /\ u \in {x} \X ((stock[x] + 1)..posted[x])'
          BY <4>1, <4>4
        <5> QED
          BY <4>2, <4>3, <5>1
      <4>5. ASSUME u \in UnitsGone(n) PROVE u \in UnitsGone(n)'
        <5>1. PICK x \in Objects : id[x] = n /\ u \in {x} \X ((stock[x] + 1)..posted[x])
          BY <4>2, <4>5
        <5> QED
          BY <4>1, <4>3, <5>1
      <4> QED
        BY <4>4, <4>5
    <3> QED
      BY <3>2
  <2> QED
    BY <1>3, <2>1, <2>3, <2>4
<1>6. ASSUME NEW p \in Procs, TakeStock(p)
      PROVE  AccountInv'
  <2> DEFINE q == arg[p]
  <2>1. /\ q \in RequestIds /\ pc[p] = "signing" /\ ~managerSigned[q]
        /\ \A m \in MaterialIds : mats[p][m] # None <=> m \in Wanted(q)
        /\ \A m \in Wanted(q) : m \in MaterialIds /\ mats[p][m] \in Objects
                               /\ id[mats[p][m]] = m
    BY <1>1, <1>6 DEF VarsTyped, CallTyped, TakeStock, AccountInv, Wanted
  <2>2. ASSUME NEW m \in MaterialIds
        PROVE  /\ IsFiniteSet(UnitsGone(m)')
               /\ Cardinality(UnitsGone(m)') = Cardinality(UnitsGone(m)) + Demand(q, m)
    <3>1. CASE m \in Wanted(q)
      <4> DEFINE o == mats[p][m]
      <4>1. o \in Objects /\ id[o] = m
        BY <2>1, <3>1
      <4>2. stock'[o] = stock[o] - Demand(q, m)
        BY <1>6, <3>1, <4>1 DEF TakeStock
      <4>3. \A x \in Objects : id[x] = m /\ x # o => stock'[x] = stock[x]
        BY <1>6, <2>1 DEF TakeStock
      <4>4. UNCHANGED <<id, posted>>
        BY <1>6 DEF TakeStock
      <4>5. stock[o] <= posted[o] /\ IsFiniteSet(UnitsGone(m)) /\ Demand(q, m) \in Nat
        BY <4>1, DemandIsNat DEF AccountInv, StockAccounted
      <4>6. stock \in [Objects -> Int] /\ posted \in [Objects -> Nat]
        BY <1>1 DEF VarsTyped
      <4> HIDE DEF o, q
      <4> QED
        BY <4>1, <4>2, <4>3, <4>4, <4>5, <4>6, GoneGrows
    <3>2. CASE m \notin Wanted(q)
      <4>1. \A x \in Objects : id[x] = m => stock'[x] = stock[x]
        BY <1>6, <2>1, <3>2 DEF TakeStock
      <4>2. UNCHANGED <<id, posted>>
        BY <1>6 DEF TakeStock
      <4>3. UnitsGone(m)' = UnitsGone(m)
        BY <4>1, <4>2 DEF UnitsGone
      <4>4. DemandUnits(q, m) = {}
        BY <3>2 DEF DemandUnits, Wanted
      <4>5. Demand(q, m) = 0
        BY <4>4, FS_EmptySet DEF Demand
      <4>6. IsFiniteSet(UnitsGone(m)) /\ Cardinality(UnitsGone(m)) \in Nat
        BY FS_CardinalityType DEF AccountInv
      <4> QED
        BY <4>3, <4>5, <4>6
    <3> QED
      BY <3>1, <3>2
  <2>3. ASSUME NEW m \in MaterialIds
        PROVE  Cardinality(UnitsGone(m)') = Cardinality(UnitsTaken(m)')
    <3>1. Cardinality(UnitsTaken(m)') = Cardinality(UnitsTaken(m)) + Demand(q, m)
      BY <1>1, <1>6, <2>1, TakenGrows DEF VarsTyped, TakeStock
    <3> QED
      BY <2>2, <3>1 DEF AccountInv, StockAccounted
  <2>4. \A o \in Objects : stock'[o] <= posted'[o]
    <3>1. ASSUME NEW o \in Objects PROVE stock'[o] <= stock[o]
      BY <1>1, <1>6, DemandIsNat DEF TakeStock, VarsTyped
    <3>2. ASSUME NEW o \in Objects
          PROVE  stock[o] <= posted[o] /\ stock[o] \in Int /\ posted[o] \in Int /\ stock'[o] \in Int
      BY <1>1, TypeNext DEF AccountInv, StockAccounted, TypeOK, VarsTyped
    <3>3. posted' = posted
      BY <1>6 DEF TakeStock
    <3> QED
      BY <3>1, <3>2, <3>3
  <2>5. StockAccounted'
    BY <2>3, <2>4 DEF StockAccounted
  <2>6. \A r \in Procs : pc'[r] # "signing"
    BY <1>1, <1>6, <2>1 DEF VarsTyped, TakeStock, Mutex, Critical
  <2> QED
    BY <1>2, <2>2, <2>5, <2>6 DEF AccountInv
<1>7. CASE Clients \/ UNCHANGED vars
  <2>1. CASE \E o \in Objects, m \in MaterialIds, s \in -1..MaxStock :
               CreateMaterial(o, m, s)
    BY <1>5, <2>1
  <2>2. CASE ~\E o \in Objects, m \in MaterialIds, s \in -1..MaxStock :
               CreateMaterial(o, m, s)
    <3>1. UNCHANGED <<managerSigned, id, posted, stock>>
      BY <1>7, <2>2 DEF Clients, RegisterManager, CreateRequest, CallManagerSign,
         CallArbitrate, Call, RejectRequest, stockVars, requestVars, vars
    <3>2. \A r \in Procs : pc'[r] = "signing" => pc[r] = "signing" /\ arg'[r] = arg[r]
      BY <1>1, <1>7, <2>2 DEF VarsTyped, Clients, RegisterManager, CreateRequest,
         CallManagerSign, CallArbitrate, Call, RejectRequest, callVars, vars
    <3> QED
      BY <1>4, <3>1, <3>2
  <2> QED
    BY <2>1, <2>2
<1>8. ASSUME NEW p \in Procs,
             \/ Acquire(p) \/ Complete(p) \/ ArbitrateSaveBack(p) \/ ArbitrateEnd(p)
             \/ RejectManager(p) \/ RejectStatus(p)
             \/ \E q \in RequestIds :
                  ArbitrateSign(p, q) \/ ArbitrateSkip(p, q) \/ ArbitrateReject(p, q)
      PROVE  AccountInv'
  <2>1. UNCHANGED <<managerSigned, id, posted, stock>>
    BY <1>8 DEF Acquire, SignBegin, EnterSign, SignRefuse, ArbitrateBegin, Complete,
       ArbitrateSaveBack, ArbitrateEnd, RejectManager, RejectStatus, ArbitrateSign,
       ArbitrateSkip, ArbitrateReject, Turn, stockVars, requestVars
  <2>2. \A r \in Procs : pc'[r] = "signing" =>
          (pc[r] = "signing" /\ arg'[r] = arg[r]) \/ ~managerSigned[arg'[r]]
    BY <1>1, <1>8 DEF VarsTyped, Acquire, SignBegin, Signable, EnterSign, SignRefuse,
       ArbitrateBegin, Complete, ArbitrateSaveBack, ArbitrateEnd, RejectManager,
       RejectStatus, ArbitrateSign, ArbitrateSkip, ArbitrateReject, Turn, Return
  <2> QED
    BY <1>4, <2>1, <2>2
<1> QED
  BY <1>6, <1>7, <1>8 DEF Next, Proceed

LEMMA AccountAlways == Spec => []AccountInv
<1>1. Init => AccountInv
  <2> SUFFICES ASSUME Init PROVE AccountInv
    OBVIOUS
  <2>1. /\ \A o \in Objects : stock[o] = 0 /\ posted[o] = 0 /\ id[o] = None
        /\ \A q \in RequestIds : ~managerSigned[q]
        /\ \A p \in Procs : pc[p] = "idle"
    BY DEF Init
  <2>2. \A m \in MaterialIds : UnitsGone(m) = {} /\ UnitsTaken(m) = {}
    BY <2>1, MaterialAssumption DEF UnitsGone, UnitsTaken
  <2>3. \A m \in MaterialIds : /\ IsFiniteSet(UnitsGone(m))
                               /\ Cardinality(UnitsGone(m)) = Cardinality(UnitsTaken(m))
    BY <2>2, FS_EmptySet
  <2>4. StockAccounted
    BY <2>1, <2>3 DEF StockAccounted
  <2> QED
    BY <2>1, <2>3, <2>4 DEF AccountInv
<1>2. TypeOK /\ Mutex /\ AccountInv /\ [Next]_vars => AccountInv'
  BY AccountNext
<1> QED
  BY <1>1, <1>2, TypeCorrect, MutualExclusion, PTL DEF Spec

\* What left the structs of a material is exactly what the signed requests took, for
\* any requests (repeated lines included), however often the material is registered
\* again in between: nothing is taken twice, nothing gets lost.
THEOREM StockAddsUp == Spec => []StockAccounted
<1>1. AccountInv => StockAccounted
  BY DEF AccountInv
<1> QED
  BY <1>1, AccountAlways, PTL
=============================================================================
