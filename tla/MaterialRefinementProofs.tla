---------------------- MODULE MaterialRefinementProofs ----------------------
(***************************************************************************)
(* The material service implements the abstract ledger, for any            *)
(* goroutines, requests, materials and registrations.                      *)
(***************************************************************************)
EXTENDS MaterialRefinement, MaterialServiceProofs

\* An ID some struct was registered under leads to a struct, and a signature is
\* there before the status says so.
LedgerInv ==
  /\ \A o \in Objects : id[o] # None => materials[id[o]] # None
  /\ \A p \in Procs : pc[p] = "completing" => managerSigned[arg[p]]

LEMMA LedgerInvNext ==
  ASSUME TypeOK, LedgerInv, [Next]_vars
  PROVE  LedgerInv'
<1>1. VarsTyped /\ \A p \in Procs : CallTyped(p)
  BY DEF TypeOK
<1>2. ASSUME NEW o \in Objects, id[o] # None
      PROVE  materials'[id'[o]] # None
  <2>1. id'[o] = id[o] /\ id[o] \in MaterialIds /\ materials[id[o]] # None
    BY <1>1, <1>2, StoreNext DEF LedgerInv, VarsTyped
  <2> QED
    BY <2>1, StoreNext
<1>3. ASSUME id' = id, \A p \in Procs : pc'[p] = "completing" => managerSigned'[arg'[p]]
      PROVE  LedgerInv'
  BY <1>2, <1>3 DEF LedgerInv
<1>4. ASSUME UNCHANGED managerSigned,
             \A p \in Procs : pc'[p] = "completing" => pc[p] = "completing" /\ arg'[p] = arg[p]
      PROVE  \A p \in Procs : pc'[p] = "completing" => managerSigned'[arg'[p]]
  BY <1>4 DEF LedgerInv
<1>5. ASSUME NEW o \in Objects, NEW m \in MaterialIds, NEW s \in -1..MaxStock,
             CreateMaterial(o, m, s)
      PROVE  LedgerInv'
  <2>1. /\ materials' = [materials EXCEPT ![m] = o] /\ id' = [id EXCEPT ![o] = m]
        /\ UNCHANGED <<pc, arg, managerSigned>>
    BY <1>5 DEF CreateMaterial, callVars, requestVars
  <2>2. materials'[m] # None /\ id'[o] = m /\ \A x \in Objects : x # o => id'[x] = id[x]
    BY <1>1, <2>1, MaterialAssumption DEF VarsTyped
  <2>3. \A x \in Objects : id'[x] # None => materials'[id'[x]] # None
    BY <1>2, <2>2
  <2> QED
    BY <2>1, <2>3 DEF LedgerInv
<1>6. CASE Clients \/ UNCHANGED vars
  <2>1. CASE \E o \in Objects, m \in MaterialIds, s \in -1..MaxStock :
               CreateMaterial(o, m, s)
    BY <1>5, <2>1
  <2>2. CASE ~\E o \in Objects, m \in MaterialIds, s \in -1..MaxStock :
               CreateMaterial(o, m, s)
    <3>1. UNCHANGED <<managerSigned, id>>
      BY <1>6, <2>2 DEF Clients, RegisterManager, CreateRequest, CallManagerSign,
         CallArbitrate, Call, RejectRequest, stockVars, requestVars, vars
    <3>2. \A p \in Procs : pc'[p] = "completing" => pc[p] = "completing" /\ arg'[p] = arg[p]
      BY <1>1, <1>6, <2>2 DEF VarsTyped, Clients, RegisterManager, CreateRequest,
         CallManagerSign, CallArbitrate, Call, RejectRequest, callVars, vars
    <3> QED
      BY <1>3, <1>4, <3>1, <3>2
  <2> QED
    BY <2>1, <2>2
<1>7. ASSUME NEW p \in Procs, TakeStock(p)
      PROVE  LedgerInv'
  <2>1. id' = id /\ arg' = arg
    BY <1>7 DEF TakeStock
  <2>2. \A r \in Procs : pc'[r] = "completing" => managerSigned'[arg'[r]]
    BY <1>1, <1>7, <2>1 DEF VarsTyped, CallTyped, TakeStock, LedgerInv
  <2> QED
    BY <1>3, <2>1, <2>2
<1>8. ASSUME NEW p \in Procs,
             \/ Acquire(p) \/ Complete(p) \/ ArbitrateSaveBack(p) \/ ArbitrateEnd(p)
             \/ RejectManager(p) \/ RejectStatus(p)
             \/ \E q \in RequestIds :
                  ArbitrateSign(p, q) \/ ArbitrateSkip(p, q) \/ ArbitrateReject(p, q)
      PROVE  LedgerInv'
  <2>1. UNCHANGED <<managerSigned, id>>
    BY <1>8 DEF Acquire, SignBegin, EnterSign, SignRefuse, ArbitrateBegin, Complete,
       ArbitrateSaveBack, ArbitrateEnd, RejectManager, RejectStatus, ArbitrateSign,
       ArbitrateSkip, ArbitrateReject, Turn, stockVars, requestVars
  <2>2. \A r \in Procs : pc'[r] = "completing" => pc[r] = "completing" /\ arg'[r] = arg[r]
    BY <1>1, <1>8 DEF VarsTyped, Acquire, SignBegin, EnterSign, SignRefuse,
       ArbitrateBegin, Complete, ArbitrateSaveBack, ArbitrateEnd, RejectManager,
       RejectStatus, ArbitrateSign, ArbitrateSkip, ArbitrateReject, Turn, Return
  <2> QED
    BY <1>3, <1>4, <2>1, <2>2
<1> QED
  BY <1>6, <1>7, <1>8 DEF Next, Proceed

-----------------------------------------------------------------------------
(* The mapping.                                                            *)

\* What is counted is the stock of the one struct of a material.
LEMMA LeftIs ==
  ASSUME TypeOK, NEW m \in MaterialIds
  PROVE  /\ StockLeft[m] = None <=> materials[m] = None
         /\ materials[m] # None /\ RegisteredOnce(m) => StockLeft[m] = stock[materials[m]]
         /\ materials[m] # None /\ ~RegisteredOnce(m) => StockLeft[m] = Lost
         /\ Ledger!Counted(m) <=> materials[m] # None /\ RegisteredOnce(m)
<1>1. materials[m] # None => stock[materials[m]] \in Int
  BY DEF TypeOK, VarsTyped
<1> QED
  BY <1>1, LostAssumption DEF StockLeft, Ledger!Counted

LEMMA LeftKept ==
  ASSUME TypeOK, LedgerInv, [Next]_vars, UNCHANGED <<id, stock>>
  PROVE  StockLeft' = StockLeft
<1>1. TypeOK'
  BY TypeNext
<1>2. ASSUME NEW m \in MaterialIds
      PROVE  /\ materials'[m] = None <=> materials[m] = None
             /\ RegisteredOnce(m)' <=> RegisteredOnce(m)
             /\ materials[m] # None /\ RegisteredOnce(m) => materials'[m] = materials[m]
  <2>1. RegisteredOnce(m)' <=> RegisteredOnce(m)
    BY DEF RegisteredOnce
  <2>2. ASSUME materials'[m] # None PROVE materials[m] # None
    <3>1. materials'[m] \in Objects /\ id[materials'[m]] = m /\ m # None
      BY <1>1, <2>2, MaterialAssumption DEF TypeOK, VarsTyped
    <3> QED
      BY <3>1 DEF LedgerInv
  <2> QED
    BY <2>1, <2>2, StoreNext, OnceKept
<1> QED
  BY <1>2 DEF StockLeft

LEMMA NeedsKept ==
  ASSUME UNCHANGED request
  PROVE  Needs' = Needs /\ AskedLines' = AskedLines
BY DEF Needs, Demand, DemandUnits, LinesFor, Items, AskedLines, LineQuantities

LEMMA NeedIs ==
  ASSUME TypeOK, NEW q \in RequestIds, status[q] # "none"
  PROVE  \A m \in MaterialIds :
           Needs[q][m] = Demand(q, m) /\ AskedLines[q][m] = LineQuantities(q, m)
<1>1. request[q] # None
  BY LostAssumption DEF TypeOK, RequestTyped
<1> QED
  BY <1>1 DEF Needs, AskedLines

\* The units of some lines are a number, and there are some if there is a unit.
LEMMA UnitsAreNat ==
  ASSUME NEW S, S \subseteq (1..MaxLines) \X (1..MaxQuantity)
  PROVE  Cardinality(S) \in Nat /\ (Cardinality(S) > 0 <=> S # {})
<1>1. 1 \in Int /\ MaxLines \in Int /\ MaxQuantity \in Int
  BY MaterialAssumption
<1>2. IsFiniteSet(1..MaxLines) /\ IsFiniteSet(1..MaxQuantity)
  BY <1>1, FS_Interval
<1>3. IsFiniteSet((1..MaxLines) \X (1..MaxQuantity))
  BY <1>2, FS_Product
<1>4. IsFiniteSet(S)
  BY <1>3, FS_Subset
<1>5. Cardinality(S) \in Nat /\ (Cardinality(S) = 0 <=> S = {})
  BY <1>4, FS_CardinalityType, FS_EmptySet
<1> QED
  BY <1>5

\* Some lines together ask for at least what one of them asks.
LEMMA LineIsWithin ==
  ASSUME NEW i \in 1..MaxLines, NEW k \in 0..MaxQuantity,
         NEW S, {i} \X (1..k) \subseteq S, S \subseteq (1..MaxLines) \X (1..MaxQuantity)
  PROVE  k <= Cardinality(S)
<1>1. k \in Nat /\ 1 \in Int /\ MaxLines \in Int /\ MaxQuantity \in Int
  BY MaterialAssumption
<1>2. IsFiniteSet(1..MaxLines) /\ IsFiniteSet(1..MaxQuantity)
  BY <1>1, FS_Interval
<1>3. IsFiniteSet((1..MaxLines) \X (1..MaxQuantity))
  BY <1>2, FS_Product
<1>4. IsFiniteSet(S)
  BY <1>3, FS_Subset
<1>5. IsFiniteSet(1..k) /\ Cardinality(1..k) = k
  <2>1. IsFiniteSet(1..k) /\ Cardinality(1..k) = IF 1 > k THEN 0 ELSE k - 1 + 1
    BY <1>1, FS_Interval
  <2> QED
    BY <1>1, <2>1
<1>6. IsFiniteSet({i}) /\ Cardinality({i}) = 1
  BY FS_Singleton
<1>7. Cardinality({i} \X (1..k)) = k
  <2>1. Cardinality({i} \X (1..k)) = Cardinality({i}) * Cardinality(1..k)
    BY <1>5, <1>6, FS_Product
  <2> QED
    BY <1>1, <1>5, <1>6, <2>1
<1> QED
  BY <1>4, <1>7, FS_Subset

-----------------------------------------------------------------------------
(* The steps.                                                              *)

LEMMA RegistrationMaps ==
  ASSUME TypeOK, LedgerInv, [Next]_vars,
         NEW o \in Objects, NEW m \in MaterialIds, NEW s \in -1..MaxStock,
         CreateMaterial(o, m, s)
  PROVE  Ledger!Register(m) \/ Ledger!RegisterAgain(m)
<1>1. /\ materials' = [materials EXCEPT ![m] = o] /\ id[o] = None
      /\ id' = [id EXCEPT ![o] = m] /\ stock' = [stock EXCEPT ![o] = s]
      /\ s >= 0 /\ UNCHANGED <<request, status, managerSigned>>
  BY DEF CreateMaterial, requestVars
<1>2. /\ VarsTyped /\ m # None /\ o # None /\ s \in 0..MaxStock
      /\ \A n \in MaterialIds : materials[n] # None => id[materials[n]] = n
  BY <1>1, MaterialAssumption DEF TypeOK
<1>3. Needs' = Needs /\ AskedLines' = AskedLines /\ SignedRequests' = SignedRequests
  BY <1>1, NeedsKept DEF SignedRequests
<1>4. ASSUME NEW n \in MaterialIds, n # m
      PROVE  StockLeft'[n] = StockLeft[n]
  <2>1. materials'[n] = materials[n] /\ (RegisteredOnce(n)' <=> RegisteredOnce(n))
    BY <1>1, <1>2, <1>4, MaterialAssumption DEF VarsTyped, RegisteredOnce
  <2>2. materials[n] # None => stock'[materials[n]] = stock[materials[n]]
    BY <1>1, <1>2, MaterialAssumption DEF VarsTyped
  <2> QED
    BY <2>1, <2>2 DEF StockLeft
<1>5. StockLeft' = [StockLeft EXCEPT ![m] = StockLeft'[m]]
  BY <1>4 DEF StockLeft
<1>6. materials'[m] = o /\ id'[o] = m
  BY <1>1, <1>2 DEF VarsTyped
<1>7. CASE materials[m] = None
  <2>1. \A x \in Objects : id[x] # m
    BY <1>2, <1>7 DEF LedgerInv
  <2>2. RegisteredOnce(m)'
    BY <1>1, <1>2, <2>1 DEF VarsTyped, RegisteredOnce
  <2>3. StockLeft'[m] = s /\ StockLeft[m] = None
    BY <1>1, <1>2, <1>6, <1>7, <2>2 DEF VarsTyped, StockLeft
  <2> QED
    BY <1>1, <1>2, <1>3, <1>5, <2>3 DEF Ledger!Register
<1>8. CASE materials[m] # None
  <2>1. materials[m] \in Objects /\ id[materials[m]] = m /\ materials[m] # o
    BY <1>1, <1>2, <1>8 DEF VarsTyped
  <2>2. id'[materials[m]] = m
    BY <1>1, <1>2, <2>1 DEF VarsTyped
  <2>3. ~RegisteredOnce(m)'
    BY <1>6, <2>1, <2>2 DEF RegisteredOnce
  <2>4. StockLeft'[m] = Lost /\ StockLeft[m] # None
    BY <1>2, <1>6, <1>8, <2>3, LeftIs DEF StockLeft
  <2> QED
    BY <1>1, <1>3, <1>5, <2>4 DEF Ledger!RegisterAgain
<1> QED
  BY <1>7, <1>8

LEMMA SubmissionMaps ==
  ASSUME TypeOK, NEW q \in RequestIds, NEW l \in ItemLists, NEW pr \in Priorities,
         NEW t \in {clock, clock + 1} \cap (0..MaxClock), CreateRequest(q, l, pr, t)
  PROVE  Ledger!Submit(q)
<1>1. /\ request' = [request EXCEPT ![q] = [items |-> l, priority |-> pr, requestedAt |-> t]]
      /\ status[q] = "none" /\ status' = [status EXCEPT ![q] = "requested"]
      /\ UNCHANGED <<materials, id, stock, managerSigned>>
      /\ l # <<>> /\ \A i \in DOMAIN l : LineOK(l[i])
  BY DEF CreateRequest, stockVars
<1>2. request'[q] = [items |-> l, priority |-> pr, requestedAt |-> t] /\ request'[q] # None
  <2>1. [items |-> l, priority |-> pr, requestedAt |-> t] \in Requests
    BY DEF Requests
  <2> QED
    BY <1>1, <2>1, LostAssumption DEF TypeOK, VarsTyped
<1>3. Items(q)' = l /\ l \in Seq(Lines) /\ Len(l) <= MaxLines /\ Len(l) \in Nat
  BY <1>2, MaterialAssumption DEF Items
<1> DEFINE D(m) == {u \in (1..MaxLines) \X (1..MaxQuantity) :
                      u[1] \in {i \in DOMAIN l : l[i].material = m} /\ u[2] <= l[u[1]].quantity}
<1>4. \A m : Demand(q, m)' = Cardinality(D(m))
  BY <1>3 DEF Demand, DemandUnits, LinesFor
<1>5. Needs'[q] = [m \in MaterialIds |-> Cardinality(D(m))]
  BY <1>2, <1>4 DEF Needs
<1>6. \A m : Cardinality(D(m)) \in Nat /\ (Cardinality(D(m)) > 0 <=> D(m) # {})
  <2>1. \A m : D(m) \subseteq (1..MaxLines) \X (1..MaxQuantity)
    OBVIOUS
  <2> HIDE DEF D
  <2> QED
    BY <2>1, UnitsAreNat
<1>7. \E m \in MaterialIds : Needs'[q][m] > 0
  <2>1. 1 \in DOMAIN l /\ l[1] \in Lines /\ l[1].quantity > 0 /\ 1 \in 1..MaxLines
    BY <1>1, <1>3, MaterialAssumption DEF LineOK
  <2>2. l[1].material \in MaterialIds /\ 1 \in 1..MaxQuantity /\ 1 <= l[1].quantity
    BY <2>1, MaterialAssumption DEF Lines
  <2>3. <<1, 1>> \in D(l[1].material)
    BY <2>1, <2>2
  <2> HIDE DEF D
  <2> QED
    BY <1>5, <1>6, <2>2, <2>3
<1>8. \A m \in MaterialIds : Needs'[q][m] > 0 => StockLeft[m] # None
  <2>1. ASSUME NEW m \in MaterialIds, NEW u \in D(m) PROVE materials[m] # None
    BY <1>1 DEF LineOK
  <2> HIDE DEF D
  <2> QED
    BY <1>5, <1>6, <2>1, LeftIs
<1>9. Needs' = [Needs EXCEPT ![q] = Needs'[q]]
  <2>1. ASSUME NEW b \in RequestIds, b # q PROVE Needs'[b] = Needs[b]
    <3>1. request'[b] = request[b]
      BY <1>1, <2>1 DEF TypeOK, VarsTyped
    <3> QED
      BY <3>1 DEF Needs, Demand, DemandUnits, LinesFor, Items
  <2> QED
    BY <2>1 DEF Needs
<1>10. Needs'[q] \in [MaterialIds -> Nat]
  <2> HIDE DEF D
  <2> QED
    BY <1>5, <1>6
<1>11. StockLeft' = StockLeft /\ SignedRequests' = SignedRequests
  BY <1>1 DEF StockLeft, SignedRequests, RegisteredOnce
<1> DEFINE Q(m) == {l[i].quantity : i \in {j \in DOMAIN l : l[j].material = m}}
<1>12. AskedLines'[q] = [m \in MaterialIds |-> Q(m)]
  BY <1>2, <1>3 DEF AskedLines, LineQuantities, LinesFor
<1>13. AskedLines' = [AskedLines EXCEPT ![q] = AskedLines'[q]]
  <2>1. ASSUME NEW b \in RequestIds, b # q PROVE AskedLines'[b] = AskedLines[b]
    <3>1. request'[b] = request[b]
      BY <1>1, <2>1 DEF TypeOK, VarsTyped
    <3> QED
      BY <3>1 DEF AskedLines, LineQuantities, LinesFor, Items
  <2> QED
    BY <2>1 DEF AskedLines
<1>14. ASSUME NEW m \in MaterialIds, NEW n \in Q(m)
       PROVE  n \in Nat /\ n <= Cardinality(D(m))
  <2>1. PICK i \in DOMAIN l : l[i].material = m /\ n = l[i].quantity
    BY <1>14
  <2>2. i \in 1..MaxLines /\ l[i] \in Lines
    BY <1>3, MaterialAssumption
  <2>3. n \in 0..MaxQuantity
    BY <2>1, <2>2 DEF Lines
  <2>4. {i} \X (1..n) \subseteq D(m)
    BY <2>1, <2>2, <2>3, MaterialAssumption
  <2>5. D(m) \subseteq (1..MaxLines) \X (1..MaxQuantity)
    OBVIOUS
  <2> HIDE DEF D, Q
  <2> QED
    BY <2>2, <2>3, <2>4, <2>5, LineIsWithin
<1>15. /\ AskedLines'[q] \in [MaterialIds -> SUBSET Nat]
       /\ \A m \in MaterialIds : \A n \in AskedLines'[q][m] : n <= Needs'[q][m]
  <2> HIDE DEF D, Q
  <2> QED
    BY <1>5, <1>12, <1>14
<1> HIDE DEF D, Q
<1> QED
  BY <1>1, <1>7, <1>8, <1>9, <1>10, <1>11, <1>13, <1>15 DEF Ledger!Submit

LEMMA TakeMaps ==
  ASSUME TypeOK, StockInv, AccountInv, NEW p \in Procs, TakeStock(p)
  PROVE  \E q \in RequestIds : Ledger!Take(q)
<1>1. VarsTyped /\ CallTyped(p) /\ pc[p] = "signing"
  BY DEF TypeOK, TakeStock
<1>2. PICK q \in RequestIds : q = arg[p]
  BY <1>1 DEF CallTyped
<1>3. /\ status[q] # "none" /\ ~managerSigned[q]
      /\ \A m \in Wanted(q) : /\ m \in MaterialIds /\ mats[p][m] \in Objects
                              /\ id[mats[p][m]] = m
                              /\ \A i \in LinesFor(q, m) :
                                   stock[mats[p][m]] >= Items(q)[i].quantity
  BY <1>1, <1>2 DEF VarsTyped, CallTyped, AccountInv, StockInv, Wanted
<1>4. /\ \A o \in Objects : stock'[o] = IF \E m \in Wanted(q) : mats[p][m] = o
                                        THEN stock[o] - Demand(q, id[o]) ELSE stock[o]
      /\ managerSigned' = [managerSigned EXCEPT ![q] = TRUE]
      /\ UNCHANGED <<materials, id, request, status>>
  BY <1>2 DEF TakeStock
<1>5. ASSUME NEW m \in MaterialIds, materials[m] # None, RegisteredOnce(m)
      PROVE  /\ \A n \in LineQuantities(q, m) : stock[materials[m]] >= n
             /\ stock'[materials[m]] = stock[materials[m]] - Demand(q, m)
  <2>1. materials[m] \in Objects /\ id[materials[m]] = m /\ stock[materials[m]] \in Int
    BY <1>1, <1>5 DEF TypeOK, VarsTyped
  <2>2. CASE m \in Wanted(q)
    <3>1. mats[p][m] = materials[m]
      BY <1>3, <1>5, <2>1, <2>2 DEF RegisteredOnce
    <3> QED
      BY <1>3, <1>4, <2>1, <2>2, <3>1 DEF LineQuantities
  <2>3. CASE m \notin Wanted(q)
    <3>1. stock'[materials[m]] = stock[materials[m]]
      BY <1>3, <1>4, <2>1, <2>3
    <3>2. DemandUnits(q, m) = {}
      BY <2>3 DEF DemandUnits, Wanted
    <3>3. Demand(q, m) = 0
      BY <3>2, FS_EmptySet DEF Demand
    <3>4. LineQuantities(q, m) = {}
      BY <2>3 DEF LineQuantities, Wanted
    <3> QED
      BY <2>1, <3>1, <3>3, <3>4
  <2> QED
    BY <2>2, <2>3
<1>6. \A m \in MaterialIds :
        Needs[q][m] = Demand(q, m) /\ AskedLines[q][m] = LineQuantities(q, m)
  BY <1>3, NeedIs
<1>7. \A m \in MaterialIds :
        Ledger!Counted(m) => \A n \in AskedLines[q][m] : StockLeft[m] >= n
  BY <1>5, <1>6, LeftIs
<1>8. StockLeft' = [m \in MaterialIds |->
                      IF Ledger!Counted(m) THEN StockLeft[m] - Needs[q][m] ELSE StockLeft[m]]
  <2>1. ASSUME NEW m \in MaterialIds
        PROVE  StockLeft'[m] = IF Ledger!Counted(m) THEN StockLeft[m] - Needs[q][m]
                                                    ELSE StockLeft[m]
    <3>1. /\ materials' = materials /\ (RegisteredOnce(m)' <=> RegisteredOnce(m))
      BY <1>4 DEF RegisteredOnce
    <3>2. StockLeft'[m] = IF materials[m] = None THEN None
                          ELSE IF RegisteredOnce(m) THEN stock'[materials[m]] ELSE Lost
      BY <3>1 DEF StockLeft
    <3> QED
      BY <1>5, <1>6, <3>2, LeftIs
  <2>2. StockLeft' = [m \in MaterialIds |-> StockLeft'[m]]
    BY DEF StockLeft
  <2> QED
    BY <2>1, <2>2
<1>9. /\ q \notin SignedRequests /\ SignedRequests' = SignedRequests \cup {q}
      /\ Needs' = Needs /\ AskedLines' = AskedLines
  BY <1>1, <1>3, <1>4, NeedsKept DEF SignedRequests, VarsTyped
<1> QED
  BY <1>3, <1>4, <1>7, <1>8, <1>9 DEF Ledger!Take

LEMMA StepMaps ==
  ASSUME TypeOK, StockInv, AccountInv, LedgerInv, [Next]_vars
  PROVE  [Ledger!Next]_(Ledger!vars)
<1>1. VarsTyped /\ \A p \in Procs : CallTyped(p)
  BY DEF TypeOK
<1>2. ASSUME UNCHANGED <<id, stock, request, managerSigned>>
      PROVE  UNCHANGED <<StockLeft, AskedLines, Needs, SignedRequests>>
  BY <1>2, LeftKept, NeedsKept DEF SignedRequests
<1>3. ASSUME UNCHANGED <<id, stock, request, status, managerSigned>>
      PROVE  UNCHANGED Ledger!vars
  BY <1>2, <1>3 DEF Ledger!vars
<1>4. CASE Clients \/ UNCHANGED vars
  <2>1. CASE \E o \in Objects, m \in MaterialIds, s \in -1..MaxStock :
               CreateMaterial(o, m, s)
    BY <2>1, RegistrationMaps DEF Ledger!Next
  <2>2. CASE \E q \in RequestIds, l \in ItemLists, pr \in Priorities,
                t \in {clock, clock + 1} \cap (0..MaxClock) : CreateRequest(q, l, pr, t)
    BY <2>2, SubmissionMaps DEF Ledger!Next
  <2>3. CASE /\ ~\E o \in Objects, m \in MaterialIds, s \in -1..MaxStock :
                  CreateMaterial(o, m, s)
             /\ ~\E q \in RequestIds, l \in ItemLists, pr \in Priorities,
                   t \in {clock, clock + 1} \cap (0..MaxClock) : CreateRequest(q, l, pr, t)
    <3>1. UNCHANGED <<id, stock, request, status, managerSigned>>
      BY <1>4, <2>3 DEF Clients, RegisterManager, CallManagerSign, CallArbitrate, Call,
         RejectRequest, stockVars, requestVars, vars
    <3> QED
      BY <1>3, <3>1
  <2> QED
    BY <2>1, <2>2, <2>3
<1>5. ASSUME NEW p \in Procs, TakeStock(p)
      PROVE  Ledger!Next
  BY <1>5, TakeMaps DEF Ledger!Next
<1>6. ASSUME NEW p \in Procs, Complete(p)
      PROVE  Ledger!Next
  <2>1. PICK q \in RequestIds : q = arg[p]
    BY <1>1, <1>6 DEF CallTyped, Complete
  <2>2. q \in SignedRequests
    BY <1>6, <2>1 DEF SignedRequests, LedgerInv, Complete
  <2>3. /\ status' = [status EXCEPT ![q] = "completed"]
        /\ UNCHANGED <<id, stock, request, managerSigned>>
    BY <1>6, <2>1 DEF Complete
  <2> QED
    BY <1>2, <2>2, <2>3 DEF Ledger!Next, Ledger!Complete
<1>7. ASSUME NEW p \in Procs, RejectStatus(p)
      PROVE  Ledger!Next
  <2>1. PICK q \in RequestIds : q = arg[p] /\ status[q] # "none"
    BY <1>1, <1>7 DEF CallTyped, RejectStatus
  <2>2. /\ status' = [status EXCEPT ![q] = "rejected"]
        /\ UNCHANGED <<id, stock, request, managerSigned>>
    BY <1>7, <2>1 DEF RejectStatus, stockVars
  <2> QED
    BY <1>2, <2>1, <2>2 DEF Ledger!Next, Ledger!Reject
<1>8. ASSUME NEW p \in Procs, NEW q \in RequestIds, ArbitrateReject(p, q)
      PROVE  [Ledger!Next]_(Ledger!vars)
  <2>1. UNCHANGED <<id, stock, request, managerSigned>>
    BY <1>8 DEF ArbitrateReject, Turn, stockVars
  <2>2. CASE status[q] = "requested"
    <3>1. status' = [status EXCEPT ![q] = "rejected"]
      BY <1>8, <2>2 DEF ArbitrateReject
    <3> QED
      BY <1>2, <2>1, <2>2, <3>1 DEF Ledger!Next, Ledger!Reject
  <2>3. CASE status[q] # "requested"
    <3>1. UNCHANGED status
      BY <1>8, <2>3 DEF ArbitrateReject
    <3> QED
      BY <1>3, <2>1, <3>1
  <2> QED
    BY <2>2, <2>3
<1>9. ASSUME NEW p \in Procs,
             \/ Acquire(p) \/ ArbitrateSaveBack(p) \/ ArbitrateEnd(p) \/ RejectManager(p)
             \/ \E q \in RequestIds : ArbitrateSign(p, q) \/ ArbitrateSkip(p, q)
      PROVE  UNCHANGED Ledger!vars
  <2>1. UNCHANGED <<id, stock, request, status, managerSigned>>
    BY <1>9 DEF Acquire, SignBegin, EnterSign, SignRefuse, ArbitrateBegin,
       ArbitrateSaveBack, ArbitrateEnd, RejectManager, ArbitrateSign, ArbitrateSkip, Turn, stockVars, requestVars
  <2> QED
    BY <1>3, <2>1
<1> QED
  BY <1>4, <1>5, <1>6, <1>7, <1>8, <1>9 DEF Next, Proceed

\* Whoever sees only stock, requests and which of them were served cannot tell the
\* service from the atomic ledger: a request takes everything it asks for at once,
\* once, and only if each of its lines finds enough, for any goroutines, managers,
\* lists, rejections and registrations.
THEOREM ServiceImplementsLedger == Spec => ImplementsLedger
<1>1. Init => LedgerInv
  BY DEF Init, LedgerInv
<1>2. Init => Ledger!Init
  BY DEF Init, NoMaterials, Ledger!Init, StockLeft, AskedLines, Needs, SignedRequests
<1>3. TypeOK /\ LedgerInv /\ [Next]_vars => LedgerInv'
  BY LedgerInvNext
<1>4. TypeOK /\ StockInv /\ AccountInv /\ LedgerInv /\ [Next]_vars
      => [Ledger!Next]_(Ledger!vars)
  BY StepMaps
<1> QED
  BY <1>1, <1>2, <1>3, <1>4, TypeCorrect, StockAlways, AccountAlways, PTL
     DEF Spec, ImplementsLedger, Ledger!Spec
=============================================================================
