---------------------- MODULE ResourceRefinementProofs ----------------------
(***************************************************************************)
(* The resource service implements the abstract pool, for any goroutines,  *)
(* requests and resources: every visible step is one step of the pool.     *)
(***************************************************************************)
EXTENDS ResourceRefinement, ResourceServiceProofs

\* What the mapping needs of a state: a registered resource has a number of free
\* units or is lost count of, and a request that exists its resource and quantity.
LEMMA Mapped ==
  ASSUME TypeOK
  PROVE  /\ \A r \in ResourceIds :
              /\ FreeUnits[r] = None <=> resources[r] = None
              /\ resources[r] # None =>
                   FreeUnits[r] = IF RegisteredOnce(r)
                                  THEN capacity[resources[r]] - inUse[resources[r]] ELSE Lost
              /\ resources[r] # None => (FreeUnits[r] # Lost <=> RegisteredOnce(r))
         /\ \A q \in RequestIds : status[q] # "none" =>
              /\ request[q] \in Requests
              /\ Needs[q] = [resource |-> request[q].resource,
                             quantity |-> request[q].quantity]
              /\ request[q].resource \in ResourceIds
              /\ resources[request[q].resource] \in Objects
              /\ resources[request[q].resource] # None
              /\ request[q].quantity \in Nat
<1>1. ASSUME NEW r \in ResourceIds, resources[r] # None
      PROVE  capacity[resources[r]] - inUse[resources[r]] \in Int
  BY <1>1 DEF TypeOK, VarsTyped
<1>2. ASSUME NEW q \in RequestIds, status[q] # "none"
      PROVE  /\ request[q] \in Requests /\ request[q].resource \in ResourceIds
             /\ resources[request[q].resource] \in Objects
             /\ resources[request[q].resource] # None
             /\ request[q].quantity \in Nat
  BY <1>2, ResourceAssumption DEF TypeOK, VarsTyped, LookupsSucceed, Requests
<1>3. \A q \in RequestIds : request[q] \in Requests => request[q] # None
  BY LostAssumption
<1> QED
  BY <1>1, <1>2, <1>3, LostAssumption DEF FreeUnits, Needs, Available

\* A change of the count of one struct changes the free units of its resource
\* alone, if that resource has no other.
LEMMA FreeUnitsOfOne ==
  ASSUME TypeOK, NEW o \in Objects, NEW v \in Int, id[o] \in ResourceIds,
         inUse' = [inUse EXCEPT ![o] = v], Stores, UNCHANGED <<id, capacity, posted>>
  PROVE  /\ RegisteredOnce(id[o]) => resources[id[o]] = o
         /\ FreeUnits' = [FreeUnits EXCEPT ![id[o]] =
                            IF RegisteredOnce(id[o]) THEN capacity[o] - v ELSE Lost]
<1>1. /\ DOMAIN inUse = Objects /\ resources[id[o]] # None
      /\ \A r \in ResourceIds : resources[r] # None =>
           resources[r] \in Objects /\ id[resources[r]] = r
  BY ResourceAssumption DEF TypeOK, VarsTyped, LookupsSucceed
<1>2. RegisteredOnce(id[o]) => resources[id[o]] = o
  BY DEF RegisteredOnce
<1>3. \A r \in ResourceIds :
        /\ resources'[r] = None <=> resources[r] = None
        /\ RegisteredOnce(r)' <=> RegisteredOnce(r)
        /\ RegisteredOnce(r) => resources'[r] = resources[r]
  BY StoresOnly
<1>4. ASSUME NEW r \in ResourceIds
      PROVE  FreeUnits'[r] = IF r = id[o]
                             THEN IF RegisteredOnce(r) THEN capacity[o] - v ELSE Lost
                             ELSE FreeUnits[r]
  <2>1. CASE resources[r] = None
    BY <1>1, <1>3, <2>1 DEF FreeUnits
  <2>2. CASE resources[r] # None /\ ~RegisteredOnce(r)
    BY <1>3, <2>2 DEF FreeUnits
  <2>3. CASE resources[r] # None /\ RegisteredOnce(r)
    <3>1. FreeUnits'[r] = capacity[resources[r]] - inUse'[resources[r]]
      BY <1>3, <2>3 DEF FreeUnits, Available
    <3>2. FreeUnits[r] = capacity[resources[r]] - inUse[resources[r]]
      BY <2>3 DEF FreeUnits, Available
    <3>3. CASE r = id[o]
      BY <1>1, <1>2, <2>3, <3>1, <3>3
    <3>4. CASE r # id[o]
      BY <1>1, <2>3, <3>1, <3>2, <3>4
    <3> QED
      BY <3>3, <3>4
  <2> QED
    BY <2>1, <2>2, <2>3
<1>5. FreeUnits = [r \in ResourceIds |-> FreeUnits[r]]
      /\ FreeUnits' = [r \in ResourceIds |-> FreeUnits'[r]]
  BY DEF FreeUnits
<1> QED
  BY <1>2, <1>4, <1>5

\* A registration starts the count of a resource, or loses it.
LEMMA RegisterIsAPoolStep ==
  ASSUME TypeOK, NEW o \in Objects, NEW r0 \in ResourceIds,
         NEW c \in 0..MaxCapacity, NEW u \in PostedInUse,
         CreateResource(o, r0, c, u)
  PROVE  Pool!Next
<1>1. /\ id[o] = None /\ id' = [id EXCEPT ![o] = r0]
      /\ resources' = [resources EXCEPT ![r0] = o]
      /\ capacity' = [capacity EXCEPT ![o] = c]
      /\ inUse' = [inUse EXCEPT ![o] = u] /\ posted' = [posted EXCEPT ![o] = u]
      /\ UNCHANGED <<request, status>> /\ u \in Int /\ c \in Nat /\ c <= MaxCapacity
  BY ResourceAssumption DEF CreateResource, requestVars
<1>2. Needs' = Needs /\ status' = status
  BY <1>1 DEF Needs
<1>3. /\ \A x \in Objects : x # o => /\ id'[x] = id[x] /\ posted'[x] = posted[x]
                                     /\ inUse'[x] = inUse[x] /\ capacity'[x] = capacity[x]
      /\ \A x \in ResourceIds : x # r0 => resources'[x] = resources[x]
      /\ \A x \in ResourceIds : resources[x] # None => resources[x] \in Objects /\ id[resources[x]] = x
      /\ id'[o] = r0 /\ resources'[r0] = o /\ r0 # None /\ o # None
  BY <1>1, ResourceAssumption DEF TypeOK, VarsTyped, LookupsSucceed
<1>4. ASSUME NEW r \in ResourceIds, r # r0 PROVE FreeUnits'[r] = FreeUnits[r]
  <2>1. RegisteredOnce(r)' <=> RegisteredOnce(r)
    BY <1>1, <1>3, <1>4, ResourceAssumption DEF RegisteredOnce
  <2>2. resources'[r] = resources[r] /\ resources[r] # o
    BY <1>1, <1>3, <1>4, ResourceAssumption
  <2>3. resources[r] # None => Available(resources[r])' = Available(resources[r])
    BY <1>3, <2>2 DEF Available
  <2> QED
    BY <2>1, <2>2, <2>3 DEF FreeUnits
<1>5. /\ FreeUnits = [r \in ResourceIds |-> FreeUnits[r]]
      /\ FreeUnits' = [r \in ResourceIds |-> FreeUnits'[r]]
  BY DEF FreeUnits
<1>6. FreeUnits' = [FreeUnits EXCEPT ![r0] = FreeUnits'[r0]]
  BY <1>4, <1>5
<1>7. CASE RegisteredOnce(r0)'
  <2>1. /\ resources[r0] = None /\ resources'[r0] = o /\ inUse'[o] = u /\ u >= 0
        /\ capacity'[o] = c
    BY <1>7, RegisterOnly
  <2>2. FreeUnits[r0] = None /\ FreeUnits'[r0] = c - u
    BY <1>3, <1>7, <2>1 DEF FreeUnits, Available
  <2>3. FreeUnits'[r0] \in Int /\ FreeUnits'[r0] <= MaxCapacity
    BY <1>1, <2>1, <2>2, ResourceAssumption
  <2> QED
    BY <1>2, <1>6, <2>2, <2>3 DEF Pool!Next, Pool!Register
<1>8. CASE ~RegisteredOnce(r0)'
  <2>1. FreeUnits'[r0] = Lost
    BY <1>3, <1>8 DEF FreeUnits
  <2> QED
    BY <1>2, <1>6, <2>1 DEF Pool!Next, Pool!LoseCount
<1> QED
  BY <1>7, <1>8

LEMMA VisibleIsAPoolStep ==
  ASSUME TypeOK, UnitsConserved, Visible
  PROVE  [Pool!Next]_(Pool!vars)
<1> USE ResourceAssumption
<1>1. CASE Registers
  BY <1>1, RegisterIsAPoolStep DEF Registers
<1>2. ASSUME NEW q \in RequestIds, NEW r \in ResourceIds,
             NEW n \in 0..MaxQuantity, NEW pr \in Priorities, NEW t \in 0..MaxClock,
             RequestResource(q, r, n, pr, t)
      PROVE  Pool!Next
  <2> DEFINE rec == [resource |-> r, quantity |-> n, priority |-> pr, requestedAt |-> t]
  <2>1. /\ n \in 1..MaxQuantity /\ resources[r] # None /\ status[q] = "none"
        /\ UNCHANGED <<resources, id, capacity, inUse, posted>>
        /\ request' = [request EXCEPT ![q] = rec]
        /\ status' = [status EXCEPT ![q] = "pending"]
        /\ rec \in Requests
    BY <1>2 DEF RequestResource, Registered, unitVars, Requests
  <2>2. rec # None /\ rec.resource = r /\ rec.quantity = n
    BY <2>1, LostAssumption
  <2> HIDE DEF rec
  <2>3. Needs' = [Needs EXCEPT ![q] = [resource |-> r, quantity |-> n]]
    BY <2>1, <2>2 DEF Needs, TypeOK, VarsTyped
  <2>4. FreeUnits' = FreeUnits /\ FreeUnits[r] # None
    BY <2>1, Mapped DEF FreeUnits, Available, RegisteredOnce
  <2> QED
    BY <2>1, <2>3, <2>4 DEF Pool!Next, Pool!Submit
<1>3. ASSUME NEW q \in RequestIds, status[q] # "none",
             NEW r, r = request[q].resource
      PROVE  /\ Needs[q].resource = r /\ Needs[q].quantity = request[q].quantity
             /\ r \in ResourceIds /\ resources[r] # None /\ request[q].quantity \in Nat
             /\ Pool!Counted(r) <=> RegisteredOnce(r)
             /\ RegisteredOnce(r) => FreeUnits[r] = Available(resources[r])
  <2>1. /\ Needs[q] = [resource |-> r, quantity |-> request[q].quantity]
        /\ r \in ResourceIds /\ resources[r] # None /\ request[q].quantity \in Nat
    BY <1>3, Mapped
  <2>2. /\ FreeUnits[r] # Lost <=> RegisteredOnce(r)
        /\ RegisteredOnce(r) => FreeUnits[r] = Available(resources[r])
    BY <2>1, Mapped DEF Available
  <2> QED
    BY <2>1, <2>2 DEF Pool!Counted
<1>4. ASSUME NEW q \in RequestIds, Approves(q) PROVE Pool!Next
  <2>1. FreeUnits' = FreeUnits /\ Needs' = Needs
    BY <1>4 DEF Approves, FreeUnits, Needs, Available, RegisteredOnce
  <2> QED
    BY <1>4, <2>1 DEF Approves, Pool!Next, Pool!Approve
<1>5. ASSUME NEW q \in RequestIds, NEW o \in Objects, Refuses(q, o) PROVE Pool!Next
  <2>1. FreeUnits' = FreeUnits /\ Needs' = Needs
    BY <1>5 DEF Refuses, FreeUnits, Needs, Available, RegisteredOnce
  <2>2. RegisteredOnce(id[o]) => resources[id[o]] = o
    BY DEF RegisteredOnce
  <2> QED
    <3>1. status[q] = "approved" /\ status' = [status EXCEPT ![q] = "rejected"]
          /\ Available(o) < request[q].quantity /\ id[o] = request[q].resource
      BY <1>5 DEF Refuses
    <3>2. /\ Needs[q].resource = id[o] /\ Needs[q].quantity = request[q].quantity
          /\ Pool!Counted(id[o]) => FreeUnits[id[o]] = Available(o)
      BY <1>3, <2>2, <3>1
    <3>3. Pool!Refuse(q)
      BY <2>1, <3>1, <3>2 DEF Pool!Refuse
    <3> QED
      BY <3>3 DEF Pool!Next
<1>6. ASSUME NEW q \in RequestIds, NEW o \in Objects, Grants(q, o) \/ Returns(q, o)
      PROVE  Pool!Next
  <2> DEFINE n == request[q].quantity
  <2>1. /\ status[q] # "none" /\ Needs' = Needs /\ id[o] = request[q].resource
        /\ Stores /\ UNCHANGED <<id, capacity, posted>>
    BY <1>6 DEF Grants, Returns, Needs
  <2>2. /\ id[o] \in ResourceIds /\ n \in Int
        /\ Needs[q].resource = id[o] /\ Needs[q].quantity = n
        /\ Pool!Counted(id[o]) <=> RegisteredOnce(id[o])
        /\ RegisteredOnce(id[o]) => FreeUnits[id[o]] = Available(resources[id[o]])
    BY <1>3, <2>1
  <2>3. inUse[o] \in Int /\ capacity[o] \in Int
    BY DEF TypeOK, VarsTyped
  <2>4. CASE Grants(q, o)
    <3>1. inUse[o] + n \in Int /\ inUse' = [inUse EXCEPT ![o] = inUse[o] + n]
      BY <2>2, <2>3, <2>4 DEF Grants
    <3>2. /\ RegisteredOnce(id[o]) => resources[id[o]] = o
          /\ FreeUnits' = [FreeUnits EXCEPT ![id[o]] =
                 IF RegisteredOnce(id[o]) THEN capacity[o] - (inUse[o] + n) ELSE Lost]
      BY <2>1, <2>2, <3>1, FreeUnitsOfOne
    <3>3. RegisteredOnce(id[o]) => /\ capacity[o] - (inUse[o] + n) = FreeUnits[id[o]] - n
                                   /\ FreeUnits[id[o]] >= n
      BY <2>2, <2>3, <2>4, <3>2 DEF Grants, Available
    <3> HIDE DEF n
    <3>4. Pool!Grant(q)
      BY <2>1, <2>2, <2>4, <3>2, <3>3 DEF Grants, Pool!Grant
    <3> QED
      BY <3>4 DEF Pool!Next
  <2>5. CASE Returns(q, o)
    <3>1. /\ Returned(o, n) \in Int /\ inUse' = [inUse EXCEPT ![o] = Returned(o, n)]
      BY <2>2, <2>3, <2>5 DEF Returns, Returned
    <3>2. /\ RegisteredOnce(id[o]) => resources[id[o]] = o
          /\ FreeUnits' = [FreeUnits EXCEPT ![id[o]] =
                 IF RegisteredOnce(id[o]) THEN capacity[o] - Returned(o, n) ELSE Lost]
      BY <2>1, <2>2, <3>1, FreeUnitsOfOne
    <3>3. RegisteredOnce(id[o]) => Returned(o, n) = inUse[o] - n
      BY <2>1, <2>2, <2>3, <2>5, <3>2, HeldIsInUse DEF Returns, Returned
    <3>4. RegisteredOnce(id[o]) => capacity[o] - Returned(o, n) = FreeUnits[id[o]] + n
      BY <2>2, <2>3, <3>2, <3>3 DEF Available
    <3> HIDE DEF n
    <3>5. Pool!GiveBack(q)
      BY <2>1, <2>2, <2>5, <3>2, <3>4 DEF Returns, Pool!GiveBack
    <3> QED
      BY <3>5 DEF Pool!Next
  <2> QED
    BY <1>6, <2>4, <2>5
<1>7. CASE ShowsNothing
  <2>1. \A r \in ResourceIds :
          /\ resources'[r] = None <=> resources[r] = None
          /\ RegisteredOnce(r)' <=> RegisteredOnce(r)
          /\ RegisteredOnce(r) => resources'[r] = resources[r]
    BY <1>7, StoresOnly DEF ShowsNothing
  <2>2. FreeUnits' = FreeUnits /\ Needs' = Needs
    BY <1>7, <2>1 DEF ShowsNothing, FreeUnits, Needs, Available
  <2> QED
    BY <1>7, <2>2 DEF ShowsNothing, Pool!vars
<1> QED
  BY <1>1, <1>2, <1>4, <1>5, <1>6, <1>7 DEF Visible, Submits

\* Whoever sees only free units, requests and their stages cannot tell the
\* service from the atomic pool: for any number of goroutines, requests and
\* registrations, as long as approvals of one request do not overlap.
THEOREM ServiceImplementsPool ==
  ASSUME ~OverlappingApprovals
  PROVE  Spec => ImplementsPool
<1>1. Init => Pool!Init
  BY DEF Init, Pool!Init, FreeUnits, Needs
<1>2. /\ TypeOK /\ PoolInv /\ AloneInv /\ UnitsConserved /\ [Next]_vars
      => [Pool!Next]_(Pool!vars)
  BY StepsAreVisible, VisibleIsAPoolStep
<1> QED
  BY <1>1, <1>2, AloneAlways, UnitsAreConserved, PTL
     DEF Spec, ImplementsPool, Pool!Spec
=============================================================================
