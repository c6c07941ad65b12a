----------------------- MODULE ResourceServiceProofs -----------------------
(***************************************************************************)
(* Theorems about ResourceService, for any number of goroutines, requests  *)
(* and resources and any posted values.                                    *)
(***************************************************************************)
EXTENDS ResourceService, FiniteSetTheorems, TLAPS

-----------------------------------------------------------------------------
(* Type correctness.                                                       *)

LEMMA TypeInit == Init => TypeOK
<1> SUFFICES ASSUME Init PROVE TypeOK
  OBVIOUS
<1>1. clock \in 0..MaxClock
  BY ResourceAssumption DEF Init
<1>2. resources \in [ResourceIds -> Objects \cup {None}]
      /\ id \in [Objects -> ResourceIds \cup {None}]
      /\ capacity \in [Objects -> Nat] /\ inUse \in [Objects -> Int]
      /\ unitStatus \in [Objects -> {"available", "in_use"}]
      /\ posted \in [Objects -> Int]
  BY DEF Init
<1>3. request \in [RequestIds -> Requests \cup {None}]
      /\ status \in [RequestIds -> Statuses]
      /\ reviewedBy \in [RequestIds -> Actors \cup {None}]
  BY DEF Init, Statuses
<1> QED
  BY <1>1, <1>2, <1>3 DEF Init, TypeOK, VarsTyped, LookupsSucceed, CallTyped, ControlPoints, OnRequest, Inside

LEMMA TypeNext == TypeOK /\ [Next]_vars => TypeOK'
<1> SUFFICES ASSUME TypeOK, [Next]_vars PROVE TypeOK'
  OBVIOUS
<1> USE ResourceAssumption DEF ControlPoints, Statuses, OnRequest, Inside
<1>1. ASSUME NEW o \in Objects, NEW r \in ResourceIds,
             NEW c \in 0..MaxCapacity, NEW u \in PostedInUse,
             CreateResource(o, r, c, u)
      PROVE TypeOK'
  BY <1>1 DEF TypeOK, VarsTyped, LookupsSucceed, CallTyped, CreateResource, callVars, requestVars
<1>2. ASSUME NEW q \in RequestIds, NEW r \in ResourceIds,
             NEW n \in 0..MaxQuantity, NEW pr \in Priorities, NEW t \in 0..MaxClock,
             RequestResource(q, r, n, pr, t)
      PROVE TypeOK'
  BY <1>2 DEF TypeOK, VarsTyped, LookupsSucceed, CallTyped, RequestResource, Registered, callVars, unitVars, Requests
<1>3. ASSUME NEW p \in Procs, NEW q \in RequestIds, NEW d \in Actors,
             ApproveRequest(p, q, d)
      PROVE TypeOK'
  BY <1>3 DEF TypeOK, VarsTyped, LookupsSucceed, CallTyped, ApproveRequest, unitVars, requestVars
<1>4. ASSUME NEW p \in Procs, NEW q \in RequestIds,
             CallAllocate(p, q) \/ CallRelease(p, q)
      PROVE TypeOK'
  BY <1>4 DEF TypeOK, VarsTyped, LookupsSucceed, CallTyped, CallAllocate, CallRelease, Call, unitVars, requestVars
<1>5. ASSUME NEW p \in Procs, NEW r \in ResourceIds, CallArbitrate(p, r)
      PROVE TypeOK'
  BY <1>5 DEF TypeOK, VarsTyped, LookupsSucceed, CallTyped, CallArbitrate, Call, unitVars, requestVars
<1>6. ASSUME NEW p \in Procs, ApproveStatus(p)
      PROVE TypeOK'
  BY <1>6 DEF TypeOK, VarsTyped, LookupsSucceed, CallTyped, ApproveStatus, unitVars
<1>7. ASSUME NEW p \in Procs, ApproveReviewer(p)
      PROVE TypeOK'
  BY <1>7 DEF TypeOK, VarsTyped, LookupsSucceed, CallTyped, ApproveReviewer, Return, unitVars
<1>8. ASSUME NEW p \in Procs, AllocateBegin(p)
      PROVE TypeOK'
  BY <1>8 DEF TypeOK, VarsTyped, LookupsSucceed, CallTyped, AllocateBegin, Enter, unitVars, requestVars, Requests
<1>9. ASSUME NEW p \in Procs, AllocateRefuse(p) \/ ArbitrateUnknown(p) \/ ReleaseFail(p)
      PROVE TypeOK'
  <2>1. CASE AllocateRefuse(p)
    BY <2>1 DEF TypeOK, VarsTyped, LookupsSucceed, CallTyped, AllocateRefuse, Return, unitVars, requestVars
  <2>2. CASE ArbitrateUnknown(p)
    BY <2>2 DEF TypeOK, VarsTyped, LookupsSucceed, CallTyped, ArbitrateUnknown, Return, unitVars, requestVars
  <2>3. CASE ReleaseFail(p)
    BY <2>3 DEF TypeOK, VarsTyped, LookupsSucceed, CallTyped, ReleaseFail, Return, unitVars, requestVars
  <2> QED
    BY <1>9, <2>1, <2>2, <2>3
<1>10. ASSUME NEW p \in Procs, AllocateGrant(p)
       PROVE TypeOK'
  <2>1. /\ resources' = [resources EXCEPT ![id[obj[p]]] = obj[p]]
        /\ obj[p] \in Objects /\ id[obj[p]] \in ResourceIds
    BY <1>10 DEF TypeOK, VarsTyped, LookupsSucceed, CallTyped, AllocateGrant, SaveResource
  <2>2. /\ inUse' \in [Objects -> Int]
        /\ unitStatus' \in [Objects -> {"available", "in_use"}]
        /\ status' = [status EXCEPT ![arg[p]] = "allocated"]
    BY <1>10 DEF TypeOK, VarsTyped, LookupsSucceed, CallTyped, AllocateGrant, Allocate, Requests
  <2>3. VarsTyped'
    BY <1>10, <2>1, <2>2 DEF TypeOK, VarsTyped, AllocateGrant, UnlockAndReturn, Return
  <2>4. LookupsSucceed'
    BY <1>10, <2>1, <2>2 DEF TypeOK, VarsTyped, LookupsSucceed, CallTyped,
                            AllocateGrant
  <2>5. ASSUME NEW p2 \in Procs PROVE CallTyped(p2)'
    BY <1>10, <2>2 DEF TypeOK, VarsTyped, CallTyped, AllocateGrant, UnlockAndReturn, Return
  <2> QED
    BY <2>3, <2>4, <2>5 DEF TypeOK
<1>11. ASSUME NEW p \in Procs, AllocateReject(p)
       PROVE TypeOK'
  BY <1>11 DEF TypeOK, VarsTyped, LookupsSucceed, CallTyped, AllocateReject, Reject, UnlockAndReturn, Return
<1>12. ASSUME NEW p \in Procs, ArbitrateBegin(p)
       PROVE TypeOK'
  BY <1>12 DEF TypeOK, VarsTyped, LookupsSucceed, CallTyped, ArbitrateBegin, Enter, Registered, PendingRequests, unitVars, requestVars
<1>13. ASSUME NEW p \in Procs, NEW q \in RequestIds, ArbitrateGrant(p, q)
       PROVE TypeOK'
  BY <1>13 DEF TypeOK, VarsTyped, LookupsSucceed, CallTyped, ArbitrateGrant, ArbitrateNext, Allocate, Requests
<1>14. ASSUME NEW p \in Procs, NEW q \in RequestIds, ArbitrateReject(p, q)
       PROVE TypeOK'
  BY <1>14 DEF TypeOK, VarsTyped, LookupsSucceed, CallTyped, ArbitrateReject, ArbitrateNext, Reject
<1>15. ASSUME NEW p \in Procs, ArbitrateEnd(p)
       PROVE TypeOK'
  <2>1. /\ resources' = [resources EXCEPT ![id[obj[p]]] = obj[p]]
        /\ obj[p] \in Objects /\ id[obj[p]] \in ResourceIds
    BY <1>15 DEF TypeOK, VarsTyped, LookupsSucceed, CallTyped, ArbitrateEnd, SaveResource
  <2>2. VarsTyped'
    BY <1>15, <2>1 DEF TypeOK, VarsTyped, ArbitrateEnd, UnlockAndReturn, Return,
                       requestVars
  <2>3. LookupsSucceed'
    BY <1>15, <2>1 DEF TypeOK, VarsTyped, LookupsSucceed, ArbitrateEnd, requestVars
  <2>4. ASSUME NEW p2 \in Procs PROVE CallTyped(p2)'
    BY <1>15 DEF TypeOK, VarsTyped, CallTyped, ArbitrateEnd, UnlockAndReturn,
                 Return, requestVars
  <2> QED
    BY <2>2, <2>3, <2>4 DEF TypeOK
<1>16. ASSUME NEW p \in Procs, ReleaseBegin(p)
       PROVE TypeOK'
  BY <1>16 DEF TypeOK, VarsTyped, LookupsSucceed, CallTyped, ReleaseBegin, Enter, Releasable, unitVars, requestVars, Requests
<1>17. ASSUME NEW p \in Procs, ReleaseEnd(p)
       PROVE TypeOK'
  <2>1. /\ resources' = [resources EXCEPT ![id[obj[p]]] = obj[p]]
        /\ obj[p] \in Objects /\ id[obj[p]] \in ResourceIds
    BY <1>17 DEF TypeOK, VarsTyped, LookupsSucceed, CallTyped, ReleaseEnd, SaveResource
  <2>2. /\ inUse' \in [Objects -> Int]
        /\ unitStatus' \in [Objects -> {"available", "in_use"}]
        /\ status' = [status EXCEPT ![arg[p]] = "released"]
    BY <1>17 DEF TypeOK, VarsTyped, LookupsSucceed, CallTyped, ReleaseEnd, Release, Returned, Requests
  <2>3. VarsTyped'
    BY <1>17, <2>1, <2>2 DEF TypeOK, VarsTyped, ReleaseEnd, UnlockAndReturn, Return
  <2>4. LookupsSucceed'
    BY <1>17, <2>1, <2>2 DEF TypeOK, VarsTyped, LookupsSucceed, CallTyped,
                            ReleaseEnd
  <2>5. ASSUME NEW p2 \in Procs PROVE CallTyped(p2)'
    BY <1>17, <2>2 DEF TypeOK, VarsTyped, CallTyped, ReleaseEnd, UnlockAndReturn, Return
  <2> QED
    BY <2>3, <2>4, <2>5 DEF TypeOK
<1>18. ASSUME UNCHANGED vars PROVE TypeOK'
  BY <1>18 DEF TypeOK, VarsTyped, LookupsSucceed, CallTyped, vars
<1> QED
  BY <1>1, <1>2, <1>3, <1>4, <1>5, <1>6, <1>7, <1>8, <1>9, <1>10, <1>11, <1>12,
     <1>13, <1>14, <1>15, <1>16, <1>17, <1>18
     DEF Next, Clients, Acquire, Proceed

\* In every reachable state each call's locals, pointers and looked-up structs
\* are of the kind its control point needs; in particular a granted or released
\* request always finds its resource.
THEOREM TypeCorrect == Spec => []TypeOK
BY TypeInit, TypeNext, PTL DEF Spec

-----------------------------------------------------------------------------
(* Mutual exclusion.                                                       *)

LEMMA MutexInit == Init => Mutex
BY DEF Init, Mutex, Critical, Inside

LEMMA MutexNext == TypeOK /\ Mutex /\ [Next]_vars => Mutex'
<1> SUFFICES ASSUME TypeOK, Mutex, [Next]_vars PROVE Mutex'
  OBVIOUS
<1> USE DEF Mutex, Critical, Inside
<1>0. pc \in [Procs -> ControlPoints]
  BY DEF TypeOK, VarsTyped
\* Steps that leave the mutex alone and bring no call inside.
<1>1. CASE locked' = locked /\ Critical' \subseteq Critical
  BY <1>1
<1>2. ASSUME Clients PROVE Mutex'
  BY <1>0, <1>1, <1>2 DEF Clients, CreateResource, RequestResource, ApproveRequest,
    CallAllocate, CallArbitrate, CallRelease, Call, callVars
<1>3. ASSUME NEW p \in Procs, Acquire(p) PROVE Mutex'
  BY <1>0, <1>3 DEF Acquire, AllocateBegin, AllocateRefuse, ArbitrateBegin,
    ArbitrateUnknown, ReleaseBegin, ReleaseFail, Enter, Return
<1>4. ASSUME NEW p \in Procs, ApproveStatus(p) \/ ApproveReviewer(p) PROVE Mutex'
  BY <1>0, <1>1, <1>4 DEF ApproveStatus, ApproveReviewer, Return
<1>5. ASSUME NEW p \in Procs, NEW q \in RequestIds,
             ArbitrateGrant(p, q) \/ ArbitrateReject(p, q)
      PROVE Mutex'
  BY <1>1, <1>5 DEF ArbitrateGrant, ArbitrateReject, ArbitrateNext
\* Steps that unlock: the call that leaves was the only one inside.
<1>6. ASSUME NEW p \in Procs,
             AllocateGrant(p) \/ AllocateReject(p) \/ ArbitrateEnd(p) \/ ReleaseEnd(p)
      PROVE Mutex'
  <2>1. p \in Critical /\ pc' = [pc EXCEPT ![p] = "idle"]
    BY <1>0, <1>6 DEF AllocateGrant, AllocateReject, ArbitrateEnd, ReleaseEnd,
      UnlockAndReturn, Return
  <2> QED
    BY <1>0, <2>1
<1>7. CASE UNCHANGED vars
  BY <1>1, <1>7 DEF vars
<1> QED
  BY <1>2, <1>3, <1>4, <1>5, <1>6, <1>7 DEF Next, Proceed

\* The three locked operations exclude each other although the mutex keeps no
\* owner and a failed release leaves it held.
THEOREM MutualExclusion == Spec => []Mutex
BY TypeCorrect, MutexInit, MutexNext, PTL DEF Spec

\* No call enters a mutex that is held, and no call that is not inside unlocks it.
LEMMA LeakStays == TypeOK /\ LockLeaked /\ [Next]_vars => LockLeaked'
<1> SUFFICES ASSUME TypeOK, LockLeaked, [Next]_vars PROVE LockLeaked'
  OBVIOUS
<1>0. /\ pc \in [Procs -> ControlPoints] /\ locked = TRUE
      /\ \A p \in Procs : pc[p] \notin Inside
  BY DEF TypeOK, VarsTyped, LockLeaked, Critical
<1>1. ASSUME locked' = locked, \A p \in Procs : pc'[p] \notin Inside PROVE LockLeaked'
  BY <1>0, <1>1 DEF LockLeaked, Critical
<1>2. CASE Clients
  BY <1>0, <1>1, <1>2 DEF Clients, CreateResource, RequestResource, ApproveRequest,
    CallAllocate, CallArbitrate, CallRelease, Call, callVars, Inside
<1>3. ASSUME NEW p \in Procs PROVE ~Acquire(p)
  BY <1>0 DEF Acquire, AllocateBegin, AllocateRefuse, ArbitrateBegin, ArbitrateUnknown,
    ReleaseBegin, ReleaseFail
<1>4. ASSUME NEW p \in Procs, ApproveStatus(p) \/ ApproveReviewer(p) PROVE LockLeaked'
  BY <1>0, <1>1, <1>4 DEF ApproveStatus, ApproveReviewer, Return, Inside
<1>5. ASSUME NEW p \in Procs, Proceed(p) PROVE ApproveStatus(p) \/ ApproveReviewer(p)
  BY <1>0, <1>5 DEF Proceed, AllocateGrant, AllocateReject, ArbitrateGrant,
    ArbitrateReject, ArbitrateNext, ArbitrateEnd, ReleaseEnd, Inside
<1>6. CASE UNCHANGED vars
  BY <1>0, <1>1, <1>6 DEF vars
<1> QED
  BY <1>2, <1>3, <1>4, <1>5, <1>6 DEF Next

\* A mutex that a turned down release left held is held for ever: nothing that
\* any number of goroutines do frees it, and no call enters again.
THEOREM LeakNeverHeals == Spec => LeakIsForEver
BY TypeCorrect, LeakStays, PTL DEF Spec, LeakIsForEver

-----------------------------------------------------------------------------
(* Counting units.                                                         *)

\* The units of finitely many requests are finitely many.
LEMMA UnitsFinite ==
  ASSUME NEW S \in SUBSET RequestIds, NEW r
  PROVE  IsFiniteSet(UnitsOf(S, r)) /\ Cardinality(UnitsOf(S, r)) \in Nat
<1>1. IsFiniteSet(S)
  BY ResourceAssumption, FS_Subset
<1>2. IsFiniteSet(1..MaxQuantity)
  BY ResourceAssumption, FS_Interval
<1>3. IsFiniteSet(S \X (1..MaxQuantity))
  BY <1>1, <1>2, FS_Product
<1>4. UnitsOf(S, r) \in SUBSET (S \X (1..MaxQuantity))
  BY DEF UnitsOf
<1>5. IsFiniteSet(UnitsOf(S, r))
  BY <1>3, <1>4, FS_Subset
<1> QED
  BY <1>5, FS_CardinalityType

\* Fewer requests take no more units.
LEMMA UnitsMonotone ==
  ASSUME NEW T \in SUBSET RequestIds, NEW S \in SUBSET T, NEW r
  PROVE  Cardinality(UnitsOf(S, r)) <= Cardinality(UnitsOf(T, r))
<1>1. UnitsOf(S, r) \in SUBSET UnitsOf(T, r)
  BY DEF UnitsOf
<1> QED
  BY <1>1, UnitsFinite, FS_Subset

\* One more request on r takes its quantity of further units.
LEMMA UnitsAdd ==
  ASSUME NEW S \in SUBSET RequestIds, NEW q \in RequestIds \ S,
         NEW r, request[q] \in Requests, request[q].resource = r
  PROVE  Cardinality(UnitsOf(S \cup {q}, r)) =
           Cardinality(UnitsOf(S, r)) + request[q].quantity
<1> DEFINE n == request[q].quantity
           Q == {q} \X (1..n)
<1>1. n \in 1..MaxQuantity /\ MaxQuantity \in Nat
  BY ResourceAssumption DEF Requests
<1>2. UnitsOf(S \cup {q}, r) = UnitsOf(S, r) \cup Q
  <2>1. ASSUME NEW u \in UnitsOf(S \cup {q}, r) PROVE u \in UnitsOf(S, r) \cup Q
    BY <1>1, <2>1 DEF UnitsOf
  <2>2. ASSUME NEW u \in Q PROVE u \in UnitsOf(S \cup {q}, r)
    BY <1>1, <2>2 DEF UnitsOf
  <2>3. UnitsOf(S, r) \subseteq UnitsOf(S \cup {q}, r)
    BY DEF UnitsOf
  <2> QED
    BY <2>1, <2>2, <2>3
<1>3. UnitsOf(S, r) \cap Q = {}
  BY DEF UnitsOf
<1>4. IsFiniteSet(1..n) /\ Cardinality(1..n) = n
  <2>1. n \in Int /\ 1 \in Int /\ n >= 1
    BY <1>1
  <2>2. IsFiniteSet(1..n) /\ Cardinality(1..n) = IF 1 > n THEN 0 ELSE n - 1 + 1
    BY <2>1, FS_Interval
  <2> QED
    BY <2>1, <2>2
<1>5. IsFiniteSet({q}) /\ Cardinality({q}) = 1
  BY FS_Singleton
<1>6. IsFiniteSet(Q) /\ Cardinality(Q) = 1 * n
  <2> HIDE DEF n
  <2>1. IsFiniteSet({q} \X (1..n))
    BY <1>4, <1>5, FS_Product
  <2>2. Cardinality({q} \X (1..n)) = Cardinality({q}) * Cardinality(1..n)
    BY <1>4, <1>5, FS_Product
  <2> QED
    BY <1>4, <1>5, <2>1, <2>2
<1>7. Cardinality({}) = 0
  BY FS_EmptySet
<1> HIDE DEF n, Q
<1>8. Cardinality(UnitsOf(S, r) \cup Q) =
        Cardinality(UnitsOf(S, r)) + Cardinality(Q) - 0
  BY <1>3, <1>6, <1>7, UnitsFinite, FS_Union
<1>9. n \in Int /\ Cardinality(Q) = n
  BY <1>1, <1>6 DEF n
<1>10. Cardinality(UnitsOf(S, r)) \in Nat
  BY UnitsFinite
<1>11. Cardinality(UnitsOf(S \cup {q}, r)) = Cardinality(UnitsOf(S, r)) + n
  <2>1. Cardinality(UnitsOf(S \cup {q}, r)) = Cardinality(UnitsOf(S, r) \cup Q)
    BY <1>2
  <2>2. Cardinality(UnitsOf(S, r) \cup Q) = Cardinality(UnitsOf(S, r)) + n
    BY <1>8, <1>9, <1>10
  <2> QED
    BY <2>1, <2>2
<1> QED
  BY <1>11 DEF n

\* A request on another resource takes none of r's units.
LEMMA UnitsElsewhere ==
  ASSUME NEW S \in SUBSET RequestIds, NEW q \in RequestIds,
         NEW r, request[q].resource # r
  PROVE  UnitsOf(S \cup {q}, r) = UnitsOf(S, r) /\ UnitsOf(S \ {q}, r) = UnitsOf(S, r)
BY DEF UnitsOf

-----------------------------------------------------------------------------
(* The units a resource's structs count in use.                            *)

\* The numbers from lo to hi, on one struct, are as many units.
LEMMA UnitsStack ==
  ASSUME NEW o, NEW lo \in Int, NEW hi \in Int, lo <= hi + 1
  PROVE  /\ IsFiniteSet({o} \X (lo..hi))
         /\ Cardinality({o} \X (lo..hi)) = hi - lo + 1
<1>1. IsFiniteSet(lo..hi) /\ Cardinality(lo..hi) = hi - lo + 1
  <2>1. IsFiniteSet(lo..hi) /\ Cardinality(lo..hi) = IF lo > hi THEN 0 ELSE hi - lo + 1
    BY FS_Interval
  <2> QED
    BY <2>1
<1>2. IsFiniteSet({o}) /\ Cardinality({o}) = 1
  BY FS_Singleton
<1> DEFINE I == lo..hi
<1> HIDE DEF I
<1>3. IsFiniteSet({o} \X I) /\ Cardinality({o} \X I) = Cardinality({o}) * Cardinality(I)
  BY <1>1, <1>2, FS_Product DEF I
<1>4. Cardinality({o} \X I) = 1 * (hi - lo + 1)
  BY <1>1, <1>2, <1>3 DEF I
<1> QED
  BY <1>3, <1>4 DEF I

\* A unit is a struct registered under r and a number up to its capacity.
LEMMA UnitsEverAre ==
  ASSUME TypeOK, NEW r
  PROVE  \A u : u \in UnitsEver(r) <=>
           \E o \in Objects, k \in Int :
             u = <<o, k>> /\ id[o] = r /\ Least(o) < k /\ k <= capacity[o]
<1>1. \A o \in Objects : Least(o) \in Int /\ capacity[o] \in Int
  BY DEF TypeOK, VarsTyped, Least
<1>2. \A u : u \in UnitsEver(r) <=>
        \E o \in Objects : id[o] = r /\ u \in {o} \X ((Least(o) + 1)..capacity[o])
  BY DEF UnitsEver
<1>3. ASSUME NEW u, NEW o \in Objects
      PROVE  u \in {o} \X ((Least(o) + 1)..capacity[o]) <=>
               \E k \in Int : u = <<o, k>> /\ Least(o) < k /\ k <= capacity[o]
  BY <1>1
<1> QED
  BY <1>2, <1>3

LEMMA UsedFinite ==
  ASSUME NEW r, IsFiniteSet(UnitsEver(r))
  PROVE  /\ IsFiniteSet(UnitsUsed(r)) /\ Cardinality(UnitsUsed(r)) \in Nat
         /\ Cardinality(UnitsUsed(r)) <= Cardinality(UnitsEver(r))
         /\ Cardinality(UnitsEver(r)) \in Nat
<1>1. UnitsUsed(r) \in SUBSET UnitsEver(r)
  BY DEF UnitsUsed
<1> QED
  BY <1>1, FS_Subset, FS_CardinalityType

\* A struct counts in use the units it grants, out of those it had.
LEMMA UsedByGrant ==
  ASSUME TypeOK, \A x \in Objects : Least(x) <= inUse[x],
         NEW o \in Objects, NEW n \in Nat, Available(o) >= n,
         IsFiniteSet(UnitsEver(id[o])),
         inUse' = [inUse EXCEPT ![o] = inUse[o] + n], UNCHANGED <<id, capacity, posted>>
  PROVE  /\ Cardinality(UnitsUsed(id[o]))' = Cardinality(UnitsUsed(id[o])) + n
         /\ \A r : r # id[o] => UnitsUsed(r)' = UnitsUsed(r)
         /\ \A x \in Objects : (Least(x) <= inUse[x])'
<1> DEFINE r0 == id[o]
           U == UnitsUsed(r0)
           T == {o} \X ((inUse[o] + 1)..(inUse[o] + n))
<1>1. /\ \A x \in Objects : Least(x) \in Int /\ inUse[x] \in Int /\ capacity[x] \in Int
      /\ \A x \in Objects : inUse'[x] = IF x = o THEN inUse[o] + n ELSE inUse[x]
      /\ \A x \in Objects : Least(x)' = Least(x)
  BY DEF TypeOK, VarsTyped, Least
<1>2. \A r : UnitsEver(r)' = UnitsEver(r)
  BY DEF UnitsEver, Least
<1>3. inUse[o] + n <= capacity[o] /\ Least(o) <= inUse[o]
  BY <1>1 DEF Available
<1>4. UnitsUsed(r0)' = U \cup T
  <2>1. \A x \in Objects, k \in Int : <<x, k>> \in UnitsEver(r0) =>
          (k <= inUse'[x] <=> k <= inUse[x] \/ <<x, k>> \in T)
    BY <1>1
  <2>2. \A u \in UnitsEver(r0) : \E x \in Objects, k \in Int : u = <<x, k>>
    BY UnitsEverAre
  <2>3. T \subseteq UnitsEver(r0)
    BY <1>1, <1>3, UnitsEverAre
  <2>4. UnitsUsed(r0)' = {u \in UnitsEver(r0) : u[2] <= inUse'[u[1]]}
    BY <1>2 DEF UnitsUsed
  <2>5. U = {u \in UnitsEver(r0) : u[2] <= inUse[u[1]]}
    BY DEF UnitsUsed
  <2> HIDE DEF T, U, r0
  <2>6. ASSUME NEW u \in UnitsEver(r0)
        PROVE  u[2] <= inUse'[u[1]] <=> u[2] <= inUse[u[1]] \/ u \in T
    BY <2>1, <2>2
  <2> QED
    BY <2>3, <2>4, <2>5, <2>6
<1>5. U \cap T = {}
  BY <1>1 DEF UnitsUsed
<1>6. IsFiniteSet(T) /\ Cardinality(T) = n
  <2>1. inUse[o] + 1 \in Int /\ inUse[o] + n \in Int /\ inUse[o] + 1 <= inUse[o] + n + 1
    BY <1>1
  <2>2. IsFiniteSet(T) /\ Cardinality(T) = (inUse[o] + n) - (inUse[o] + 1) + 1
    BY <2>1, UnitsStack
  <2> QED
    BY <1>1, <2>2
<1>7. IsFiniteSet(U) /\ Cardinality(U) \in Nat
  BY UsedFinite
<1>8. Cardinality({}) = 0
  BY FS_EmptySet
<1>9. \A r : r # r0 => UnitsUsed(r)' = UnitsUsed(r)
  <2> SUFFICES ASSUME NEW r, r # r0 PROVE UnitsUsed(r)' = UnitsUsed(r)
    OBVIOUS
  <2>1. \A u \in UnitsEver(r) : u[1] # o /\ u[1] \in Objects
    BY UnitsEverAre
  <2> QED
    BY <1>1, <1>2, <2>1 DEF UnitsUsed
<1>10. \A x \in Objects : (Least(x) <= inUse[x])'
  BY <1>1
<1> HIDE DEF T, U
<1>11. Cardinality(U \cup T) = Cardinality(U) + n
  <2>1. Cardinality(U \cup T) = Cardinality(U) + Cardinality(T) - Cardinality(U \cap T)
    BY <1>6, <1>7, FS_Union
  <2>2. Cardinality(U \cap T) = 0
    BY <1>5, <1>8
  <2> QED
    BY <1>6, <1>7, <2>1, <2>2
<1> QED
  BY <1>4, <1>9, <1>10, <1>11 DEF U

\* A struct that is given n units back counts at most n fewer.
LEMMA UsedByReturn ==
  ASSUME TypeOK, \A x \in Objects : Least(x) <= inUse[x],
         NEW o \in Objects, NEW n \in Nat,
         IsFiniteSet(UnitsEver(id[o])),
         inUse' = [inUse EXCEPT ![o] = Returned(o, n)], UNCHANGED <<id, capacity, posted>>
  PROVE  /\ Cardinality(UnitsUsed(id[o])) <= Cardinality(UnitsUsed(id[o]))' + n
         /\ \A r : r # id[o] => UnitsUsed(r)' = UnitsUsed(r)
         /\ \A x \in Objects : (Least(x) <= inUse[x])'
<1> DEFINE r0 == id[o]
           U == UnitsUsed(r0)
           V == UnitsUsed(r0)'
           a == inUse[o] - n
           T == {o} \X ((a + 1)..(a + n))
<1>1. /\ \A x \in Objects : Least(x) \in Int /\ Least(x) <= 0 /\ inUse[x] \in Int
      /\ \A x \in Objects : inUse'[x] = IF x = o THEN Returned(o, n) ELSE inUse[x]
      /\ \A x \in Objects : Least(x)' = Least(x)
  BY DEF TypeOK, VarsTyped, Least
<1>2. \A r : UnitsEver(r)' = UnitsEver(r)
  BY DEF UnitsEver, Least
<1>3. a \in Int /\ Returned(o, n) \in Int /\ Returned(o, n) >= a /\ Returned(o, n) >= 0
  BY <1>1 DEF Returned
<1>4. U \subseteq V \cup T
  <2> SUFFICES ASSUME NEW u \in UnitsEver(r0), u[2] <= inUse[u[1]], u \notin T
               PROVE  u[2] <= inUse'[u[1]]
    BY <1>2 DEF UnitsUsed
  <2>1. PICK x \in Objects, k \in Int : u = <<x, k>>
    BY UnitsEverAre
  <2> QED
    BY <1>1, <1>3, <2>1
<1>5. IsFiniteSet(T) /\ Cardinality(T) = n
  <2> HIDE DEF a
  <2>1. a + 1 \in Int /\ a + n \in Int /\ a + 1 <= a + n + 1
    BY <1>3
  <2>2. IsFiniteSet(T) /\ Cardinality(T) = (a + n) - (a + 1) + 1
    BY <2>1, UnitsStack
  <2> QED
    BY <1>3, <2>2
<1>6. IsFiniteSet(U) /\ Cardinality(U) \in Nat
  BY UsedFinite
<1>7. IsFiniteSet(V) /\ Cardinality(V) \in Nat
  <2>1. V \in SUBSET UnitsEver(r0)
    BY <1>2 DEF UnitsUsed
  <2> HIDE DEF V
  <2> QED
    BY <2>1, FS_Subset, FS_CardinalityType
<1>8. \A r : r # r0 => UnitsUsed(r)' = UnitsUsed(r)
  <2> SUFFICES ASSUME NEW r, r # r0 PROVE UnitsUsed(r)' = UnitsUsed(r)
    OBVIOUS
  <2>1. \A u \in UnitsEver(r) : u[1] # o /\ u[1] \in Objects
    BY UnitsEverAre
  <2> QED
    BY <1>1, <1>2, <2>1 DEF UnitsUsed
<1>9. \A x \in Objects : (Least(x) <= inUse[x])'
  BY <1>1, <1>3
<1> HIDE DEF T, U, V
<1>10. Cardinality(U) <= Cardinality(V) + n
  <2>1. /\ IsFiniteSet(V \cup T) /\ IsFiniteSet(V \cap T)
        /\ Cardinality(V \cup T) = Cardinality(V) + n - Cardinality(V \cap T)
    BY <1>5, <1>7, FS_Union, FS_Subset
  <2>2. Cardinality(V \cap T) \in Nat /\ Cardinality(V \cup T) \in Nat
    BY <2>1, FS_CardinalityType
  <2>3. Cardinality(U) <= Cardinality(V \cup T)
    BY <1>4, <2>1, FS_Subset
  <2> QED
    BY <1>6, <1>7, <2>1, <2>2, <2>3
<1> QED
  BY <1>8, <1>9, <1>10 DEF U, V

-----------------------------------------------------------------------------
(* No over-allocation.                                                     *)

\* Units stay covered when no request starts to hold any and no count changes.
LEMMA CoverStays ==
  ASSUME TypeOK, PoolInv, UNCHANGED <<id, capacity, inUse, posted>>,
         Holding' \subseteq Holding, \A q \in Holding : request'[q] = request[q],
         NEW r \in ResourceIds
  PROVE  UnitsCovered(r)'
<1>1. Holding \in SUBSET RequestIds /\ Holding' \in SUBSET Holding
  BY DEF Holding
<1>2. UnitsOf(Holding, r)' = UnitsOf(Holding', r)
  BY <1>1 DEF UnitsOf
<1>3. /\ Cardinality(UnitsOf(Holding', r)) <= Cardinality(UnitsOf(Holding, r))
      /\ Cardinality(UnitsOf(Holding', r)) \in Nat
      /\ Cardinality(UnitsOf(Holding, r)) \in Nat
  BY <1>1, UnitsMonotone, UnitsFinite
<1>4. UnitsEver(r)' = UnitsEver(r) /\ UnitsUsed(r)' = UnitsUsed(r)
  BY DEF UnitsUsed, UnitsEver, Least
<1>5. UnitsCovered(r)
  BY DEF PoolInv
<1>6. Cardinality(UnitsUsed(r)) \in Nat
  BY <1>5, UsedFinite DEF UnitsCovered
<1> QED
  BY <1>2, <1>3, <1>4, <1>5, <1>6 DEF UnitsCovered

\* Units stay covered when q is granted its quantity of what is available.
LEMMA CoverGrant ==
  ASSUME TypeOK, PoolInv, NEW q \in RequestIds, q \notin Holding,
         status[q] # "none", NEW o \in Objects, id[o] = request[q].resource,
         Available(o) >= request[q].quantity,
         inUse' = [inUse EXCEPT ![o] = @ + request[q].quantity],
         UNCHANGED <<id, capacity, posted, request>>,
         Holding' = Holding \cup {q}
  PROVE  /\ \A x \in Objects : (Least(x) <= inUse[x])'
         /\ \A r \in ResourceIds : UnitsCovered(r)'
<1> DEFINE n == request[q].quantity
<1>1. Holding \in SUBSET RequestIds /\ q \in RequestIds \ Holding
  BY DEF Holding
<1>2. /\ request[q] \in Requests /\ request[q].resource \in ResourceIds /\ n \in Nat
      /\ inUse' = [inUse EXCEPT ![o] = inUse[o] + n]
  BY ResourceAssumption DEF TypeOK, VarsTyped, LookupsSucceed, Requests
<1>3. \A r \in ResourceIds : UnitsCovered(r) /\ IsFiniteSet(UnitsEver(r))
  BY DEF PoolInv, UnitsCovered
<1>4. /\ Cardinality(UnitsUsed(id[o]))' = Cardinality(UnitsUsed(id[o])) + n
      /\ \A r : r # id[o] => UnitsUsed(r)' = UnitsUsed(r)
      /\ \A x \in Objects : (Least(x) <= inUse[x])'
  <2>1. \A x \in Objects : Least(x) <= inUse[x]
    BY DEF PoolInv
  <2>2. Available(o) >= n
    OBVIOUS
  <2> HIDE DEF n
  <2> QED
    BY <1>2, <1>3, <2>1, <2>2, UsedByGrant
<1>5. ASSUME NEW r \in ResourceIds PROVE UnitsCovered(r)'
  <2>1. /\ UnitsOf(Holding, r)' = UnitsOf(Holding \cup {q}, r)
        /\ UnitsEver(r)' = UnitsEver(r)
    BY DEF UnitsOf, UnitsEver, Least
  <2>2. Cardinality(UnitsOf(Holding, r)) \in Nat /\ Cardinality(UnitsUsed(r)) \in Nat
    BY <1>1, <1>3, UnitsFinite, UsedFinite
  <2>3. CASE r = id[o]
    <3>1. Cardinality(UnitsOf(Holding \cup {q}, r)) = Cardinality(UnitsOf(Holding, r)) + n
      BY <1>1, <1>2, <2>3, UnitsAdd
    <3>2. Cardinality(UnitsUsed(r)') = Cardinality(UnitsUsed(r)) + n
      BY <1>4, <2>3
    <3> HIDE DEF n
    <3> QED
      BY <1>2, <1>3, <2>1, <2>2, <3>1, <3>2 DEF UnitsCovered
  <2>4. CASE r # id[o]
    <3>1. UnitsOf(Holding \cup {q}, r) = UnitsOf(Holding, r)
      BY <1>1, <2>4, UnitsElsewhere
    <3> QED
      BY <1>3, <1>4, <2>1, <2>4, <3>1 DEF UnitsCovered
  <2> QED
    BY <2>3, <2>4
<1> QED
  BY <1>4, <1>5

\* Units stay covered when q gives its quantity back, to whichever struct.
LEMMA CoverReturn ==
  ASSUME TypeOK, PoolInv, NEW q \in Holding, status[q] # "none",
         NEW o \in Objects, id[o] = request[q].resource,
         inUse' = [inUse EXCEPT ![o] = Returned(o, request[q].quantity)],
         UNCHANGED <<id, capacity, posted, request>>,
         Holding' = Holding \ {q}
  PROVE  /\ \A x \in Objects : (Least(x) <= inUse[x])'
         /\ \A r \in ResourceIds : UnitsCovered(r)'
<1> DEFINE n == request[q].quantity
<1>1. /\ Holding \in SUBSET RequestIds /\ Holding \ {q} \in SUBSET RequestIds
      /\ q \in RequestIds \ (Holding \ {q}) /\ Holding = (Holding \ {q}) \cup {q}
  BY DEF Holding
<1>2. request[q] \in Requests /\ request[q].resource \in ResourceIds /\ n \in Nat
  BY <1>1, ResourceAssumption DEF TypeOK, VarsTyped, LookupsSucceed, Requests
<1>3. \A r \in ResourceIds : UnitsCovered(r) /\ IsFiniteSet(UnitsEver(r))
  BY DEF PoolInv, UnitsCovered
<1>4. /\ Cardinality(UnitsUsed(id[o])) <= Cardinality(UnitsUsed(id[o]))' + n
      /\ \A r : r # id[o] => UnitsUsed(r)' = UnitsUsed(r)
      /\ \A x \in Objects : (Least(x) <= inUse[x])'
  <2>1. \A x \in Objects : Least(x) <= inUse[x]
    BY DEF PoolInv
  <2>2. inUse' = [inUse EXCEPT ![o] = Returned(o, n)]
    OBVIOUS
  <2> HIDE DEF n
  <2> QED
    BY <1>2, <1>3, <2>1, <2>2, UsedByReturn
<1>5. ASSUME NEW r \in ResourceIds PROVE UnitsCovered(r)'
  <2>1. /\ UnitsOf(Holding, r)' = UnitsOf(Holding \ {q}, r)
        /\ UnitsEver(r)' = UnitsEver(r)
    BY DEF UnitsOf, UnitsEver, Least
  <2>2. /\ Cardinality(UnitsOf(Holding, r)) \in Nat /\ Cardinality(UnitsOf(Holding \ {q}, r)) \in Nat
        /\ Cardinality(UnitsUsed(r)) \in Nat
    BY <1>1, <1>3, UnitsFinite, UsedFinite
  <2>3. CASE r = id[o]
    <3>1. Cardinality(UnitsOf(Holding, r)) = Cardinality(UnitsOf(Holding \ {q}, r)) + n
      <4>1. Cardinality(UnitsOf((Holding \ {q}) \cup {q}, r))
              = Cardinality(UnitsOf(Holding \ {q}, r)) + n
        BY <1>1, <1>2, <2>3, UnitsAdd
      <4> QED
        BY <1>1, <4>1
    <3>2. Cardinality(UnitsUsed(r)) <= Cardinality(UnitsUsed(r)') + n
      BY <1>4, <2>3
    <3>3. Cardinality(UnitsUsed(r)') \in Nat
      <4>1. UnitsUsed(r)' \in SUBSET UnitsEver(r)
        BY <2>1 DEF UnitsUsed
      <4> QED
        BY <1>3, <4>1, FS_Subset, FS_CardinalityType
    <3>4. Cardinality(UnitsOf(Holding, r)) <= Cardinality(UnitsUsed(r))
      BY <1>3 DEF UnitsCovered
    <3> HIDE DEF n
    <3>5. Cardinality(UnitsOf(Holding \ {q}, r)) <= Cardinality(UnitsUsed(r)')
      BY <1>2, <2>2, <3>1, <3>2, <3>3, <3>4
    <3> QED
      BY <1>3, <2>1, <3>5 DEF UnitsCovered
  <2>4. CASE r # id[o]
    <3>1. UnitsOf(Holding \ {q}, r) = UnitsOf(Holding, r)
      BY <1>1, <2>4, UnitsElsewhere DEF UnitsOf
    <3> QED
      BY <1>3, <1>4, <2>1, <2>4, <3>1 DEF UnitsCovered
  <2> QED
    BY <2>3, <2>4
<1> QED
  BY <1>4, <1>5

\* A registration brings units of its own and uses up none of the others.
LEMMA CoverRegister ==
  ASSUME TypeOK, PoolInv, NEW o \in Objects, NEW r \in ResourceIds,
         NEW c \in 0..MaxCapacity, NEW u \in PostedInUse,
         CreateResource(o, r, c, u), NEW x \in ResourceIds
  PROVE  UnitsCovered(x)'
<1> DEFINE l == IF u < 0 THEN u ELSE 0
           T == {o} \X ((l + 1)..c)
<1>1. /\ id[o] = None /\ id' = [id EXCEPT ![o] = r]
      /\ capacity' = [capacity EXCEPT ![o] = c]
      /\ inUse' = [inUse EXCEPT ![o] = u] /\ posted' = [posted EXCEPT ![o] = u]
      /\ UNCHANGED <<pc, arg, request, status>>
      /\ c \in Int /\ u \in Int /\ l \in Int /\ l <= 0 /\ c > 0
  BY ResourceAssumption DEF CreateResource, callVars, requestVars
<1>2. \A y \in Objects : y # o => Least(y)' = Least(y)
  BY <1>1 DEF Least, TypeOK, VarsTyped
<1>3. Least(o)' = l
  BY <1>1 DEF Least, TypeOK, VarsTyped
<1>4. UnitsOf(Holding, x)' = UnitsOf(Holding, x)
  BY <1>1 DEF Holding, UnitsOf
<1>5. UnitsCovered(x)
  BY DEF PoolInv
<1>6. id[o] # x
  BY <1>1, ResourceAssumption
<1>7. UnitsEver(x) \subseteq UnitsEver(x)' /\ UnitsEver(x)' \subseteq UnitsEver(x) \cup T
  <2> DEFINE N(y) == {y} \X ((Least(y) + 1)..capacity[y])
  <2>1. \A y \in Objects : y # o => N(y)' = N(y) /\ id'[y] = id[y]
    BY <1>1, <1>2 DEF TypeOK, VarsTyped
  <2>2. N(o)' = T
    BY <1>1, <1>3 DEF TypeOK, VarsTyped
  <2>3. \A k : k \in UnitsEver(x) <=> \E y \in Objects : id[y] = x /\ k \in N(y)
    BY DEF UnitsEver
  <2>4. \A k : k \in UnitsEver(x)' <=> \E y \in Objects : id'[y] = x /\ k \in N(y)'
    BY DEF UnitsEver
  <2> HIDE DEF N, T
  <2> QED
    BY <1>6, <2>1, <2>2, <2>3, <2>4
<1>8. IsFiniteSet(UnitsEver(x)')
  <2>1. IsFiniteSet(T)
    <3>1. l + 1 \in Int /\ c \in Int /\ l + 1 <= c + 1
      BY <1>1
    <3> HIDE DEF l
    <3> QED
      BY <3>1, UnitsStack
  <2>2. IsFiniteSet(UnitsEver(x) \cup T)
    BY <1>5, <2>1, FS_Union DEF UnitsCovered
  <2> QED
    BY <1>7, <2>2, FS_Subset
<1>9. Cardinality(UnitsUsed(x)) <= Cardinality(UnitsUsed(x)')
      /\ Cardinality(UnitsUsed(x)') \in Nat
  <2>1. \A k \in UnitsEver(x) : k[1] \in Objects /\ k[1] # o
    BY <1>6, UnitsEverAre
  <2>2. UnitsUsed(x) \in SUBSET UnitsUsed(x)'
    BY <1>1, <1>7, <2>1 DEF UnitsUsed, TypeOK, VarsTyped
  <2>3. UnitsUsed(x)' \in SUBSET UnitsEver(x)'
    BY DEF UnitsUsed
  <2>4. IsFiniteSet(UnitsUsed(x)')
    BY <1>8, <2>3, FS_Subset
  <2> QED
    BY <2>2, <2>4, FS_Subset, FS_CardinalityType
<1>10. Cardinality(UnitsOf(Holding, x)) \in Nat /\ Cardinality(UnitsUsed(x)) \in Nat
  BY <1>5, UnitsFinite, UsedFinite DEF Holding, UnitsCovered
<1> QED
  BY <1>4, <1>5, <1>8, <1>9, <1>10 DEF UnitsCovered

LEMMA PoolInit == Init => PoolInv
<1> SUFFICES ASSUME Init PROVE PoolInv
  OBVIOUS
<1>1. \A o \in Objects : Least(o) <= inUse[o]
  BY DEF Init, Least
<1>2. \A p \in Procs : CallCurrent(p)
  BY DEF Init, CallCurrent
<1>3. ASSUME NEW r \in ResourceIds PROVE UnitsCovered(r)
  <2>1. UnitsEver(r) = {} /\ UnitsUsed(r) = {} /\ UnitsOf(Holding, r) = {}
    BY ResourceAssumption DEF Init, UnitsEver, UnitsUsed, UnitsOf, Holding
  <2> QED
    BY <2>1, FS_EmptySet DEF UnitsCovered
<1> QED
  BY <1>1, <1>2, <1>3 DEF PoolInv

\* Steps that change no count and start no holding.
LEMMA PoolStays ==
  ASSUME TypeOK, PoolInv,
         UNCHANGED <<id, capacity, inUse, posted>>, Holding' \subseteq Holding,
         \A q \in Holding : request'[q] = request[q],
         \A p \in Procs : CallCurrent(p)'
  PROVE  PoolInv'
<1>1. \A r \in ResourceIds : UnitsCovered(r)'
  BY CoverStays
<1>2. \A o \in Objects : (Least(o) <= inUse[o])'
  BY DEF PoolInv, Least
<1> QED
  BY <1>1, <1>2 DEF PoolInv

LEMMA PoolNext ==
  ASSUME TypeOK, Mutex, PoolInv, [Next]_vars
  PROVE  PoolInv'
<1> USE ResourceAssumption
<1>0. /\ pc \in [Procs -> ControlPoints]
      /\ status \in [RequestIds -> Statuses]
      /\ \A p \in Procs : CallTyped(p) /\ CallCurrent(p)
      /\ \A q \in Holding : q \in RequestIds /\ status[q] # "none"
  BY DEF TypeOK, VarsTyped, PoolInv, Holding, CallTyped
<1>1. ASSUME NEW o \in Objects, NEW r \in ResourceIds,
             NEW c \in 0..MaxCapacity, NEW u \in PostedInUse,
             CreateResource(o, r, c, u)
      PROVE  PoolInv'
  <2>1. \A x \in Objects : (Least(x) <= inUse[x])'
    BY <1>1 DEF CreateResource, Least, PoolInv, TypeOK, VarsTyped
  <2>2. ASSUME NEW p \in Procs PROVE CallCurrent(p)'
    <3>1. UNCHANGED <<pc, arg, obj, todo, request, status>>
          /\ id[o] = None /\ id' = [id EXCEPT ![o] = r]
      BY <1>1 DEF CreateResource, callVars, requestVars
    <3> QED
      BY <1>0, <3>1 DEF CallCurrent, CallTyped, TypeOK, VarsTyped, Inside
  <2> QED
    BY <1>1, <2>1, <2>2, CoverRegister DEF PoolInv
<1>2. ASSUME NEW q \in RequestIds, NEW r \in ResourceIds,
             NEW n \in 0..MaxQuantity, NEW pr \in Priorities, NEW t \in 0..MaxClock,
             RequestResource(q, r, n, pr, t)
      PROVE  PoolInv'
  <2>1. Holding' = Holding /\ \A x \in RequestIds : x # q => request'[x] = request[x]
    BY <1>0, <1>2 DEF RequestResource, callVars, Holding, TypeOK, VarsTyped
  <2>2. ASSUME NEW p \in Procs PROVE CallCurrent(p)'
    BY <1>0, <1>2, <2>1
       DEF RequestResource, callVars, unitVars, CallCurrent, CallTyped, OnRequest,
           Inside, TypeOK, VarsTyped
  <2>3. \A x \in Holding : request'[x] = request[x]
    BY <1>0, <1>2, <2>1 DEF RequestResource
  <2> QED
    BY <1>2, <2>1, <2>2, <2>3, PoolStays DEF RequestResource, unitVars
<1>3. ASSUME NEW p \in Procs, NEW q \in RequestIds, NEW d \in Actors,
             ApproveRequest(p, q, d)
      PROVE  PoolInv'
  <2>1. /\ Holding' = Holding
        /\ UNCHANGED <<unitVars, requestVars>>
        /\ \A x \in Procs : CallCurrent(x)'
    BY <1>0, <1>3 DEF ApproveRequest, Holding, unitVars, requestVars, CallCurrent
  <2> QED
    BY <2>1, PoolStays DEF unitVars, requestVars
<1>4. ASSUME NEW p \in Procs, NEW op \in {"allocate", "arbitrate", "release"}, NEW a,
             Call(p, op, a)
      PROVE  PoolInv'
  <2>1. /\ Holding' = Holding
        /\ UNCHANGED <<unitVars, requestVars>>
        /\ \A x \in Procs : CallCurrent(x)'
    BY <1>0, <1>4 DEF Call, Holding, unitVars, requestVars, CallCurrent
  <2> QED
    BY <2>1, PoolStays DEF unitVars, requestVars
<1>5. ASSUME NEW p \in Procs, ApproveStatus(p) PROVE PoolInv'
  <2>1. arg[p] \in RequestIds
    BY <1>0, <1>5 DEF ApproveStatus, CallTyped, OnRequest
  <2>2. Holding' \subseteq Holding
    BY <1>0, <1>5, <2>1 DEF ApproveStatus, Holding
  <2>3. ASSUME NEW x \in Procs PROVE CallCurrent(x)'
    BY <1>0, <1>5, <2>1
       DEF ApproveStatus, CallCurrent, CallTyped, OnRequest, unitVars, TypeOK, VarsTyped
  <2> QED
    BY <1>5, <2>2, <2>3, PoolStays DEF ApproveStatus, unitVars
<1>6. ASSUME NEW p \in Procs,
             ApproveReviewer(p) \/ AllocateRefuse(p) \/ ArbitrateUnknown(p) \/ ReleaseFail(p)
      PROVE  PoolInv'
  <2>1. /\ UNCHANGED <<unitVars, request, status>> /\ Return(p)
        /\ pc[p] \notin Inside
    BY <1>6 DEF ApproveReviewer, AllocateRefuse, ArbitrateUnknown, ReleaseFail,
       requestVars, Inside
  <2>2. Holding' \subseteq Holding
    BY <1>0, <2>1 DEF Return, Holding, TypeOK, VarsTyped
  <2>3. ASSUME NEW x \in Procs PROVE CallCurrent(x)'
    BY <1>0, <2>1 DEF Return, CallCurrent, TypeOK, VarsTyped, unitVars
  <2> QED
    BY <2>1, <2>2, <2>3, PoolStays DEF unitVars
<1>7. ASSUME NEW p \in Procs, AllocateBegin(p) \/ ReleaseBegin(p) PROVE PoolInv'
  <2>1. Holding' \subseteq Holding
    BY <1>0, <1>7 DEF AllocateBegin, ReleaseBegin, Enter, Releasable, Holding, requestVars, CallTyped,
       OnRequest, TypeOK, VarsTyped
  <2>2. ASSUME NEW x \in Procs PROVE CallCurrent(x)'
    BY <1>0, <1>7 DEF AllocateBegin, ReleaseBegin, Enter, Releasable, CallCurrent, CallTyped,
       OnRequest, TypeOK, VarsTyped, LookupsSucceed, Requests, requestVars, unitVars
  <2> QED
    BY <1>7, <2>1, <2>2, PoolStays DEF AllocateBegin, ReleaseBegin, Enter, unitVars, requestVars
<1>8. ASSUME NEW p \in Procs, ArbitrateBegin(p) PROVE PoolInv'
  <2>1. Holding' \subseteq Holding
    BY <1>0, <1>8 DEF ArbitrateBegin, Enter, Registered, Holding, requestVars
  <2>2. ASSUME NEW x \in Procs PROVE CallCurrent(x)'
    BY <1>0, <1>8 DEF ArbitrateBegin, Enter, Registered, PendingRequests, CallCurrent, CallTyped,
       TypeOK, VarsTyped, LookupsSucceed, requestVars, unitVars
  <2> QED
    BY <1>8, <2>1, <2>2, PoolStays DEF ArbitrateBegin, Enter, unitVars, requestVars
\* Inside the mutex: every other call is outside.
<1>9. ASSUME NEW p \in Procs, pc[p] \in Inside
      PROVE  \A x \in Procs : x # p => pc[x] \notin Inside /\ todo[x] = {}
  BY <1>0, <1>9 DEF Mutex, Critical, Inside, CallCurrent
<1>10. ASSUME NEW p \in Procs, AllocateGrant(p) PROVE PoolInv'
  <2>1. /\ pc[p] \in Inside /\ arg[p] \in RequestIds /\ status[arg[p]] = "approved"
        /\ id[obj[p]] = request[arg[p]].resource /\ obj[p] \in Objects
    BY <1>0, <1>10 DEF AllocateGrant, CallTyped, CallCurrent, OnRequest, Inside
  <2>2. arg[p] \notin Holding
    BY <1>9, <1>10, <2>1 DEF Holding, Inside, AllocateGrant
  <2>3. Holding' = Holding \cup {arg[p]}
    BY <1>0, <1>9, <1>10, <2>1 DEF AllocateGrant, Allocate, UnlockAndReturn, Return,
       Holding, Inside
  <2>4. /\ \A x \in Objects : (Least(x) <= inUse[x])'
        /\ \A r \in ResourceIds : UnitsCovered(r)'
    BY <1>10, <2>1, <2>2, <2>3, CoverGrant DEF AllocateGrant, Allocate
  <2>5. ASSUME NEW x \in Procs PROVE CallCurrent(x)'
    BY <1>0, <1>9, <1>10, <2>1 DEF AllocateGrant, UnlockAndReturn, Return, CallCurrent,
       Inside, TypeOK, VarsTyped
  <2> QED
    BY <2>4, <2>5 DEF PoolInv
<1>11. ASSUME NEW p \in Procs, AllocateReject(p) PROVE PoolInv'
  <2>1. pc[p] \in Inside /\ arg[p] \in RequestIds
    BY <1>0, <1>11 DEF AllocateReject, CallTyped, OnRequest, Inside
  <2>2. Holding' \subseteq Holding
    BY <1>0, <1>9, <1>11, <2>1 DEF AllocateReject, Reject, UnlockAndReturn, Return,
       Holding
  <2>3. ASSUME NEW x \in Procs PROVE CallCurrent(x)'
    BY <1>0, <1>9, <1>11, <2>1 DEF AllocateReject, UnlockAndReturn, Return, CallCurrent,
       Inside, TypeOK, VarsTyped
  <2> QED
    BY <1>11, <2>2, <2>3, PoolStays DEF AllocateReject, Reject
<1>12. ASSUME NEW p \in Procs, NEW q \in RequestIds, ArbitrateNext(p, q)
       PROVE  /\ pc[p] \in Inside /\ arg[p] \in ResourceIds /\ status[q] = "approved"
              /\ request[q].resource = arg[p] /\ id[obj[p]] = arg[p]
              /\ obj[p] \in Objects /\ q \notin Holding
  BY <1>0, <1>9, <1>12 DEF ArbitrateNext, CallTyped, CallCurrent, Inside, Holding
<1>13. ASSUME NEW p \in Procs, NEW q \in RequestIds, ArbitrateNext(p, q),
              NEW st \in Statuses, status' = [status EXCEPT ![q] = st],
              NEW x \in Procs
       PROVE  CallCurrent(x)'
  BY <1>0, <1>9, <1>12, <1>13 DEF ArbitrateNext, CallCurrent, Inside, TypeOK, VarsTyped
<1>14. ASSUME NEW p \in Procs, NEW q \in RequestIds, ArbitrateGrant(p, q)
       PROVE  PoolInv'
  <2>1. Holding' = Holding \cup {q}
    BY <1>0, <1>12, <1>14 DEF ArbitrateGrant, ArbitrateNext, Allocate, Holding
  <2>2. /\ \A x \in Objects : (Least(x) <= inUse[x])'
        /\ \A r \in ResourceIds : UnitsCovered(r)'
    BY <1>12, <1>14, <2>1, CoverGrant DEF ArbitrateGrant, ArbitrateNext, Allocate
  <2>3. \A x \in Procs : CallCurrent(x)'
    BY <1>13, <1>14 DEF ArbitrateGrant, Allocate, Statuses
  <2> QED
    BY <2>2, <2>3 DEF PoolInv
<1>15. ASSUME NEW p \in Procs, NEW q \in RequestIds, ArbitrateReject(p, q)
       PROVE  PoolInv'
  <2>1. Holding' \subseteq Holding
    BY <1>0, <1>12, <1>15 DEF ArbitrateReject, ArbitrateNext, Reject, Holding
  <2>2. \A x \in Procs : CallCurrent(x)'
    BY <1>13, <1>15 DEF ArbitrateReject, Reject, Statuses
  <2> QED
    BY <1>15, <2>1, <2>2, PoolStays DEF ArbitrateReject, ArbitrateNext, Reject
<1>16. ASSUME NEW p \in Procs, ArbitrateEnd(p) PROVE PoolInv'
  <2>1. pc[p] \in Inside
    BY <1>16 DEF ArbitrateEnd, Inside
  <2>2. Holding' \subseteq Holding
    BY <1>0, <1>9, <1>16, <2>1 DEF ArbitrateEnd, UnlockAndReturn, Return, Holding,
       requestVars, Inside
  <2>3. ASSUME NEW x \in Procs PROVE CallCurrent(x)'
    BY <1>0, <1>9, <1>16, <2>1 DEF ArbitrateEnd, UnlockAndReturn, Return, CallCurrent,
       Inside, TypeOK, VarsTyped
  <2> QED
    BY <1>16, <2>2, <2>3, PoolStays DEF ArbitrateEnd, requestVars
<1>17. ASSUME NEW p \in Procs, ReleaseEnd(p) PROVE PoolInv'
  <2>1. /\ pc[p] \in Inside /\ arg[p] \in Holding /\ status[arg[p]] # "none"
        /\ obj[p] \in Objects /\ id[obj[p]] = request[arg[p]].resource
    BY <1>0, <1>17 DEF ReleaseEnd, CallTyped, CallCurrent, OnRequest, Inside, Holding
  <2>2. Holding' = Holding \ {arg[p]}
    BY <1>0, <1>9, <1>17, <2>1 DEF ReleaseEnd, Release, UnlockAndReturn, Return,
       Holding, Inside
  <2>3. /\ \A x \in Objects : (Least(x) <= inUse[x])'
        /\ \A r \in ResourceIds : UnitsCovered(r)'
    BY <1>17, <2>1, <2>2, CoverReturn DEF ReleaseEnd, Release
  <2>4. ASSUME NEW x \in Procs PROVE CallCurrent(x)'
    BY <1>0, <1>9, <1>17, <2>1 DEF ReleaseEnd, UnlockAndReturn, Return, CallCurrent,
       Inside, TypeOK, VarsTyped
  <2> QED
    BY <2>3, <2>4 DEF PoolInv
<1>18. CASE UNCHANGED vars
  BY <1>0, <1>18, PoolStays DEF vars, unitVars, Holding, CallCurrent
<1>19. CASE Clients
  <2>1. CASE \E o \in Objects, r \in ResourceIds, c \in 0..MaxCapacity, u \in PostedInUse :
               CreateResource(o, r, c, u)
    BY <1>1, <2>1
  <2>2. CASE \E q \in RequestIds, r \in ResourceIds, n \in 0..MaxQuantity,
                pr \in Priorities, t \in {clock, clock + 1} \cap (0..MaxClock) :
               RequestResource(q, r, n, pr, t)
    BY <1>2, <2>2
  <2>3. CASE \E p \in Procs, q \in RequestIds :
               \/ \E d \in Actors : ApproveRequest(p, q, d)
               \/ CallAllocate(p, q)
               \/ CallRelease(p, q)
    BY <1>3, <1>4, <2>3 DEF CallAllocate, CallRelease
  <2>4. CASE \E p \in Procs, r \in ResourceIds : CallArbitrate(p, r)
    BY <1>4, <2>4 DEF CallArbitrate
  <2> QED
    BY <1>19, <2>1, <2>2, <2>3, <2>4 DEF Clients
<1>20. ASSUME NEW p \in Procs, Acquire(p) PROVE PoolInv'
  BY <1>6, <1>7, <1>8, <1>20 DEF Acquire
<1>21. ASSUME NEW p \in Procs, Proceed(p) PROVE PoolInv'
  BY <1>5, <1>6, <1>10, <1>11, <1>14, <1>15, <1>16, <1>17, <1>21 DEF Proceed
<1> QED
  BY <1>18, <1>19, <1>20, <1>21 DEF Next

\* For any goroutines, requests, resources and posted numbers, with overlapping
\* approvals and any number of registrations of one ID under running calls:
\* allocated requests never hold more than the registrations brought.
THEOREM OverAllocationIsBounded == Spec => []OverAllocationBounded
<1>1. TypeOK /\ Mutex /\ PoolInv /\ [Next]_vars => PoolInv'
  BY PoolNext
<1>2. PoolInv => OverAllocationBounded
  <2> SUFFICES ASSUME PoolInv, NEW r \in ResourceIds
               PROVE  Cardinality(HeldUnits(r)) <= Cardinality(UnitsEver(r))
    BY DEF OverAllocationBounded
  <2>1. UnitsCovered(r)
    BY DEF PoolInv
  <2>2. /\ Cardinality(HeldUnits(r)) <= Cardinality(UnitsOf(Holding, r))
        /\ Cardinality(HeldUnits(r)) \in Nat /\ Cardinality(UnitsOf(Holding, r)) \in Nat
    BY UnitsMonotone, UnitsFinite DEF HeldUnits, Holding
  <2>3. /\ Cardinality(UnitsUsed(r)) <= Cardinality(UnitsEver(r))
        /\ Cardinality(UnitsUsed(r)) \in Nat /\ Cardinality(UnitsEver(r)) \in Nat
    BY <2>1, UsedFinite DEF UnitsCovered
  <2> QED
    BY <2>1, <2>2, <2>3 DEF UnitsCovered
<1> QED
  BY <1>1, <1>2, PoolInit, TypeCorrect, MutualExclusion, PTL DEF Spec

\* Of a resource registered once and with no negative in_use, the registrations
\* brought its capacity: that is the most its allocated requests ever hold.
THEOREM OverAllocationRejected == Spec => []NoOverAllocation
<1>1. TypeOK /\ OverAllocationBounded => NoOverAllocation
  <2> SUFFICES ASSUME TypeOK, OverAllocationBounded,
                      NEW r \in ResourceIds, resources[r] # None, RegisteredOnce(r)
               PROVE  Cardinality(HeldUnits(r)) <= capacity[resources[r]]
    BY DEF NoOverAllocation
  <2> DEFINE o == resources[r]
  <2>1. /\ o \in Objects /\ id[o] = r /\ capacity[o] \in Nat /\ Least(o) = 0
        /\ \A x \in Objects : id[x] = r => x = o
    BY DEF TypeOK, VarsTyped, LookupsSucceed, RegisteredOnce, Least
  <2>2. UnitsEver(r) = {o} \X (1..capacity[o])
    <3> HIDE DEF o
    <3>1. \A u : u \in UnitsEver(r) <=> \E k \in Int : u = <<o, k>> /\ 0 < k /\ k <= capacity[o]
      BY <2>1, UnitsEverAre
    <3>2. \A u : u \in {o} \X (1..capacity[o]) <=>
                   \E k \in Int : u = <<o, k>> /\ 0 < k /\ k <= capacity[o]
      BY <2>1
    <3> QED
      BY <3>1, <3>2
  <2>3. Cardinality(UnitsEver(r)) = capacity[o] - 1 + 1
    <3> HIDE DEF o
    <3>1. 1 \in Int /\ capacity[o] \in Int /\ 1 <= capacity[o] + 1
      BY <2>1
    <3>2. Cardinality({o} \X (1..capacity[o])) = capacity[o] - 1 + 1
      BY <3>1, UnitsStack
    <3> QED
      BY <2>2, <3>2
  <2>4. Cardinality(UnitsEver(r)) = capacity[o]
    BY <2>1, <2>3
  <2> QED
    BY <2>4 DEF OverAllocationBounded
<1> QED
  BY <1>1, TypeCorrect, OverAllocationIsBounded, PTL

-----------------------------------------------------------------------------
(* Review before dispatch.                                                 *)

\* A dispatcher's name is on the request, or just about to be.
Reviewed(q) ==
  \/ reviewedBy[q] \in Dispatchers
  \/ \E p \in Procs : pc[p] = "reviewer" /\ arg[p] = q /\ by[p] \in Dispatchers

\* Whoever approves is a dispatcher, and what a call is about to grant was
\* reviewed: its status may have been read before another call changed it.
ReviewInv ==
  /\ \A p \in Procs : pc[p] \in {"approve", "reviewer"} => by[p] \in Dispatchers
  /\ \A q \in RequestIds : status[q] \in {"approved", "allocated"} => Reviewed(q)
  /\ \A p \in Procs : /\ pc[p] = "allocating" => Reviewed(arg[p])
                      /\ \A q \in todo[p] : Reviewed(q)

LEMMA ReviewNext ==
  ASSUME TypeOK, ReviewInv, [Next]_vars
  PROVE  ReviewInv'
<1> USE ResourceAssumption
    DEF TypeOK, VarsTyped, CallTyped, ReviewInv, Reviewed, ControlPoints, OnRequest, Inside
<1>1. ASSUME NEW o \in Objects, NEW r \in ResourceIds,
             NEW c \in 0..MaxCapacity, NEW u \in PostedInUse,
             CreateResource(o, r, c, u)
      PROVE  ReviewInv'
  BY <1>1 DEF CreateResource, callVars, requestVars
<1>2. ASSUME NEW q \in RequestIds, NEW r \in ResourceIds,
             NEW n \in 0..MaxQuantity, NEW pr \in Priorities, NEW t \in 0..MaxClock,
             RequestResource(q, r, n, pr, t)
      PROVE  ReviewInv'
  BY <1>2 DEF RequestResource, callVars, unitVars
<1>3. ASSUME NEW p \in Procs, NEW q \in RequestIds, NEW d \in Actors,
             ApproveRequest(p, q, d)
      PROVE  ReviewInv'
  BY <1>3 DEF ApproveRequest, IsDispatcher, unitVars, requestVars
<1>4. ASSUME NEW p \in Procs, NEW op \in {"allocate", "arbitrate", "release"}, NEW a,
             Call(p, op, a)
      PROVE  ReviewInv'
  BY <1>4 DEF Call, unitVars, requestVars
<1>5. ASSUME NEW p \in Procs, ApproveStatus(p) PROVE ReviewInv'
  BY <1>5 DEF ApproveStatus, unitVars
\* The dispatcher's name moves from the call into the request.
<1>6. ASSUME NEW p \in Procs, ApproveReviewer(p) PROVE ReviewInv'
  <2>1. /\ arg[p] \in RequestIds /\ by[p] \in Dispatchers
        /\ reviewedBy' = [reviewedBy EXCEPT ![arg[p]] = by[p]]
        /\ status' = status /\ Return(p)
    BY <1>6 DEF ApproveReviewer
  <2>2. ASSUME NEW q \in RequestIds, Reviewed(q) PROVE Reviewed(q)'
    BY <2>1, <2>2 DEF Return
  <2>3. \A x \in Procs : x # p => /\ pc'[x] = pc[x] /\ arg'[x] = arg[x]
                                /\ by'[x] = by[x] /\ todo'[x] = todo[x]
    BY <2>1 DEF Return
  <2>4. pc'[p] = "idle" /\ todo'[p] = {}
    BY <2>1 DEF Return
  <2>5. ASSUME NEW x \in Procs, pc'[x] = "allocating" PROVE Reviewed(arg[x])'
    <3>1. arg[x] \in RequestIds /\ Reviewed(arg[x]) /\ arg'[x] = arg[x]
      BY <2>3, <2>4, <2>5
    <3> QED
      BY <3>1, <2>2
  <2>6. ASSUME NEW x \in Procs, NEW q \in todo'[x] PROVE Reviewed(q)'
    BY <2>3, <2>4, <2>2
  <2>7. ASSUME NEW q \in RequestIds, status'[q] \in {"approved", "allocated"}
        PROVE  Reviewed(q)'
    BY <2>1, <2>2, <2>7
  <2>8. \A x \in Procs : pc'[x] \in {"approve", "reviewer"} => by'[x] \in Dispatchers
    BY <2>3, <2>4
  <2> QED
    BY <2>5, <2>6, <2>7, <2>8
<1>7. ASSUME NEW p \in Procs, AllocateBegin(p) \/ ReleaseBegin(p) PROVE ReviewInv'
  <2>1. CASE AllocateBegin(p)
    BY <1>7, <2>1 DEF AllocateBegin, Enter, requestVars
  <2>2. CASE ReleaseBegin(p)
    BY <1>7, <2>2 DEF ReleaseBegin, Enter, Releasable, requestVars
  <2> QED
    BY <1>7, <2>1, <2>2
<1>8. ASSUME NEW p \in Procs, ArbitrateBegin(p) PROVE ReviewInv'
  BY <1>8 DEF ArbitrateBegin, Enter, PendingRequests, requestVars
<1>9. ASSUME NEW p \in Procs, AllocateRefuse(p) \/ ArbitrateUnknown(p) \/ ReleaseFail(p)
      PROVE  ReviewInv'
  <2>1. CASE AllocateRefuse(p)
    BY <1>9, <2>1 DEF AllocateRefuse, Return, requestVars
  <2>2. CASE ArbitrateUnknown(p)
    BY <1>9, <2>2 DEF ArbitrateUnknown, Return, requestVars
  <2>3. CASE ReleaseFail(p)
    BY <1>9, <2>3 DEF ReleaseFail, Return, requestVars
  <2> QED
    BY <1>9, <2>1, <2>2, <2>3
<1>10. ASSUME NEW p \in Procs, AllocateGrant(p) PROVE ReviewInv'
  <2>1. /\ arg[p] \in RequestIds /\ pc[p] = "allocating" /\ reviewedBy' = reviewedBy
        /\ status' = [status EXCEPT ![arg[p]] = "allocated"] /\ Return(p)
    BY <1>10 DEF AllocateGrant, Allocate, UnlockAndReturn
  <2>2. \A x \in Procs : x # p => /\ pc'[x] = pc[x] /\ arg'[x] = arg[x]
                                /\ by'[x] = by[x] /\ todo'[x] = todo[x]
    BY <2>1 DEF Return
  <2>3. pc'[p] = "idle" /\ todo'[p] = {}
    BY <2>1 DEF Return
  <2>4. ASSUME NEW q \in RequestIds, Reviewed(q) PROVE Reviewed(q)'
    BY <2>1, <2>2, <2>4
  <2>5. ASSUME NEW x \in Procs, pc'[x] = "allocating" PROVE Reviewed(arg[x])'
    <3>1. arg[x] \in RequestIds /\ Reviewed(arg[x]) /\ arg'[x] = arg[x]
      BY <2>2, <2>3, <2>5
    <3> QED
      BY <3>1, <2>4
  <2>6. ASSUME NEW x \in Procs, NEW q \in todo'[x] PROVE Reviewed(q)'
    BY <2>2, <2>3, <2>4
  <2>7. ASSUME NEW q \in RequestIds, status'[q] \in {"approved", "allocated"}
        PROVE  Reviewed(q)'
    BY <2>1, <2>4, <2>7
  <2>8. \A x \in Procs : pc'[x] \in {"approve", "reviewer"} => by'[x] \in Dispatchers
    BY <2>2, <2>3
  <2> QED
    BY <2>5, <2>6, <2>7, <2>8
<1>11. ASSUME NEW p \in Procs, AllocateReject(p) PROVE ReviewInv'
  BY <1>11 DEF AllocateReject, Reject, UnlockAndReturn, Return
<1>12. ASSUME NEW p \in Procs, NEW q \in RequestIds,
              ArbitrateGrant(p, q) \/ ArbitrateReject(p, q)
       PROVE  ReviewInv'
  BY <1>12 DEF ArbitrateGrant, ArbitrateReject, ArbitrateNext, Allocate, Reject
<1>13. ASSUME NEW p \in Procs, ArbitrateEnd(p) \/ ReleaseEnd(p) PROVE ReviewInv'
  <2>1. CASE ArbitrateEnd(p)
    BY <1>13, <2>1 DEF ArbitrateEnd, UnlockAndReturn, Return, requestVars
  <2>2. CASE ReleaseEnd(p)
    BY <1>13, <2>2 DEF ReleaseEnd, Release, UnlockAndReturn, Return
  <2> QED
    BY <1>13, <2>1, <2>2
<1>14. CASE UNCHANGED vars
  BY <1>14 DEF vars
<1> HIDE DEF ReviewInv
<1> QED
  BY <1>1, <1>2, <1>3, <1>4, <1>5, <1>6, <1>7, <1>8, <1>9, <1>10, <1>11, <1>12, <1>13,
     <1>14 DEF Next, Clients, Acquire, Proceed, CallAllocate, CallArbitrate, CallRelease

\* Units go out only after a registered dispatcher's review, with any overlap of
\* approvals, allocations, arbitrations and releases, and with IDs registered
\* again.
THEOREM DispatchIsReviewed == Spec => []AllocatedWasReviewed
<1>1. Init => ReviewInv
  BY DEF Init, ReviewInv
<1>2. TypeOK /\ ReviewInv /\ [Next]_vars => ReviewInv'
  BY ReviewNext
<1>3. ReviewInv => AllocatedWasReviewed
  BY DEF ReviewInv, AllocatedWasReviewed, Reviewed
<1> QED
  BY <1>1, <1>2, <1>3, TypeCorrect, PTL DEF Spec

-----------------------------------------------------------------------------
(* The reported status.                                                    *)

\* No registered struct is without capacity, so "in_use" never stands for a
\* resource that has no unit at all.
StatusInv == StatusAccurate /\ \A o \in Objects : id[o] # None => capacity[o] > 0

LEMMA StatusNext ==
  ASSUME TypeOK, StatusInv, [Next]_vars
  PROVE  StatusInv'
<1> USE ResourceAssumption
    DEF TypeOK, VarsTyped, CallTyped, StatusInv, StatusAccurate, Available, OnRequest, Inside
<1>1. ASSUME NEW o \in Objects, NEW r \in ResourceIds,
             NEW c \in 0..MaxCapacity, NEW u \in PostedInUse,
             CreateResource(o, r, c, u)
      PROVE  StatusInv'
  BY <1>1 DEF CreateResource
<1>2. CASE UNCHANGED <<id, capacity, inUse, unitStatus, posted>>
  BY <1>2
\* A grant takes what was free, and knows when it took the last unit.
<1>3. ASSUME NEW o \in Objects, NEW q \in RequestIds, status[q] # "none",
             Available(o) >= request[q].quantity, id[o] # None,
             Allocate(o, q), UNCHANGED <<id, capacity, posted>>
      PROVE  StatusInv'
  BY <1>3 DEF Allocate, LookupsSucceed, Requests
\* A return that leaves no free unit found none.
<1>4. ASSUME NEW o \in Objects, NEW q \in RequestIds, status[q] # "none",
             id[o] # None, Release(o, q), UNCHANGED <<id, capacity, posted>>
      PROVE  StatusInv'
  BY <1>4 DEF Release, Returned, LookupsSucceed, Requests
<1>5. ASSUME Clients PROVE StatusInv'
  BY <1>1, <1>2, <1>5 DEF Clients, RequestResource, ApproveRequest, CallAllocate,
     CallArbitrate, CallRelease, Call, unitVars
<1>6. ASSUME NEW p \in Procs, Acquire(p) PROVE StatusInv'
  BY <1>2, <1>6 DEF Acquire, AllocateBegin, AllocateRefuse, ArbitrateBegin,
     ArbitrateUnknown, ReleaseBegin, ReleaseFail, Enter, unitVars
<1>7. ASSUME NEW p \in Procs, Proceed(p) PROVE StatusInv'
  <2>1. CASE ApproveStatus(p) \/ ApproveReviewer(p) \/ AllocateReject(p) \/ ArbitrateEnd(p)
             \/ \E q \in RequestIds : ArbitrateReject(p, q)
    BY <1>2, <2>1 DEF ApproveStatus, ApproveReviewer, AllocateReject, ArbitrateEnd,
       ArbitrateReject, ArbitrateNext, Reject, unitVars
  <2>2. CASE AllocateGrant(p)
    BY <1>3, <2>2 DEF AllocateGrant
  <2>3. CASE \E q \in RequestIds : ArbitrateGrant(p, q)
    BY <1>3, <2>3 DEF ArbitrateGrant, ArbitrateNext
  <2>4. CASE ReleaseEnd(p)
    BY <1>4, <2>4 DEF ReleaseEnd
  <2> QED
    BY <1>7, <2>1, <2>2, <2>3, <2>4 DEF Proceed
<1>8. CASE UNCHANGED vars
  BY <1>2, <1>8 DEF vars
<1> HIDE DEF StatusInv
<1> QED
  BY <1>5, <1>6, <1>7, <1>8 DEF Next

\* A resource reports "in_use" exactly when no unit is free, whatever calls
\* interleave and however often it is registered again: unless it was posted with
\* units already in use, which a registration does not look at.
THEOREM StatusIsAccurate == Spec => []StatusAccurate
<1>1. Init => StatusInv
  BY DEF Init, StatusInv, StatusAccurate
<1>2. TypeOK /\ StatusInv /\ [Next]_vars => StatusInv'
  BY StatusNext
<1>3. StatusInv => StatusAccurate
  BY DEF StatusInv
<1> QED
  BY <1>1, <1>2, <1>3, TypeCorrect, PTL DEF Spec

-----------------------------------------------------------------------------
(* The order of arbitration.                                               *)

\* What an arbitration knows of its slice: what is left outranks nothing it has
\* decided, and what it turned down would not fit now either.
OrderOf(p) ==
  /\ pc[p] # "arbitrating" => pending[p] = {}
  /\ todo[p] \subseteq pending[p]
  /\ \A q \in pending[p] : status[q] # "none"
  /\ \A a \in todo[p], b \in pending[p] \ todo[p] : ~Outranks(a, b)
  /\ \A a \in pending[p] \ todo[p] : status[a] = "rejected" =>
       Available(obj[p]) < request[a].quantity
  /\ \A a, b \in pending[p] \ todo[p] :
       status[a] = "rejected" /\ status[b] = "allocated" /\ Outranks(a, b)
       => request[b].quantity < request[a].quantity
OrderInv == \A p \in Procs : OrderOf(p)

\* A call outside arbitration has no slice.
LEMMA OrderOfNothing ==
  ASSUME NEW p, pending'[p] = {}, todo'[p] = {}
  PROVE  OrderOf(p)'
BY DEF OrderOf

\* What others may do while an arbitration runs: approve late.
LEMMA OrderStays ==
  ASSUME TypeOK, NEW p \in Procs, OrderOf(p),
         pending'[p] = pending[p], todo'[p] = todo[p], pc'[p] = pc[p],
         pc[p] = "arbitrating" => Available(obj[p])' = Available(obj[p]),
         \A q \in pending[p] : /\ request'[q] = request[q] /\ status'[q] # "none"
                               /\ status'[q] # status[q] => status'[q] = "approved"
  PROVE  OrderOf(p)'
<1>1. \A q \in pending'[p] :
        /\ request'[q] = request[q] /\ status'[q] # "none"
        /\ status'[q] \in {"rejected", "allocated"} => status[q] = status'[q]
  OBVIOUS
<1>2. \A a, b \in pending'[p] : Outranks(a, b)' <=> Outranks(a, b)
  BY <1>1 DEF Outranks
<1>3. CASE pc[p] = "arbitrating"
  <2>1. \A a \in pending'[p] \ todo'[p] : status'[a] = "rejected" =>
          Available(obj[p])' < request'[a].quantity
    BY <1>1, <1>3 DEF OrderOf
  <2>2. \A a \in todo'[p], b \in pending'[p] \ todo'[p] : ~Outranks(a, b)'
    BY <1>2 DEF OrderOf
  <2>3. \A a, b \in pending'[p] \ todo'[p] :
          status'[a] = "rejected" /\ status'[b] = "allocated" /\ Outranks(a, b)'
          => request'[b].quantity < request'[a].quantity
    BY <1>1, <1>2 DEF OrderOf
  <2> QED
    BY <1>1, <2>1, <2>2, <2>3 DEF OrderOf
<1>4. CASE pc[p] # "arbitrating"
  BY <1>4, OrderOfNothing DEF OrderOf
<1> QED
  BY <1>3, <1>4

LEMMA OrderNext ==
  ASSUME TypeOK, Mutex, OrderInv, [Next]_vars
  PROVE  OrderInv'
<1> USE ResourceAssumption
<1>0. /\ VarsTyped
      /\ \A p \in Procs : CallTyped(p) /\ OrderOf(p)
      /\ \A p \in Procs : \A q \in pending[p] : q \in RequestIds /\ status[q] # "none"
  BY DEF TypeOK, OrderInv, OrderOf, VarsTyped
\* Steps that change no slice and at most approve a request.
<1>1. ASSUME UNCHANGED <<pending, todo>>,
             \A p \in Procs : pc[p] = "arbitrating" =>
               /\ pc'[p] = "arbitrating" /\ obj'[p] = obj[p]
               /\ Available(obj[p])' = Available(obj[p]),
             \A p \in Procs : pc'[p] = "arbitrating" => pc[p] = "arbitrating",
             \A q \in RequestIds : status[q] # "none" =>
               /\ request'[q] = request[q] /\ status'[q] # "none"
               /\ status'[q] # status[q] => status'[q] = "approved"
      PROVE  OrderInv'
  <2> SUFFICES ASSUME NEW p \in Procs PROVE OrderOf(p)'
    BY DEF OrderInv
  <2>1. CASE pc[p] = "arbitrating"
    BY <1>0, <1>1, <2>1, OrderStays DEF Available
  <2>2. CASE pc[p] # "arbitrating"
    BY <1>0, <1>1, <2>2, OrderOfNothing DEF OrderOf
  <2> QED
    BY <2>1, <2>2
\* Steps by which a call leaves, its slice with it.
<1>2. ASSUME NEW p \in Procs, Return(p),
             UNCHANGED <<capacity, request>>, inUse' = inUse \/ pc[p] \in Inside,
             status' = status \/ pc[p] \in Inside
      PROVE  OrderInv'
  <2> SUFFICES ASSUME NEW x \in Procs PROVE OrderOf(x)'
    BY DEF OrderInv
  <2>1. CASE x = p
    BY <1>0, <1>2, <2>1, OrderOfNothing DEF Return, VarsTyped
  <2>2. CASE x # p /\ pc[x] = "arbitrating"
    <3>1. inUse' = inUse /\ status' = status
      BY <1>2, <2>2 DEF Mutex, Critical, Inside
    <3>2. obj'[x] = obj[x] /\ pc'[x] = pc[x] /\ pending'[x] = pending[x] /\ todo'[x] = todo[x]
      BY <1>0, <1>2, <2>2 DEF Return, VarsTyped
    <3> QED
      BY <1>0, <1>2, <2>2, <3>1, <3>2, OrderStays DEF Available
  <2>3. CASE x # p /\ pc[x] # "arbitrating"
    <3>1. pending'[x] = {} /\ todo'[x] = {}
      BY <1>0, <1>2, <2>3 DEF Return, VarsTyped, OrderOf
    <3> QED
      BY <3>1, OrderOfNothing
  <2> QED
    BY <2>1, <2>2, <2>3
<1>3. ASSUME NEW o \in Objects, NEW r \in ResourceIds,
             NEW c \in 0..MaxCapacity, NEW u \in PostedInUse,
             CreateResource(o, r, c, u)
      PROVE  OrderInv'
  <2>1. ASSUME NEW p \in Procs, pc[p] = "arbitrating"
        PROVE  obj[p] # o /\ obj[p] \in Objects
    BY <1>0, <1>3, <2>1 DEF CreateResource, CallTyped, Inside
  <2>2. ASSUME NEW p \in Procs, pc[p] = "arbitrating"
        PROVE  /\ Available(obj[p])' = Available(obj[p])
               /\ obj' = obj
    BY <1>0, <1>3, <2>1, <2>2 DEF CreateResource, Available, VarsTyped, callVars
  <2> QED
    BY <1>1, <1>3, <2>2 DEF CreateResource, callVars, requestVars
<1>4. ASSUME NEW q \in RequestIds, NEW r \in ResourceIds,
             NEW n \in 0..MaxQuantity, NEW pr \in Priorities, NEW t \in 0..MaxClock,
             RequestResource(q, r, n, pr, t)
      PROVE  OrderInv'
  BY <1>0, <1>1, <1>4 DEF RequestResource, callVars, unitVars, VarsTyped, Available
<1>5. ASSUME NEW p \in Procs,
             \/ \E q \in RequestIds, d \in Actors : ApproveRequest(p, q, d)
             \/ \E op \in {"allocate", "arbitrate", "release"} : \E a : Call(p, op, a)
             \/ AllocateBegin(p) \/ ReleaseBegin(p)
      PROVE  OrderInv'
  <2>1. /\ UNCHANGED <<pending, todo>> /\ UNCHANGED <<capacity, inUse, request, status>>
        /\ pc[p] # "arbitrating" /\ pc'[p] # "arbitrating"
        /\ \A x \in Procs : x # p => pc'[x] = pc[x] /\ obj'[x] = obj[x]
    BY <1>0, <1>5 DEF ApproveRequest, Call, AllocateBegin, ReleaseBegin, Enter, unitVars,
       requestVars, VarsTyped
  <2> QED
    BY <1>1, <2>1 DEF Available
<1>6. ASSUME NEW p \in Procs, ApproveStatus(p) PROVE OrderInv'
  <2>1. /\ UNCHANGED <<pending, todo, capacity, inUse, request, obj>>
        /\ pc[p] = "approve" /\ pc' = [pc EXCEPT ![p] = "reviewer"]
        /\ status' = [status EXCEPT ![arg[p]] = "approved"]
    BY <1>6 DEF ApproveStatus, unitVars
  <2> QED
    BY <1>0, <1>1, <2>1 DEF Available, VarsTyped
<1>7. ASSUME NEW p \in Procs,
             ApproveReviewer(p) \/ AllocateRefuse(p) \/ ArbitrateUnknown(p) \/ ReleaseFail(p)
      PROVE  OrderInv'
  BY <1>2, <1>7 DEF ApproveReviewer, AllocateRefuse, ArbitrateUnknown, ReleaseFail,
     unitVars, requestVars
<1>8. ASSUME NEW p \in Procs,
             AllocateGrant(p) \/ AllocateReject(p) \/ ArbitrateEnd(p) \/ ReleaseEnd(p)
      PROVE  OrderInv'
  <2>1. pc[p] \in Inside /\ Return(p) /\ UNCHANGED <<capacity, request>>
    BY <1>8 DEF AllocateGrant, AllocateReject, ArbitrateEnd, ReleaseEnd, UnlockAndReturn,
       Inside, requestVars
  <2> QED
    BY <1>2, <2>1
\* The slice is new: nothing is decided yet.
<1>9. ASSUME NEW p \in Procs, ArbitrateBegin(p) PROVE OrderInv'
  <2> SUFFICES ASSUME NEW x \in Procs PROVE OrderOf(x)'
    BY DEF OrderInv
  <2>1. CASE x = p
    BY <1>0, <1>9, <2>1 DEF ArbitrateBegin, Enter, PendingRequests, OrderOf, VarsTyped,
       requestVars
  <2>2. CASE x # p
    BY <1>0, <1>9, <2>2, OrderStays DEF ArbitrateBegin, Enter, VarsTyped, requestVars,
       unitVars, Available
  <2> QED
    BY <2>1, <2>2
\* One decision: nobody else is arbitrating.
<1>10. ASSUME NEW p \in Procs, NEW q \in RequestIds, ArbitrateNext(p, q)
       PROVE  /\ pc[p] = "arbitrating" /\ pc' = pc /\ obj' = obj /\ pending' = pending
              /\ request' = request /\ capacity' = capacity
              /\ todo'[p] = todo[p] \ {q}
              /\ pending'[p] \ todo'[p] = (pending[p] \ todo[p]) \cup {q}
              /\ \A x \in Procs : x # p => pending'[x] = {} /\ todo'[x] = {}
              /\ \A b \in todo[p] : ~Outranks(b, q)
              /\ q \in todo[p] /\ request[q] \in Requests /\ obj[p] \in Objects
  <2>1. pc[p] = "arbitrating" /\ q \in todo[p] /\ q \in pending[p]
    BY <1>0, <1>10 DEF ArbitrateNext, OrderOf
  <2>2. ASSUME NEW x \in Procs, x # p PROVE pending'[x] = {} /\ todo'[x] = {}
    BY <1>0, <1>10, <2>1, <2>2 DEF ArbitrateNext, OrderOf, Mutex, Critical, Inside, VarsTyped
  <2>3. request[q] \in Requests /\ obj[p] \in Objects
    BY <1>0, <2>1 DEF TypeOK, LookupsSucceed, CallTyped, Inside
  <2> QED
    BY <1>0, <1>10, <2>1, <2>2, <2>3 DEF ArbitrateNext, VarsTyped
<1>11. ASSUME NEW p \in Procs, NEW q \in RequestIds, ArbitrateNext(p, q),
              OrderOf(p)'
       PROVE  OrderInv'
  BY <1>10, <1>11, OrderOfNothing DEF OrderInv
<1>12. ASSUME NEW p \in Procs, NEW q \in RequestIds, ArbitrateNext(p, q)
       PROVE  /\ \A a \in todo'[p], b \in pending'[p] \ todo'[p] : ~Outranks(a, b)'
              /\ todo'[p] \subseteq pending'[p]
              /\ \A a, b : Outranks(a, b)' <=> Outranks(a, b)
  <2>1. \A a, b : Outranks(a, b)' <=> Outranks(a, b)
    BY <1>10, <1>12 DEF Outranks
  <2>2. \A a \in todo'[p], b \in pending'[p] \ todo'[p] : ~Outranks(a, b)
    BY <1>0, <1>10, <1>12 DEF OrderOf
  <2> QED
    BY <1>0, <1>10, <1>12, <2>1, <2>2 DEF OrderOf
<1>13. ASSUME NEW p \in Procs, NEW q \in RequestIds, ArbitrateGrant(p, q)
       PROVE  OrderInv'
  <2>1. /\ ArbitrateNext(p, q) /\ Available(obj[p]) >= request[q].quantity
        /\ inUse' = [inUse EXCEPT ![obj[p]] = @ + request[q].quantity]
        /\ status' = [status EXCEPT ![q] = "allocated"]
    BY <1>13 DEF ArbitrateGrant, Allocate
  <2>2. /\ request[q].quantity \in Nat /\ Available(obj[p]) \in Int
        /\ Available(obj[p])' = Available(obj[p]) - request[q].quantity
    BY <1>0, <1>10, <2>1 DEF Available, VarsTyped, Requests
  <2>3. \A a \in pending[p] : /\ a \in RequestIds /\ request[a].quantity \in Nat
                              /\ status'[a] = IF a = q THEN "allocated" ELSE status[a]
    BY <1>0, <2>1 DEF VarsTyped, TypeOK, LookupsSucceed, Requests
  <2>4. \A a \in pending[p] \ todo[p] : status[a] = "rejected" =>
          Available(obj[p]) < request[a].quantity
    BY <1>0 DEF OrderOf
  <2>5. \A a \in pending'[p] \ todo'[p] : status'[a] = "rejected" =>
          a \in pending[p] \ todo[p] /\ status[a] = "rejected"
    BY <1>10, <2>1, <2>3
  <2>6. \A a \in pending'[p] \ todo'[p] : status'[a] = "rejected" =>
          /\ Available(obj[p])' < request'[a].quantity
          /\ request'[q].quantity < request'[a].quantity
    BY <1>10, <2>1, <2>2, <2>3, <2>4, <2>5
  <2>7. \A a, b \in pending'[p] \ todo'[p] :
          status'[a] = "rejected" /\ status'[b] = "allocated" /\ Outranks(a, b)'
          => request'[b].quantity < request'[a].quantity
    BY <1>0, <1>10, <1>12, <2>1, <2>3, <2>5, <2>6 DEF OrderOf
  <2>8. \A a \in pending'[p] : status'[a] # "none"
    BY <1>0, <1>10, <2>1, <2>3
  <2>9. OrderOf(p)'
    BY <1>10, <1>12, <2>1, <2>6, <2>7, <2>8 DEF OrderOf
  <2> QED
    BY <1>11, <2>1, <2>9
<1>14. ASSUME NEW p \in Procs, NEW q \in RequestIds, ArbitrateReject(p, q)
       PROVE  OrderInv'
  <2>1. /\ ArbitrateNext(p, q) /\ Available(obj[p]) < request[q].quantity
        /\ inUse' = inUse /\ status' = [status EXCEPT ![q] = "rejected"]
    BY <1>14 DEF ArbitrateReject, Reject
  <2>2. Available(obj[p])' = Available(obj[p])
    BY <1>10, <2>1 DEF Available
  <2>3. \A a \in pending[p] : status'[a] = IF a = q THEN "rejected" ELSE status[a]
    BY <1>0, <2>1 DEF VarsTyped
  <2>4. \A a \in pending'[p] \ todo'[p] : status'[a] = "rejected" =>
          Available(obj[p])' < request'[a].quantity
    BY <1>0, <1>10, <2>1, <2>2, <2>3 DEF OrderOf
  <2>5. \A b \in pending[p] \ todo[p] : ~Outranks(q, b)
    BY <1>0, <1>10, <2>1 DEF OrderOf
  <2>6. \A a, b \in pending'[p] \ todo'[p] :
          status'[a] = "rejected" /\ status'[b] = "allocated" /\ Outranks(a, b)'
          => request'[b].quantity < request'[a].quantity
    BY <1>0, <1>10, <1>12, <2>1, <2>3, <2>5 DEF OrderOf
  <2>7. \A a \in pending'[p] : status'[a] # "none"
    BY <1>0, <1>10, <2>1, <2>3
  <2>8. OrderOf(p)'
    BY <1>10, <1>12, <2>1, <2>4, <2>6, <2>7 DEF OrderOf
  <2> QED
    BY <1>11, <2>1, <2>8
<1>15. CASE UNCHANGED vars
  BY <1>1, <1>15 DEF vars, Available
<1>16. CASE Clients
  BY <1>3, <1>4, <1>5, <1>16 DEF Clients, CallAllocate, CallRelease, CallArbitrate
<1>17. ASSUME NEW p \in Procs, Acquire(p) \/ Proceed(p) PROVE OrderInv'
  BY <1>5, <1>6, <1>7, <1>8, <1>9, <1>13, <1>14, <1>17 DEF Acquire, Proceed
<1> QED
  BY <1>15, <1>16, <1>17 DEF Next

\* One arbitration never grants what it turned an outranking request down for,
\* unless the granted one is smaller; approvals, failed releases and new
\* registrations may interleave with it at will.
THEOREM ArbitrationInOrder == Spec => []ArbitrationOrder
<1>1. Init => OrderInv
  BY DEF Init, OrderInv, OrderOf
<1>2. TypeOK /\ Mutex /\ OrderInv /\ [Next]_vars => OrderInv'
  BY OrderNext
<1>3. OrderInv => ArbitrationOrder
  BY DEF OrderInv, OrderOf, ArbitrationOrder, Outranks
<1> QED
  BY <1>1, <1>2, <1>3, TypeCorrect, MutualExclusion, PTL DEF Spec

-----------------------------------------------------------------------------
(* What a step shows of itself, when approvals of one request do not       *)
(* overlap.                                                                *)

\* A struct takes the place of its resource in the store, or nothing does.
Stores ==
  \/ resources' = resources
  \/ \E o \in Objects : id[o] \in ResourceIds /\ SaveResource(o)

Approves(q) ==
  /\ status[q] = "pending"
  /\ status' = [status EXCEPT ![q] = "approved"]
  /\ UNCHANGED <<resources, id, capacity, inUse, posted, request>>

Grants(q, o) ==
  /\ status[q] = "approved"
  /\ id[o] = request[q].resource
  /\ Available(o) >= request[q].quantity
  /\ status' = [status EXCEPT ![q] = "allocated"]
  /\ inUse' = [inUse EXCEPT ![o] = @ + request[q].quantity]
  /\ Stores
  /\ UNCHANGED <<id, capacity, posted, request>>

Refuses(q, o) ==
  /\ status[q] = "approved"
  /\ id[o] = request[q].resource
  /\ Available(o) < request[q].quantity
  /\ status' = [status EXCEPT ![q] = "rejected"]
  /\ UNCHANGED <<resources, id, capacity, inUse, posted, request>>

Returns(q, o) ==
  /\ status[q] = "allocated"
  /\ id[o] = request[q].resource
  /\ status' = [status EXCEPT ![q] = "released"]
  /\ inUse' = [inUse EXCEPT ![o] = Returned(o, request[q].quantity)]
  /\ Stores
  /\ UNCHANGED <<id, capacity, posted, request>>

Registers ==
  \E o \in Objects, r \in ResourceIds, c \in 0..MaxCapacity, u \in PostedInUse :
    CreateResource(o, r, c, u)

Submits ==
  \E q \in RequestIds, r \in ResourceIds, n \in 0..MaxQuantity,
     pr \in Priorities, t \in {clock, clock + 1} \cap (0..MaxClock) :
    RequestResource(q, r, n, pr, t)

ShowsNothing == Stores /\ UNCHANGED <<id, capacity, inUse, posted, request, status>>

Visible ==
  \/ Registers \/ Submits \/ ShowsNothing
  \/ \E q \in RequestIds : Approves(q)
  \/ \E q \in RequestIds, o \in Objects : Grants(q, o) \/ Refuses(q, o) \/ Returns(q, o)

\* Who has checked a request is alone with it until its status is written.
AloneInv ==
  /\ \A p \in Procs : pc[p] = "approve" => status[arg[p]] = "pending"
  /\ \A p1, p2 \in Procs :
       pc[p1] = "approve" /\ pc[p2] = "approve" /\ arg[p1] = arg[p2] => p1 = p2
  /\ \A p \in Procs : pc[p] = "releasing" => status[arg[p]] = "allocated"

LEMMA StepsAreVisible ==
  ASSUME TypeOK, PoolInv, AloneInv, [Next]_vars
  PROVE  Visible
<1> USE ResourceAssumption
<1>0. \A p \in Procs : CallTyped(p) /\ CallCurrent(p)
  BY DEF TypeOK, PoolInv
<1>1. CASE Clients
  BY <1>1 DEF Clients, Visible, Registers, Submits, ShowsNothing, Stores, ApproveRequest,
     CallAllocate, CallArbitrate, CallRelease, Call, unitVars, requestVars
<1>2. ASSUME NEW p \in Procs, Acquire(p) PROVE Visible
  BY <1>2 DEF Acquire, AllocateBegin, AllocateRefuse, ArbitrateBegin, ArbitrateUnknown,
     ReleaseBegin, ReleaseFail, Enter, unitVars, requestVars, Visible, ShowsNothing, Stores
<1>3. ASSUME NEW p \in Procs, Proceed(p) PROVE Visible
  <2>1. CASE ApproveStatus(p)
    <3>1. arg[p] \in RequestIds /\ Approves(arg[p])
      BY <1>0, <2>1 DEF ApproveStatus, AloneInv, Approves, unitVars, CallTyped, OnRequest
    <3> QED
      BY <3>1 DEF Visible
  <2>2. CASE ApproveReviewer(p)
    BY <2>2 DEF ApproveReviewer, unitVars, Visible, ShowsNothing, Stores
  <2>3. ASSUME pc[p] \in {"allocating", "releasing"}
        PROVE  /\ arg[p] \in RequestIds /\ obj[p] \in Objects
               /\ id[obj[p]] \in ResourceIds /\ id[obj[p]] = request[arg[p]].resource
    BY <1>0, <2>3 DEF CallTyped, CallCurrent, OnRequest, Inside
  <2>4. CASE AllocateGrant(p) \/ AllocateReject(p)
    <3>1. pc[p] = "allocating" /\ status[arg[p]] = "approved"
      BY <1>0, <2>4 DEF AllocateGrant, AllocateReject, CallCurrent
    <3>2. CASE AllocateGrant(p)
      <4>1. Grants(arg[p], obj[p])
        BY <2>3, <3>1, <3>2 DEF Grants, AllocateGrant, Allocate, Stores
      <4> QED
        BY <2>3, <3>1, <4>1 DEF Visible
    <3>3. CASE AllocateReject(p)
      <4>1. Refuses(arg[p], obj[p])
        BY <2>3, <3>1, <3>3 DEF Refuses, AllocateReject, Reject
      <4> QED
        BY <2>3, <3>1, <4>1 DEF Visible
    <3> QED
      BY <2>4, <3>2, <3>3
  <2>5. ASSUME NEW q \in RequestIds, ArbitrateGrant(p, q) \/ ArbitrateReject(p, q)
        PROVE  Visible
    <3>1. status[q] = "approved" /\ obj[p] \in Objects /\ id[obj[p]] = request[q].resource
      BY <1>0, <2>5 DEF ArbitrateGrant, ArbitrateReject, ArbitrateNext, CallCurrent,
         CallTyped, Inside
    <3>2. Grants(q, obj[p]) \/ Refuses(q, obj[p])
      BY <2>5, <3>1 DEF ArbitrateGrant, ArbitrateReject, ArbitrateNext, Allocate, Reject,
         Grants, Refuses, Stores
    <3> QED
      BY <3>1, <3>2 DEF Visible
  <2>6. CASE ArbitrateEnd(p)
    <3>1. Stores
      BY <1>0, <2>6 DEF ArbitrateEnd, Stores, CallTyped, Inside
    <3> QED
      BY <2>6, <3>1 DEF ArbitrateEnd, Visible, ShowsNothing, requestVars
  <2>7. CASE ReleaseEnd(p)
    <3>1. pc[p] = "releasing" /\ status[arg[p]] = "allocated"
      BY <2>7 DEF ReleaseEnd, AloneInv
    <3>2. Returns(arg[p], obj[p])
      BY <2>3, <2>7, <3>1 DEF Returns, ReleaseEnd, Release, Stores
    <3> QED
      BY <2>3, <3>1, <3>2 DEF Visible
  <2> QED
    BY <1>3, <2>1, <2>2, <2>4, <2>5, <2>6, <2>7 DEF Proceed
<1>4. CASE UNCHANGED vars
  BY <1>4 DEF vars, Visible, ShowsNothing, Stores
<1> QED
  BY <1>1, <1>2, <1>3, <1>4 DEF Next

LEMMA AloneNext ==
  ASSUME ~OverlappingApprovals, TypeOK, Mutex, PoolInv, AloneInv, [Next]_vars
  PROVE  AloneInv'
<1> USE ResourceAssumption
<1>0. /\ pc \in [Procs -> ControlPoints] /\ status \in [RequestIds -> Statuses]
      /\ arg \in [Procs -> RequestIds \cup ResourceIds \cup {None}]
      /\ \A p \in Procs : CallTyped(p) /\ CallCurrent(p)
      /\ \A p \in Procs : pc[p] \in {"approve", "releasing"} => arg[p] \in RequestIds
  BY DEF TypeOK, VarsTyped, PoolInv, CallTyped, OnRequest
\* Steps that write no status and bring nobody to one of the two writes.
<1>1. ASSUME status' = status,
             \A p \in Procs : pc'[p] \in {"approve", "releasing"} =>
               pc'[p] = pc[p] /\ arg'[p] = arg[p]
      PROVE  AloneInv'
  BY <1>1 DEF AloneInv
\* Steps that write one status, past which no call waits to write it.
<1>2. ASSUME NEW q \in RequestIds, NEW st, status' = [status EXCEPT ![q] = st],
             \A p \in Procs : pc'[p] \in {"approve", "releasing"} =>
               pc'[p] = pc[p] /\ arg'[p] = arg[p] /\ arg[p] # q
      PROVE  AloneInv'
  BY <1>0, <1>2 DEF AloneInv
<1>3. ASSUME NEW p \in Procs, pc[p] \in Inside
      PROVE  \A x \in Procs : x # p => pc[x] # "releasing"
  BY <1>3 DEF Mutex, Critical, Inside
<1>4. CASE Registers
  BY <1>1, <1>4 DEF Registers, CreateResource, callVars, requestVars
<1>5. ASSUME NEW q \in RequestIds, status[q] = "none",
             status' = [status EXCEPT ![q] = "pending"], UNCHANGED <<pc, arg>>
      PROVE  AloneInv'
  BY <1>0, <1>2, <1>5 DEF AloneInv
<1>6. ASSUME NEW p \in Procs, NEW q \in RequestIds, NEW d \in Actors,
             ApproveRequest(p, q, d)
      PROVE  AloneInv'
  BY <1>0, <1>6 DEF ApproveRequest, ApprovingNow, AloneInv, requestVars
<1>7. ASSUME NEW p \in Procs, NEW op \in {"allocate", "arbitrate", "release"}, NEW a,
             Call(p, op, a)
      PROVE  AloneInv'
  BY <1>0, <1>1, <1>7 DEF Call, requestVars
<1>8. ASSUME NEW p \in Procs, ApproveStatus(p) PROVE AloneInv'
  <2>1. /\ pc[p] = "approve" /\ arg[p] \in RequestIds /\ arg' = arg
        /\ pc' = [pc EXCEPT ![p] = "reviewer"]
        /\ status' = [status EXCEPT ![arg[p]] = "approved"]
    BY <1>0, <1>8 DEF ApproveStatus
  <2>2. \A x \in Procs : pc'[x] \in {"approve", "releasing"} =>
          pc'[x] = pc[x] /\ arg'[x] = arg[x] /\ arg[x] # arg[p]
    BY <1>0, <2>1 DEF AloneInv
  <2> QED
    BY <1>2, <2>1, <2>2
<1>9. ASSUME NEW p \in Procs,
             ApproveReviewer(p) \/ AllocateRefuse(p) \/ ArbitrateUnknown(p) \/ ReleaseFail(p)
             \/ ArbitrateEnd(p)
      PROVE  AloneInv'
  <2>1. status' = status /\ Return(p)
    BY <1>9 DEF ApproveReviewer, AllocateRefuse, ArbitrateUnknown, ReleaseFail,
       ArbitrateEnd, UnlockAndReturn, requestVars
  <2> QED
    BY <1>0, <1>1, <2>1 DEF Return
<1>10. ASSUME NEW p \in Procs, AllocateBegin(p) \/ ArbitrateBegin(p) PROVE AloneInv'
  BY <1>0, <1>1, <1>10 DEF AllocateBegin, ArbitrateBegin, Enter, requestVars
<1>11. ASSUME NEW p \in Procs, ReleaseBegin(p) PROVE AloneInv'
  BY <1>0, <1>11 DEF ReleaseBegin, Releasable, Enter, AloneInv, requestVars
<1>12. ASSUME NEW p \in Procs, AllocateGrant(p) \/ AllocateReject(p) PROVE AloneInv'
  <2>1. /\ pc[p] \in Inside /\ arg[p] \in RequestIds /\ status[arg[p]] = "approved"
        /\ Return(p)
        /\ \E st : status' = [status EXCEPT ![arg[p]] = st]
    BY <1>0, <1>12 DEF AllocateGrant, AllocateReject, Allocate, Reject, UnlockAndReturn,
       CallTyped, CallCurrent, OnRequest, Inside
  <2>2. \A x \in Procs : pc'[x] \in {"approve", "releasing"} =>
          pc'[x] = pc[x] /\ arg'[x] = arg[x] /\ arg[x] # arg[p]
    BY <1>0, <2>1 DEF AloneInv, Return
  <2> QED
    BY <1>2, <2>1, <2>2
<1>13. ASSUME NEW p \in Procs, NEW q \in RequestIds,
              ArbitrateGrant(p, q) \/ ArbitrateReject(p, q)
       PROVE  AloneInv'
  <2>1. /\ status[q] = "approved" /\ UNCHANGED <<pc, arg>>
        /\ \E st : status' = [status EXCEPT ![q] = st]
    BY <1>0, <1>13 DEF ArbitrateGrant, ArbitrateReject, ArbitrateNext, Allocate, Reject,
       CallCurrent
  <2> QED
    BY <1>0, <1>2, <2>1 DEF AloneInv
<1>14. ASSUME NEW p \in Procs, ReleaseEnd(p) PROVE AloneInv'
  <2>1. /\ pc[p] = "releasing" /\ arg[p] \in RequestIds /\ status[arg[p]] = "allocated"
        /\ Return(p) /\ status' = [status EXCEPT ![arg[p]] = "released"]
    BY <1>0, <1>14 DEF ReleaseEnd, Release, UnlockAndReturn, AloneInv
  <2>2. \A x \in Procs : pc'[x] \in {"approve", "releasing"} =>
          pc'[x] = pc[x] /\ arg'[x] = arg[x] /\ arg[x] # arg[p]
    BY <1>0, <1>3, <2>1 DEF AloneInv, Return, Inside
  <2> QED
    BY <1>2, <2>1, <2>2
<1>15. CASE UNCHANGED vars
  BY <1>1, <1>15 DEF vars
<1>16. CASE Clients
  <2>1. CASE Submits
    BY <1>5, <2>1 DEF Submits, RequestResource, callVars
  <2> QED
    BY <1>4, <1>6, <1>7, <1>16, <2>1 DEF Clients, Registers, Submits, CallAllocate,
       CallArbitrate, CallRelease
<1>17. ASSUME NEW p \in Procs, Acquire(p) \/ Proceed(p) PROVE AloneInv'
  BY <1>8, <1>9, <1>10, <1>11, <1>12, <1>13, <1>14, <1>17 DEF Acquire, Proceed
<1> QED
  BY <1>15, <1>16, <1>17 DEF Next

LEMMA AloneAlways ==
  ASSUME ~OverlappingApprovals
  PROVE  Spec => [](TypeOK /\ Mutex /\ PoolInv /\ AloneInv)
<1>1. Init => AloneInv
  BY DEF Init, AloneInv
<1>2. TypeOK /\ Mutex /\ PoolInv /\ [Next]_vars => PoolInv'
  BY PoolNext
<1>3. TypeOK /\ Mutex /\ PoolInv /\ AloneInv /\ [Next]_vars => AloneInv'
  BY AloneNext
<1> QED
  BY <1>1, <1>2, <1>3, PoolInit, TypeCorrect, MutualExclusion, PTL DEF Spec

-----------------------------------------------------------------------------
(* The life cycle of a request, and the count of units.                    *)

\* A status is only ever moved forward, whatever the calls of several
\* goroutines do to it between another's check and write, and with resources
\* registered again: provided approvals of one request do not overlap.
THEOREM StatusMovesForward ==
  ASSUME ~OverlappingApprovals
  PROVE  Spec => LifecycleForward
<1> DEFINE Forward ==
      \A q \in RequestIds : status'[q] # status[q] =>
        <<status[q], status'[q]>> \in
          {<<"none", "pending">>, <<"pending", "approved">>,
           <<"approved", "allocated">>, <<"approved", "rejected">>,
           <<"allocated", "released">>}
<1>1. TypeOK /\ Visible => Forward
  BY DEF TypeOK, VarsTyped, Visible, Registers, Submits, ShowsNothing, CreateResource,
     RequestResource, requestVars, Approves, Grants, Refuses, Returns
<1>2. TypeOK /\ PoolInv /\ AloneInv /\ [Next]_vars => Visible
  BY StepsAreVisible
<1>3. TypeOK /\ PoolInv /\ AloneInv /\ [Next]_vars => [Forward]_vars
  BY <1>1, <1>2
<1> HIDE DEF Forward
<1>4. Spec => [][Forward]_vars
  BY <1>3, AloneAlways, PTL DEF Spec
<1> QED
  BY <1>4 DEF Forward, LifecycleForward

\* The only struct of a resource is the one in the store, and storing changes
\* neither which resources have only one nor which struct that is.
LEMMA OnlyStruct ==
  ASSUME TypeOK, NEW r \in ResourceIds, RegisteredOnce(r), resources[r] # None
  PROVE  /\ resources[r] \in Objects /\ id[resources[r]] = r /\ posted[resources[r]] \in Nat
         /\ \A o \in Objects : id[o] = r => o = resources[r]
BY DEF TypeOK, VarsTyped, LookupsSucceed, RegisteredOnce

LEMMA StoresOnly ==
  ASSUME TypeOK, Stores, UNCHANGED <<id, posted>>, NEW r \in ResourceIds
  PROVE  /\ resources'[r] = None <=> resources[r] = None
         /\ RegisteredOnce(r)' <=> RegisteredOnce(r)
         /\ RegisteredOnce(r) => resources'[r] = resources[r]
<1>1. /\ resources'[r] # resources[r] => resources'[r] \in Objects /\ id[resources'[r]] = r
      /\ resources[r] # None => resources[r] \in Objects /\ id[resources[r]] = r
      /\ \A o \in Objects : id[o] = r => resources[r] # None
  BY ResourceAssumption DEF TypeOK, VarsTyped, LookupsSucceed, Stores, SaveResource
<1>2. resources'[r] = None <=> resources[r] = None
  BY <1>1, ResourceAssumption
<1> QED
  BY <1>1, <1>2 DEF RegisteredOnce

\* A registration leaves r the only struct it had, or gives it its first.
LEMMA RegisterOnly ==
  ASSUME TypeOK, NEW o \in Objects, NEW r0 \in ResourceIds,
         NEW c \in 0..MaxCapacity, NEW u \in PostedInUse,
         CreateResource(o, r0, c, u), NEW r \in ResourceIds, RegisteredOnce(r)'
  PROVE  /\ r = r0 => /\ resources[r] = None /\ resources'[r] = o /\ u >= 0
                      /\ inUse'[o] = u /\ posted'[o] = u /\ capacity'[o] = c
                      /\ \A q \in RequestIds : status[q] # "none" => request[q].resource # r
         /\ r # r0 => /\ RegisteredOnce(r) /\ resources'[r] = resources[r]
                      /\ resources[r] # None => /\ inUse'[resources[r]] = inUse[resources[r]]
                                                /\ posted'[resources[r]] = posted[resources[r]]
                                                /\ capacity'[resources[r]] = capacity[resources[r]]
<1>1. /\ id[o] = None /\ id' = [id EXCEPT ![o] = r0]
      /\ resources' = [resources EXCEPT ![r0] = o]
      /\ capacity' = [capacity EXCEPT ![o] = c]
      /\ inUse' = [inUse EXCEPT ![o] = u] /\ posted' = [posted EXCEPT ![o] = u]
      /\ u \in Int
  BY ResourceAssumption DEF CreateResource
<1>2. /\ id'[o] = r0 /\ resources'[r0] = o /\ capacity'[o] = c /\ inUse'[o] = u
      /\ posted'[o] = u /\ r0 # None
      /\ \A x \in Objects : x # o =>
           /\ id'[x] = id[x] /\ posted'[x] = posted[x]
           /\ inUse'[x] = inUse[x] /\ capacity'[x] = capacity[x]
      /\ \A x \in ResourceIds : x # r0 => resources'[x] = resources[x]
      /\ \A x \in ResourceIds : resources[x] # None => resources[x] \in Objects /\ id[resources[x]] = x
  BY <1>1, ResourceAssumption DEF TypeOK, VarsTyped, LookupsSucceed
<1>3. CASE r = r0
  <2>1. u >= 0
    BY <1>2, <1>3 DEF RegisteredOnce
  <2>2. resources[r] = None
    BY <1>1, <1>2, <1>3 DEF RegisteredOnce
  <2>3. \A q \in RequestIds : status[q] # "none" => request[q].resource # r
    BY <2>2 DEF TypeOK, LookupsSucceed
  <2> QED
    BY <1>2, <1>3, <2>1, <2>2, <2>3
<1>4. CASE r # r0
  <2>1. \A x \in Objects : id[x] = r => x # o
    BY <1>1, ResourceAssumption
  <2>2. RegisteredOnce(r)
    BY <1>2, <1>4, <2>1 DEF RegisteredOnce
  <2> QED
    BY <1>1, <1>2, <1>4, <2>2, ResourceAssumption
<1> QED
  BY <1>3, <1>4

Allocated == {q \in RequestIds : status[q] = "allocated"}

\* Every request that is granted is among those that hold units.
LEMMA HeldIsInUse ==
  ASSUME TypeOK, UnitsConserved, NEW q \in RequestIds, status[q] = "allocated",
         RegisteredOnce(request[q].resource)
  PROVE  request[q].quantity <= inUse[resources[request[q].resource]]
<1> DEFINE r0 == request[q].resource
           S == Allocated \ {q}
<1>1. /\ request[q] \in Requests /\ r0 \in ResourceIds
      /\ resources[r0] # None /\ request[q].quantity \in Nat
  BY ResourceAssumption DEF TypeOK, LookupsSucceed, Requests
<1>2. S \in SUBSET RequestIds /\ q \in RequestIds \ S
  BY DEF Allocated
<1>3. S \cup {q} = Allocated
  BY DEF Allocated
<1>4. /\ Cardinality(UnitsOf(Allocated, r0)) =
           Cardinality(UnitsOf(S, r0)) + request[q].quantity
      /\ Cardinality(UnitsOf(S, r0)) \in Nat
  <2>1. Cardinality(UnitsOf(S \cup {q}, r0)) =
          Cardinality(UnitsOf(S, r0)) + request[q].quantity
    BY <1>1, <1>2, UnitsAdd
  <2>2. Cardinality(UnitsOf(S, r0)) \in Nat
    BY <1>2, UnitsFinite
  <2> QED
    BY <1>3, <2>1, <2>2
<1>5. inUse[resources[r0]] = posted[resources[r0]] + Cardinality(UnitsOf(Allocated, r0))
  BY <1>1 DEF UnitsConserved, HeldUnits, Allocated
<1>6. posted[resources[r0]] \in Nat
  BY <1>1, OnlyStruct
<1> QED
  BY <1>1, <1>4, <1>5, <1>6

\* A grant counts the units it takes, a return the units it gives back.
LEMMA UnitsCounted ==
  ASSUME TypeOK, UnitsConserved, NEW q \in RequestIds, NEW o \in Objects,
         Grants(q, o) \/ Returns(q, o),
         NEW r \in ResourceIds, resources'[r] # None, RegisteredOnce(r)'
  PROVE  inUse'[resources'[r]] = posted'[resources'[r]] + Cardinality(HeldUnits(r))'
<1> DEFINE r0 == request[q].resource
           n == request[q].quantity
           S == Allocated \ {q}
           U == Cardinality(UnitsOf(S, r))
           V == Cardinality(UnitsOf(S \cup {q}, r))
           x == resources[r]
<1>1. /\ request[q] \in Requests /\ r0 \in ResourceIds /\ n \in Nat /\ id[o] = r0
      /\ \A y \in Objects : inUse[y] \in Int
      /\ DOMAIN inUse = Objects /\ request' = request /\ posted' = posted
  BY ResourceAssumption DEF TypeOK, VarsTyped, LookupsSucceed, Requests, Grants, Returns
<1>2. /\ RegisteredOnce(r) /\ x # None /\ resources'[r] = x
      /\ x \in Objects /\ id[x] = r /\ posted[x] \in Nat
      /\ \A y \in Objects : id[y] = r => y = x
  <2>1. Stores /\ UNCHANGED <<id, posted>>
    BY DEF Grants, Returns
  <2> QED
    BY <2>1, StoresOnly, OnlyStruct
<1>3. S \in SUBSET RequestIds /\ q \in RequestIds \ S
  BY DEF Allocated
<1>4. U \in Nat /\ (r = r0 => V = U + n) /\ (r # r0 => V = U)
  BY <1>1, <1>3, UnitsAdd, UnitsElsewhere, UnitsFinite
<1>5. inUse[x] = posted[x] + Cardinality(HeldUnits(r))
  BY <1>2 DEF UnitsConserved
<1>6. CASE Grants(q, o)
  <2>1. Cardinality(HeldUnits(r)) = U
    BY <1>6 DEF HeldUnits, Allocated, Grants
  <2>2. Cardinality(HeldUnits(r))' = V
    <3>1. {y \in RequestIds : status'[y] = "allocated"} = S \cup {q}
      BY <1>6 DEF Allocated, Grants, TypeOK, VarsTyped
    <3>2. HeldUnits(r)' = UnitsOf(S \cup {q}, r)
      BY <1>1, <3>1 DEF HeldUnits, UnitsOf
    <3> QED
      BY <3>2
  <2>3. inUse' = [inUse EXCEPT ![o] = inUse[o] + n]
    BY <1>6 DEF Grants
  <2> HIDE DEF U, V, S, n, x, r0
  <2>4. r = r0 => inUse'[x] = inUse[x] + n
    BY <1>1, <1>2, <2>3
  <2>5. r # r0 => inUse'[x] = inUse[x]
    BY <1>1, <1>2, <2>3
  <2>6. inUse'[x] = posted[x] + V
    BY <1>1, <1>2, <1>4, <1>5, <2>1, <2>4, <2>5
  <2> QED
    BY <1>1, <1>2, <2>2, <2>6
<1>7. CASE Returns(q, o)
  <2>1. Cardinality(HeldUnits(r)) = V
    BY <1>7 DEF HeldUnits, UnitsOf, Allocated, Returns
  <2>2. Cardinality(HeldUnits(r))' = U
    <3>1. {y \in RequestIds : status'[y] = "allocated"} = S
      BY <1>7 DEF Allocated, Returns, TypeOK, VarsTyped
    <3>2. HeldUnits(r)' = UnitsOf(S, r)
      BY <1>1, <3>1 DEF HeldUnits, UnitsOf
    <3> QED
      BY <3>2
  <2>3. inUse' = [inUse EXCEPT ![o] = IF inUse[o] - n < 0 THEN 0 ELSE inUse[o] - n]
    BY <1>7 DEF Returns, Returned
  <2> HIDE DEF U, V, S, n, x, r0
  <2>4. r = r0 => inUse'[x] = inUse[x] - n
    BY <1>1, <1>2, <1>4, <1>5, <2>1, <2>3
  <2>5. r # r0 => inUse'[x] = inUse[x]
    BY <1>1, <1>2, <2>3
  <2>6. inUse'[x] = posted[x] + U
    BY <1>1, <1>2, <1>4, <1>5, <2>1, <2>4, <2>5
  <2> QED
    BY <1>1, <1>2, <2>2, <2>6
<1> QED
  BY <1>6, <1>7

LEMMA ConserveNext ==
  ASSUME TypeOK, UnitsConserved, Visible
  PROVE  UnitsConserved'
<1> USE ResourceAssumption
\* Steps that change no count and allocate nothing.
<1>1. ASSUME Stores, UNCHANGED <<id, inUse, posted>>, Allocated' = Allocated,
             \A q \in Allocated : request'[q] = request[q]
      PROVE  UnitsConserved'
  <2>1. \A r : HeldUnits(r)' = HeldUnits(r)
    BY <1>1 DEF HeldUnits, UnitsOf, Allocated
  <2>2. ASSUME NEW r \in ResourceIds, resources'[r] # None, RegisteredOnce(r)'
        PROVE  RegisteredOnce(r) /\ resources[r] # None /\ resources'[r] = resources[r]
    BY <1>1, <2>2, StoresOnly
  <2> QED
    BY <1>1, <2>1, <2>2 DEF UnitsConserved
<1>2. ASSUME NEW o \in Objects, NEW r \in ResourceIds,
             NEW c \in 0..MaxCapacity, NEW u \in PostedInUse,
             CreateResource(o, r, c, u)
      PROVE  UnitsConserved'
  <2> SUFFICES ASSUME NEW x \in ResourceIds, resources'[x] # None, RegisteredOnce(x)'
               PROVE  inUse'[resources'[x]]
                        = posted'[resources'[x]] + Cardinality(HeldUnits(x))'
    BY DEF UnitsConserved
  <2>1. HeldUnits(x)' = HeldUnits(x)
    BY <1>2 DEF CreateResource, requestVars, HeldUnits, UnitsOf
  <2>2. CASE x = r
    <3>1. HeldUnits(x) = {}
      BY <1>2, <2>2, RegisterOnly DEF HeldUnits, UnitsOf
    <3>2. Cardinality(HeldUnits(x))' = 0
      BY <2>1, <3>1, FS_EmptySet
    <3>3. u \in Int /\ resources'[x] = o /\ inUse'[o] = u /\ posted'[o] = u
      BY <1>2, <2>2, RegisterOnly
    <3> QED
      BY <3>2, <3>3
  <2>3. CASE x # r
    BY <1>2, <2>1, <2>3, RegisterOnly DEF UnitsConserved
  <2> QED
    BY <2>2, <2>3
<1>3. CASE Submits
  BY <1>1, <1>3 DEF Submits, RequestResource, unitVars, Allocated, Stores, TypeOK, VarsTyped
<1>4. CASE ShowsNothing
  BY <1>1, <1>4 DEF ShowsNothing, Allocated
<1>5. ASSUME NEW q \in RequestIds, Approves(q) PROVE UnitsConserved'
  BY <1>1, <1>5 DEF Approves, Allocated, Stores, TypeOK, VarsTyped
<1>6. ASSUME NEW q \in RequestIds, NEW o \in Objects, Refuses(q, o) PROVE UnitsConserved'
  BY <1>1, <1>6 DEF Refuses, Allocated, Stores, TypeOK, VarsTyped
<1>7. ASSUME NEW q \in RequestIds, NEW o \in Objects, Grants(q, o) \/ Returns(q, o)
      PROVE  UnitsConserved'
  BY <1>7, UnitsCounted DEF UnitsConserved
<1> QED
  BY <1>2, <1>3, <1>4, <1>5, <1>6, <1>7 DEF Visible, Registers

\* in_use is exactly what was posted and what the allocated requests hold, at
\* every moment and for every resource that is registered once: nothing is lost
\* or counted twice. It needs that approvals of one request do not overlap.
THEOREM UnitsAreConserved ==
  ASSUME ~OverlappingApprovals
  PROVE  Spec => []UnitsConserved
<1>1. Init => UnitsConserved
  BY DEF Init, UnitsConserved
<1>2. TypeOK /\ PoolInv /\ AloneInv /\ UnitsConserved /\ [Next]_vars => UnitsConserved'
  BY StepsAreVisible, ConserveNext
<1> QED
  BY <1>1, <1>2, AloneAlways, PTL DEF Spec
=============================================================================
