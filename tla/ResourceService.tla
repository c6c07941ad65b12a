-------------------------- MODULE ResourceService --------------------------
(***************************************************************************)
(* Emergency resource dispatch: the ResourceService of                     *)
(* internal/service/resource.go, the Resource and ResourceRequest          *)
(* aggregates of internal/domain/resource.go, and the two maps of          *)
(* internal/store/store.go that hold them.                                 *)
(*                                                                         *)
(* Every HTTP call runs in a goroutine of its own (Procs).  Allocation,    *)
(* arbitration and release serialise on one mutex, allocMu.  Approval,     *)
(* request creation and registration do not take it, and every operation   *)
(* works on the structs the store's pointers lead to, so what an unlocked  *)
(* call read may be stale when it writes.  A call is cut into the steps    *)
(* between which another goroutine's write can matter: the reads and       *)
(* checks, then the writes.  Inside one step the other goroutines' effects *)
(* commute with it.                                                        *)
(*                                                                         *)
(* sync.Mutex has no owner, so allocMu is the Boolean `locked': a call     *)
(* that returns without Unlock leaves it TRUE with nobody inside.          *)
(***************************************************************************)
EXTENDS Integers, FiniteSets

CONSTANTS
  Procs,                 \* goroutines serving API calls
  ResourceIds,           \* IDs clients register resources under
  RequestIds,            \* request IDs newID will hand out
  Objects,               \* *Resource structs, one per accepted registration
  Actors, Dispatchers,   \* callers of approve; those registered as dispatchers
  Priorities,            \* priorities posted with a request (any int)
  PostedInUse,           \* in_use values posted with a registration
  MaxCapacity, MaxQuantity, MaxClock,  \* bounds on posted ints and on time
  Reregister,            \* may a client register an ID a second time?
  OverlappingApprovals,  \* may two approvals of one request overlap in time?
  None

ASSUME ResourceAssumption ==
  /\ Dispatchers \subseteq Actors
  /\ Priorities \subseteq Int
  /\ PostedInUse \subseteq Int
  /\ MaxCapacity \in Nat /\ MaxQuantity \in Nat /\ MaxClock \in Nat
  /\ Reregister \in BOOLEAN /\ OverlappingApprovals \in BOOLEAN
  /\ IsFiniteSet(RequestIds)
  /\ None \notin ResourceIds \cup RequestIds \cup Objects \cup Actors

VARIABLES
  locked,                         \* allocMu
  pc, arg, by, obj,               \* a call's control point, request or resource
                                  \* ID, dispatcher, and its pointer r
  pending, todo,                  \* an arbitration's slice and what is left of it
  resources,                      \* store.resources: ID -> pointer
  id, capacity, inUse, unitStatus,  \* fields of a Resource
  posted,                         \* history: the in_use it was registered with
  request, status, reviewedBy,    \* immutable fields, Status and ReviewedBy of
                                  \* a ResourceRequest
  clock                           \* latest RequestedAt handed out

callVars == <<pc, arg, by, obj, pending, todo>>
unitVars == <<resources, id, capacity, inUse, unitStatus, posted>>
requestVars == <<request, status, reviewedBy, clock>>
vars == <<locked, pc, arg, by, obj, pending, todo,
          resources, id, capacity, inUse, unitStatus, posted,
          request, status, reviewedBy, clock>>

Statuses == {"none", "pending", "approved", "allocated", "rejected", "released"}
ControlPoints == {"idle", "approve", "reviewer", "allocate", "allocating",
                  "arbitrate", "arbitrating", "release", "releasing"}
OnRequest == {"approve", "reviewer", "allocate", "allocating",
              "release", "releasing"}
Inside == {"allocating", "arbitrating", "releasing"}
Requests == [resource : ResourceIds, quantity : 1..MaxQuantity,
             priority : Priorities, requestedAt : 0..MaxClock]

Init ==
  /\ locked = FALSE
  /\ pc = [p \in Procs |-> "idle"]
  /\ arg = [p \in Procs |-> None]
  /\ by = [p \in Procs |-> None]
  /\ obj = [p \in Procs |-> None]
  /\ pending = [p \in Procs |-> {}]
  /\ todo = [p \in Procs |-> {}]
  /\ resources = [r \in ResourceIds |-> None]
  /\ id = [o \in Objects |-> None]
  /\ capacity = [o \in Objects |-> 0]
  /\ inUse = [o \in Objects |-> 0]
  /\ unitStatus = [o \in Objects |-> "available"]
  /\ posted = [o \in Objects |-> 0]
  /\ request = [q \in RequestIds |-> None]
  /\ status = [q \in RequestIds |-> "none"]
  /\ reviewedBy = [q \in RequestIds |-> None]
  /\ clock = 0

-----------------------------------------------------------------------------
(* The aggregates: what the domain methods compute and write.              *)

\* Resource.Available.
AvailableCountsLast(o) == capacity[o] - inUse[o] + 1
Available(o) == capacity[o] - inUse[o]

\* What Release leaves in r.InUse: never below zero.
ReturnedTwice(o, n) == inUse[o] - 2 * n
Returned(o, n) == IF inUse[o] - n < 0 THEN 0 ELSE inUse[o] - n

\* ResourceRequest.Allocate past its checks.
Allocate(o, q) ==
  /\ inUse' = [inUse EXCEPT ![o] = @ + request[q].quantity]
  /\ unitStatus' = [unitStatus EXCEPT ![o] =
                      IF inUse[o] + request[q].quantity >= capacity[o]
                      THEN "in_use" ELSE @]
  /\ status' = [status EXCEPT ![q] = "allocated"]

\* ResourceRequest.Reject; its caller just found the request approved.
Reject(q) ==
  /\ status' = [status EXCEPT ![q] = "rejected"]
  /\ UNCHANGED <<inUse, unitStatus>>

\* ResourceRequest.Release past its check.
ReleaseKeepsStatus(o, q) ==
  /\ inUse' = [inUse EXCEPT ![o] = Returned(o, request[q].quantity)]
  /\ status' = [status EXCEPT ![q] = "released"]
  /\ UNCHANGED unitStatus
Release(o, q) ==
  /\ inUse' = [inUse EXCEPT ![o] = Returned(o, request[q].quantity)]
  /\ unitStatus' = [unitStatus EXCEPT ![o] =
                      IF Returned(o, request[q].quantity) < capacity[o]
                      THEN "available" ELSE @]
  /\ status' = [status EXCEPT ![q] = "released"]

\* The strict order of SortRequestsByPriorityThenTime.
Outranks(a, b) ==
  \/ request[a].priority > request[b].priority
  \/ /\ request[a].priority = request[b].priority
     /\ request[a].requestedAt < request[b].requestedAt

\* Store.PendingRequestsForResource: the approved requests, in the order the
\* map iteration happens to give.
PendingRequests(r) ==
  {q \in RequestIds : status[q] = "approved" /\ request[q].resource = r}

\* Store.GetResource finds one.
RegisteredOrNot(r) == TRUE
Registered(r) == resources[r] # None

\* Store.IsDispatcher.
IsAnyone(d) == TRUE
IsDispatcher(d) == d \in Dispatchers

\* Store.SaveResource stores the caller's pointer under its ID, whatever the
\* map holds by now.
SaveResource(o) == resources' = [resources EXCEPT ![id[o]] = o]

-----------------------------------------------------------------------------
(* The end of a call.                                                      *)

Return(p) ==
  /\ pc' = [pc EXCEPT ![p] = "idle"]
  /\ arg' = [arg EXCEPT ![p] = None]
  /\ by' = [by EXCEPT ![p] = None]
  /\ obj' = [obj EXCEPT ![p] = None]
  /\ pending' = [pending EXCEPT ![p] = {}]
  /\ todo' = [todo EXCEPT ![p] = {}]

UnlockAndReturn(p) == locked' = FALSE /\ Return(p)

\* Lock returned and the checks passed: the call goes on with struct o.
Enter(p, to, o) ==
  /\ locked' = TRUE
  /\ obj' = [obj EXCEPT ![p] = o]
  /\ pc' = [pc EXCEPT ![p] = to]
  /\ UNCHANGED <<arg, by, unitVars, requestVars>>

\* A call of one of the three locked operations arrives and waits for allocMu.
Call(p, op, a) ==
  /\ pc[p] = "idle"
  /\ pc' = [pc EXCEPT ![p] = op]
  /\ arg' = [arg EXCEPT ![p] = a]
  /\ UNCHANGED <<locked, by, obj, pending, todo, unitVars, requestVars>>

CallAllocate(p, q) == Call(p, "allocate", q)
CallArbitrate(p, r) == Call(p, "arbitrate", r)
CallRelease(p, q) == Call(p, "release", q)

-----------------------------------------------------------------------------
(* Registration and requests.                                              *)

\* CreateResource: a new struct o replaces whatever ID r led to.  The posted
\* in_use is kept; only the status is reset.
CreateResource(o, r, c, u) ==
  /\ c > 0
  /\ id[o] = None
  /\ Reregister \/ resources[r] = None
  /\ resources' = [resources EXCEPT ![r] = o]
  /\ id' = [id EXCEPT ![o] = r]
  /\ capacity' = [capacity EXCEPT ![o] = c]
  /\ inUse' = [inUse EXCEPT ![o] = u]
  /\ unitStatus' = [unitStatus EXCEPT ![o] = "available"]
  /\ posted' = [posted EXCEPT ![o] = u]
  /\ UNCHANGED <<locked, callVars, requestVars>>

\* RequestResource under a fresh ID, stamped with the current time t.
RequestResource(q, r, n, pr, t) ==
  /\ n > 0
  /\ Registered(r)
  /\ status[q] = "none"
  /\ request' = [request EXCEPT ![q] =
       [resource |-> r, quantity |-> n, priority |-> pr, requestedAt |-> t]]
  /\ status' = [status EXCEPT ![q] = "pending"]
  /\ clock' = t
  /\ UNCHANGED <<locked, callVars, unitVars, reviewedBy>>

-----------------------------------------------------------------------------
(* ApproveRequest: check, then two writes, all without allocMu.            *)

ApprovingNow(q) == \E p \in Procs : pc[p] = "approve" /\ arg[p] = q

ApproveRequest(p, q, d) ==
  /\ pc[p] = "idle"
  /\ IsDispatcher(d)
  /\ status[q] = "pending"
  /\ OverlappingApprovals \/ ~ApprovingNow(q)
  /\ pc' = [pc EXCEPT ![p] = "approve"]
  /\ arg' = [arg EXCEPT ![p] = q]
  /\ by' = [by EXCEPT ![p] = d]
  /\ UNCHANGED <<locked, obj, pending, todo, unitVars, requestVars>>

\* rr.Status = approved, whatever it is by now.
ApproveStatus(p) ==
  /\ pc[p] = "approve"
  /\ status' = [status EXCEPT ![arg[p]] = "approved"]
  /\ pc' = [pc EXCEPT ![p] = "reviewer"]
  /\ UNCHANGED <<locked, arg, by, obj, pending, todo, unitVars,
                 request, reviewedBy, clock>>

\* rr.ReviewedBy = dispatcherID.
ApproveReviewer(p) ==
  /\ pc[p] = "reviewer"
  /\ reviewedBy' = [reviewedBy EXCEPT ![arg[p]] = by[p]]
  /\ Return(p)
  /\ UNCHANGED <<locked, unitVars, request, status, clock>>

-----------------------------------------------------------------------------
(* AllocateResource.                                                       *)

\* Lock, look up the request and the resource.
AllocateBegin(p) ==
  /\ pc[p] = "allocate"
  /\ ~locked
  /\ status[arg[p]] = "approved"
  /\ Enter(p, "allocating", resources[request[arg[p]].resource])
  /\ UNCHANGED <<pending, todo>>

\* Lock, find the request unknown or not approved, unlock, answer 409.
AllocateRefuse(p) ==
  /\ pc[p] = "allocate"
  /\ ~locked
  /\ status[arg[p]] # "approved"
  /\ Return(p)
  /\ UNCHANGED <<locked, unitVars, requestVars>>

AllocateGrant(p) ==
  /\ pc[p] = "allocating"
  /\ Available(obj[p]) >= request[arg[p]].quantity
  /\ Allocate(obj[p], arg[p])
  /\ SaveResource(obj[p])
  /\ UnlockAndReturn(p)
  /\ UNCHANGED <<id, capacity, posted, request, reviewedBy, clock>>

AllocateRejectsLastUnit(p) ==
  /\ pc[p] = "allocating"
  /\ Available(obj[p]) <= request[arg[p]].quantity
  /\ Reject(arg[p])
  /\ UnlockAndReturn(p)
  /\ UNCHANGED <<resources, id, capacity, posted, request, reviewedBy, clock>>

AllocateReject(p) ==
  /\ pc[p] = "allocating"
  /\ Available(obj[p]) < request[arg[p]].quantity
  /\ Reject(arg[p])
  /\ UnlockAndReturn(p)
  /\ UNCHANGED <<resources, id, capacity, posted, request, reviewedBy, clock>>

-----------------------------------------------------------------------------
(* ArbitrateResource.                                                      *)

\* Lock, look up the resource, take the slice of approved requests.
ArbitrateBegin(p) ==
  /\ pc[p] = "arbitrate"
  /\ ~locked
  /\ Registered(arg[p])
  /\ Enter(p, "arbitrating", resources[arg[p]])
  /\ pending' = [pending EXCEPT ![p] = PendingRequests(arg[p])]
  /\ todo' = [todo EXCEPT ![p] = PendingRequests(arg[p])]

ArbitrateUnknown(p) ==
  /\ pc[p] = "arbitrate"
  /\ ~locked
  /\ ~Registered(arg[p])
  /\ Return(p)
  /\ UNCHANGED <<locked, unitVars, requestVars>>

ArbitrateInMapOrder(p, q) ==
  /\ pc[p] = "arbitrating"
  /\ q \in todo[p]
  /\ todo' = [todo EXCEPT ![p] = @ \ {q}]
  /\ UNCHANGED <<locked, pc, arg, by, obj, pending,
                 resources, id, capacity, posted, request, reviewedBy, clock>>

\* One turn of the loop, on a request nothing left in the sorted slice outranks.
ArbitrateNext(p, q) ==
  /\ pc[p] = "arbitrating"
  /\ q \in todo[p]
  /\ \A b \in todo[p] : ~Outranks(b, q)
  /\ todo' = [todo EXCEPT ![p] = @ \ {q}]
  /\ UNCHANGED <<locked, pc, arg, by, obj, pending,
                 resources, id, capacity, posted, request, reviewedBy, clock>>

ArbitrateGrant(p, q) ==
  /\ ArbitrateNext(p, q)
  /\ Available(obj[p]) >= request[q].quantity
  /\ Allocate(obj[p], q)

ArbitrateReject(p, q) ==
  /\ ArbitrateNext(p, q)
  /\ Available(obj[p]) < request[q].quantity
  /\ Reject(q)

ArbitrateEnd(p) ==
  /\ pc[p] = "arbitrating"
  /\ todo[p] = {}
  /\ SaveResource(obj[p])
  /\ UnlockAndReturn(p)
  /\ UNCHANGED <<id, capacity, inUse, unitStatus, posted, requestVars>>

-----------------------------------------------------------------------------
(* ReleaseResource: the only locked operation without `defer Unlock'.      *)

\* The check of ResourceRequest.Release.
ReleasableAlways(q) == status[q] # "none"
Releasable(q) == status[q] = "allocated"

ReleaseWithoutLock(p) ==
  /\ pc[p] = "release"
  /\ Releasable(arg[p])
  /\ Enter(p, "releasing", resources[request[arg[p]].resource])
  /\ UNCHANGED <<pending, todo>>

\* Lock, look up, find the request allocated.
ReleaseBegin(p) ==
  /\ pc[p] = "release"
  /\ ~locked
  /\ Releasable(arg[p])
  /\ Enter(p, "releasing", resources[request[arg[p]].resource])
  /\ UNCHANGED <<pending, todo>>

\* Lock, find the request unknown or not allocated, answer 400: the early
\* return skips Unlock.
ReleaseFail(p) ==
  /\ pc[p] = "release"
  /\ ~locked
  /\ ~Releasable(arg[p])
  /\ locked' = TRUE
  /\ Return(p)
  /\ UNCHANGED <<unitVars, requestVars>>

ReleaseLocksAgain(p) ==
  /\ pc[p] = "releasing"
  /\ ~locked
  /\ Release(obj[p], arg[p])
  /\ SaveResource(obj[p])
  /\ UnlockAndReturn(p)
  /\ UNCHANGED <<id, capacity, posted, request, reviewedBy, clock>>

ReleaseEnd(p) ==
  /\ pc[p] = "releasing"
  /\ Release(obj[p], arg[p])
  /\ SaveResource(obj[p])
  /\ UnlockAndReturn(p)
  /\ UNCHANGED <<id, capacity, posted, request, reviewedBy, clock>>

-----------------------------------------------------------------------------
(* The service.                                                            *)

\* Steps of a call that only waits for allocMu.
Acquire(p) ==
  \/ AllocateBegin(p) \/ AllocateRefuse(p)
  \/ ArbitrateBegin(p) \/ ArbitrateUnknown(p)
  \/ ReleaseBegin(p) \/ ReleaseFail(p)

\* Steps of a call that nothing can block.
Proceed(p) ==
  \/ ApproveStatus(p) \/ ApproveReviewer(p)
  \/ AllocateGrant(p) \/ AllocateReject(p)
  \/ \E q \in RequestIds : ArbitrateGrant(p, q) \/ ArbitrateReject(p, q)
  \/ ArbitrateEnd(p)
  \/ ReleaseEnd(p)

Clients ==
  \/ \E o \in Objects, r \in ResourceIds, c \in 0..MaxCapacity, u \in PostedInUse :
       CreateResource(o, r, c, u)
  \/ \E q \in RequestIds, r \in ResourceIds, n \in 0..MaxQuantity,
        pr \in Priorities, t \in {clock, clock + 1} \cap (0..MaxClock) :
       RequestResource(q, r, n, pr, t)
  \/ \E p \in Procs, q \in RequestIds :
       \/ \E d \in Actors : ApproveRequest(p, q, d)
       \/ CallAllocate(p, q)
       \/ CallRelease(p, q)
  \/ \E p \in Procs, r \in ResourceIds : CallArbitrate(p, r)

Next == Clients \/ \E p \in Procs : Acquire(p) \/ Proceed(p)

Spec == Init /\ [][Next]_vars

\* Go keeps running a goroutine that can run, and a sync.Mutex that waiters
\* find busy too long hands over in FIFO order (starvation mode), so a waiter
\* cannot be overtaken forever.
Fairness == \A p \in Procs : WF_vars(Proceed(p)) /\ SF_vars(Acquire(p))
FairSpec == Spec /\ Fairness

-----------------------------------------------------------------------------
(* Properties.                                                             *)

\* The calls between a Lock and an Unlock of allocMu.
Critical == {p \in Procs : pc[p] \in Inside}

\* The units a set of requests takes of r, each a pair of the request and a
\* number, so that the sum of their quantities is a cardinality.
UnitsOf(S, r) ==
  {u \in S \X (1..MaxQuantity) :
     request[u[1]].resource = r /\ u[2] <= request[u[1]].quantity}
HeldUnits(r) == UnitsOf({q \in RequestIds : status[q] = "allocated"}, r)

VarsTyped ==
  /\ locked \in BOOLEAN
  /\ pc \in [Procs -> ControlPoints]
  /\ arg \in [Procs -> RequestIds \cup ResourceIds \cup {None}]
  /\ by \in [Procs -> Actors \cup {None}]
  /\ obj \in [Procs -> Objects \cup {None}]
  /\ pending \in [Procs -> SUBSET RequestIds]
  /\ todo \in [Procs -> SUBSET RequestIds]
  /\ resources \in [ResourceIds -> Objects \cup {None}]
  /\ id \in [Objects -> ResourceIds \cup {None}]
  /\ capacity \in [Objects -> Nat]
  /\ inUse \in [Objects -> Int] /\ posted \in [Objects -> Int]
  /\ unitStatus \in [Objects -> {"available", "in_use"}]
  /\ request \in [RequestIds -> Requests \cup {None}]
  /\ status \in [RequestIds -> Statuses]
  /\ reviewedBy \in [RequestIds -> Actors \cup {None}]
  /\ clock \in 0..MaxClock

\* The store's maps: a struct is found under its own ID, an ID that has a struct
\* is never without one, and a stored request is complete and names such an ID.
LookupsSucceed ==
  /\ \A o \in Objects : id[o] # None => resources[id[o]] # None
  /\ \A r \in ResourceIds : resources[r] # None => id[resources[r]] = r
  /\ \A q \in RequestIds : status[q] # "none" =>
       request[q] \in Requests /\ resources[request[q].resource] # None

\* A call's locals are of the kind its control point needs.
CallTyped(p) ==
  /\ pc[p] \in OnRequest => arg[p] \in RequestIds
  /\ pc[p] \in {"arbitrate", "arbitrating"} => arg[p] \in ResourceIds
  /\ pc[p] \in Inside => obj[p] \in Objects /\ id[obj[p]] \in ResourceIds
  /\ pc[p] \in {"approve", "reviewer", "allocating", "releasing"} =>
       status[arg[p]] # "none"
  /\ todo[p] \subseteq {q \in RequestIds : status[q] # "none"}

\* Every variable keeps its type, and what the code looks up without a nil
\* check is there.
TypeOK == VarsTyped /\ LookupsSucceed /\ \A p \in Procs : CallTyped(p)

\* allocMu protects what it is there for: at most one call is between its Lock
\* and its Unlock (AllocateResource, ArbitrateResource, ReleaseResource), and
\* while one is there the mutex is held, though Boolean and without an owner.
Mutex ==
  /\ \A p1, p2 \in Critical : p1 = p2
  /\ Critical # {} => locked

\* The units that the registrations of r ever brought: the capacity of each
\* struct and, as nobody checks the in_use posted with it, the units that a
\* negative one adds.
Least(o) == IF posted[o] < 0 THEN posted[o] ELSE 0
UnitsEver(r) ==
  UNION {{o} \X ((Least(o) + 1)..capacity[o]) : o \in {x \in Objects : id[x] = r}}
UnitsUsed(r) == {u \in UnitsEver(r) : u[2] <= inUse[u[1]]}

\* What a call under allocMu relies on: its struct is one of the resource it
\* decides about, and what it decides about is still approved.
CallCurrent(p) ==
  /\ pc[p] \in {"allocating", "releasing"} => id[obj[p]] = request[arg[p]].resource
  /\ pc[p] = "allocating" => status[arg[p]] = "approved"
  /\ pc[p] = "arbitrating" => id[obj[p]] = arg[p]
  /\ pc[p] # "arbitrating" => todo[p] = {}
  /\ \A q \in todo[p] : status[q] = "approved" /\ request[q].resource = arg[p]

\* The requests whose units are still out: allocated, or on their way back in a
\* release (a late approval may have overwritten their status meanwhile).
Holding ==
  {q \in RequestIds : \/ status[q] = "allocated"
                      \/ \E p \in Procs : pc[p] = "releasing" /\ arg[p] = q}

\* What requests hold of r, its structs count in use, out of the units that were
\* ever brought.
UnitsCovered(r) ==
  /\ IsFiniteSet(UnitsEver(r))
  /\ Cardinality(UnitsOf(Holding, r)) <= Cardinality(UnitsUsed(r))

\* The inductive invariant behind the two bounds.
PoolInv ==
  /\ \A o \in Objects : Least(o) <= inUse[o]
  /\ \A p \in Procs : CallCurrent(p)
  /\ \A r \in ResourceIds : UnitsCovered(r)

\* However often a resource is registered again, under running calls and with
\* units out, and whatever in_use is posted: the requests that stand allocated
\* never hold more units than its registrations brought (service/resource.go:25-34).
OverAllocationBounded ==
  \A r \in ResourceIds : Cardinality(HeldUnits(r)) <= Cardinality(UnitsEver(r))

\* One registration of r, with no negative in_use.
RegisteredOnce(r) == \A o \in Objects : id[o] = r => o = resources[r] /\ posted[o] >= 0

\* Over-allocation is rejected: the requests of a resource that stand allocated
\* never hold more units than its capacity, through allocation, arbitration and
\* release, and even when approvals overlap (service/resource.go:12-13), as long
\* as the resource was registered once and with no negative in_use.
NoOverAllocation ==
  \A r \in ResourceIds : resources[r] # None /\ RegisteredOnce(r) =>
    Cardinality(HeldUnits(r)) <= capacity[resources[r]]

\* A resource registered once counts in use, above what was posted, exactly the
\* units its allocated requests hold: none is lost by a release, a rejection or
\* an arbitration, and none counted twice.
UnitsConserved ==
  \A r \in ResourceIds : resources[r] # None /\ RegisteredOnce(r) =>
    inUse[resources[r]] = posted[resources[r]] + Cardinality(HeldUnits(r))

\* A resource reports "in_use" exactly when no unit of it is free: Allocate sets
\* the status, Release resets it, and both compute it from InUse (a registration
\* does not: it must not post units in use).
StatusAccurate ==
  \A o \in Objects : id[o] # None /\ posted[o] <= 0 =>
    (unitStatus[o] = "in_use" <=> Available(o) <= 0)

\* Units are dispatched only after a dispatcher's review: an allocated request
\* carries a registered dispatcher, or one is just about to be written into it
\* (Approve stores the status first).
AllocatedWasReviewed ==
  \A q \in RequestIds : status[q] = "allocated" =>
    \/ reviewedBy[q] \in Dispatchers
    \/ \E p \in Procs : pc[p] = "reviewer" /\ arg[p] = q /\ by[p] \in Dispatchers

\* Arbitration decides by priority, then time: when it has turned down a request
\* and granted one that the first outranks, the granted one is smaller (it fits
\* where the other did not).
ArbitrationOrder ==
  \A p \in Procs : \A a, b \in pending[p] \ todo[p] :
    /\ status[a] = "rejected"
    /\ status[b] = "allocated"
    /\ \/ request[a].priority > request[b].priority
       \/ /\ request[a].priority = request[b].priority
          /\ request[a].requestedAt < request[b].requestedAt
    => request[b].quantity < request[a].quantity

\* A request only moves forward, pending to approved to allocated to released,
\* or from approved to rejected, however its calls interleave, if only one approval
\* of it is at work at a time (two at once are resource_double_approve's case).
LifecycleForward ==
  [][\A q \in RequestIds : status'[q] # status[q] =>
       <<status[q], status'[q]>> \in
         {<<"none", "pending">>, <<"pending", "approved">>,
          <<"approved", "allocated">>, <<"approved", "rejected">>,
          <<"allocated", "released">>}]_vars

\* The mutex is held and no call is there to unlock it.
LockLeaked == locked /\ Critical = {}

\* A mutex that a release left held stays held, and no call enters again: what the
\* other calls wait for cannot happen any more (service/resource.go:137-151).
LeakIsForEver == [](LockLeaked => []LockLeaked)

\* Every call is answered, unless an earlier release returned without Unlock.
CallsAnsweredUnlessLeaked ==
  \A p \in Procs : pc[p] # "idle" ~> (pc[p] = "idle" \/ LockLeaked)

\* Every call is answered: after a release was turned down, allocation,
\* arbitration and release go on being served
\* (transport/http/resource_release_test.go).
EveryCallAnswered == \A p \in Procs : pc[p] # "idle" ~> pc[p] = "idle"
=============================================================================
