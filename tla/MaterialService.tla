-------------------------- MODULE MaterialService --------------------------
(***************************************************************************)
(* Material outbound: the MaterialService of internal/service/material.go, *)
(* the aggregates of internal/domain/material.go and their two maps in     *)
(* internal/store/store.go.                                                *)
(*                                                                         *)
(* ManagerSign and ArbitrateMaterials serialise on outMu (`locked').       *)
(* RejectRequest does not take it, although it decides the same request:   *)
(* its check, its write of ManagerID and its write of Status may fall      *)
(* anywhere between the steps of the other two.  CreateMaterial replaces   *)
(* the struct an ID leads to, and a completion writes the pointers it      *)
(* looked up back.                                                         *)
(*                                                                         *)
(* A request is stored only after RequesterSign, which cannot fail on the  *)
(* struct CreateRequest has just built; so RequesterSigned is true of      *)
(* every stored request and is not a variable.  Two history variables:     *)
(* `posted' and `arbitrated'.                                              *)
(***************************************************************************)
EXTENDS Integers, FiniteSets, Sequences

CONSTANTS
  Procs,                \* goroutines serving API calls
  MaterialIds,          \* IDs clients register materials under
  RequestIds,           \* request IDs newID will hand out
  Objects,              \* *Material structs, one per accepted registration
  Actors, Managers,     \* callers; IDs clients register as material managers
  ItemLists,            \* item lists a client may post
  Priorities,           \* priorities posted with a request (any int)
  MaxStock, MaxQuantity, MaxLines, MaxClock,  \* bounds on posted ints, on the
                                              \* lines of a list and on time
  Reregister,           \* may a client register an ID a second time?
  None

Lines == [material : MaterialIds, quantity : 0..MaxQuantity]

ASSUME MaterialAssumption ==
  /\ Managers \subseteq Actors
  /\ Priorities \subseteq Int
  /\ MaxStock \in Nat /\ MaxQuantity \in Nat /\ MaxLines \in Nat /\ MaxClock \in Nat
  /\ \A l \in ItemLists : l \in Seq(Lines) /\ Len(l) <= MaxLines
  /\ Reregister \in BOOLEAN
  /\ IsFiniteSet(RequestIds)
  /\ None \notin MaterialIds \cup RequestIds \cup Objects \cup Actors

VARIABLES
  locked,                       \* outMu
  pc, op, arg, by, mats,        \* a call's control point, operation, request,
                                \* manager ID, and its map `materials'
  todo, completed, rejected,    \* an arbitration's slice still to be decided, and
                                \* the requests behind its two counters
  managers,                     \* store.managers: the registered IDs
  materials,                    \* store.materials: ID -> pointer
  id, stock, posted,            \* fields of a Material, and the stock it was
                                \* registered with
  request, status, managerId, managerSigned,  \* fields of a MaterialRequest
  arbitrated,                   \* the requests an arbitration signed
  clock                         \* latest RequestedAt handed out

callVars == <<pc, op, arg, by, mats, todo, completed, rejected>>
stockVars == <<managers, materials, id, stock, posted>>
requestVars == <<request, status, managerId, managerSigned, arbitrated, clock>>
vars == <<locked, pc, op, arg, by, mats, todo, completed, rejected,
          managers, materials, id, stock, posted,
          request, status, managerId, managerSigned, arbitrated, clock>>

Statuses == {"none", "requested", "completed", "rejected"}
ControlPoints == {"idle", "waiting", "signing", "completing", "arbitrating",
                  "turnedDown", "rejecting", "rejected"}
Requests == [items : ItemLists, priority : Priorities, requestedAt : 0..MaxClock]

NoMaterials == [m \in MaterialIds |-> None]

Init ==
  /\ locked = FALSE
  /\ pc = [p \in Procs |-> "idle"]
  /\ op = [p \in Procs |-> None]
  /\ arg = [p \in Procs |-> None]
  /\ by = [p \in Procs |-> None]
  /\ mats = [p \in Procs |-> NoMaterials]
  /\ todo = [p \in Procs |-> {}]
  /\ completed = [p \in Procs |-> {}]
  /\ rejected = [p \in Procs |-> {}]
  /\ managers = {}
  /\ materials = NoMaterials
  /\ id = [o \in Objects |-> None]
  /\ stock = [o \in Objects |-> 0]
  /\ posted = [o \in Objects |-> 0]
  /\ request = [q \in RequestIds |-> None]
  /\ status = [q \in RequestIds |-> "none"]
  /\ managerId = [q \in RequestIds |-> None]
  /\ managerSigned = [q \in RequestIds |-> FALSE]
  /\ arbitrated = {}
  /\ clock = 0

-----------------------------------------------------------------------------
(* Item lists.                                                             *)

Items(q) == request[q].items
LinesFor(q, m) == {i \in DOMAIN Items(q) : Items(q)[i].material = m}
Wanted(q) == {m \in MaterialIds : LinesFor(q, m) # {}}

\* The units of m that the lines of q ask for, one after the other.
DemandUnits(q, m) ==
  {u \in (1..MaxLines) \X (1..MaxQuantity) :
     u[1] \in LinesFor(q, m) /\ u[2] <= Items(q)[u[1]].quantity}
DemandOfFirstLine(q, m) ==
  IF 1 \in LinesFor(q, m) THEN Items(q)[1].quantity ELSE 0
Demand(q, m) == Cardinality(DemandUnits(q, m))

\* The stock check: every line against the whole stock.
SkipsOneUnit(q, f) ==
  \A m \in MaterialIds : \A i \in LinesFor(q, m) :
    stock[f[m]] + 1 >= Items(q)[i].quantity
StockOK(q, f) ==
  \A m \in MaterialIds : \A i \in LinesFor(q, m) :
    stock[f[m]] >= Items(q)[i].quantity

\* The materials the lines of q lead to.
Lookup(q) == [m \in MaterialIds |-> IF m \in Wanted(q) THEN materials[m] ELSE None]

\* The strict order of SortMaterialRequestsByPriorityThenTime.
Outranks(a, b) ==
  \/ request[a].priority > request[b].priority
  \/ /\ request[a].priority = request[b].priority
     /\ request[a].requestedAt < request[b].requestedAt

\* Store.IsManager.
IsAnyone(m) == TRUE
IsManager(m) == m \in managers

\* Store.PendingMaterialRequests.
PendingMaterialRequests == {q \in RequestIds : status[q] = "requested"}

-----------------------------------------------------------------------------
(* Registration and requests.                                              *)

\* RegisterManager.  Nobody is ever unregistered.
RegisterManager(m) ==
  /\ managers' = managers \cup {m}
  /\ UNCHANGED <<locked, callVars, materials, id, stock, posted, requestVars>>

\* CreateMaterial.
CreateMaterial(o, m, s) ==
  /\ s >= 0
  /\ id[o] = None
  /\ Reregister \/ materials[m] = None
  /\ materials' = [materials EXCEPT ![m] = o]
  /\ id' = [id EXCEPT ![o] = m]
  /\ stock' = [stock EXCEPT ![o] = s]
  /\ posted' = [posted EXCEPT ![o] = s]
  /\ UNCHANGED <<managers, locked, callVars, requestVars>>

\* What CreateRequest asks of a line: Store.GetMaterial finds its material, and
\* its quantity is positive.
AnyKnownLine(line) == materials[line.material] # None
LineOK(line) == materials[line.material] # None /\ line.quantity > 0

\* CreateRequest under a fresh ID, stamped with the current time t.
CreateRequest(q, l, pr, t) ==
  /\ l # <<>>
  /\ \A i \in DOMAIN l : LineOK(l[i])
  /\ status[q] = "none"
  /\ request' = [request EXCEPT ![q] = [items |-> l, priority |-> pr, requestedAt |-> t]]
  /\ status' = [status EXCEPT ![q] = "requested"]
  /\ clock' = t
  /\ UNCHANGED <<locked, callVars, stockVars, managerId, managerSigned, arbitrated>>

-----------------------------------------------------------------------------
(* Calls.                                                                  *)

Return(p) ==
  /\ pc' = [pc EXCEPT ![p] = "idle"]
  /\ op' = [op EXCEPT ![p] = None]
  /\ arg' = [arg EXCEPT ![p] = None]
  /\ by' = [by EXCEPT ![p] = None]
  /\ mats' = [mats EXCEPT ![p] = NoMaterials]
  /\ todo' = [todo EXCEPT ![p] = {}]
  /\ completed' = [completed EXCEPT ![p] = {}]
  /\ rejected' = [rejected EXCEPT ![p] = {}]

\* A call of one of the two locked operations arrives and waits for outMu.
Call(p, o, q, m) ==
  /\ pc[p] = "idle"
  /\ pc' = [pc EXCEPT ![p] = "waiting"]
  /\ op' = [op EXCEPT ![p] = o]
  /\ arg' = [arg EXCEPT ![p] = q]
  /\ by' = [by EXCEPT ![p] = m]
  /\ UNCHANGED <<locked, mats, todo, completed, rejected, stockVars, requestVars>>

CallManagerSign(p, q, m) == Call(p, "sign", q, m)
CallArbitrate(p, m) == Call(p, "arbitrate", None, m)

-----------------------------------------------------------------------------
(* ManagerSign.                                                            *)

\* The checks of the service and of the aggregate.
Signable(p) ==
  /\ IsManager(by[p])
  /\ status[arg[p]] = "requested"
  /\ ~managerSigned[arg[p]]
  /\ StockOK(arg[p], materials)

\* The call goes on with the materials its request leads to.
EnterSign(p) ==
  /\ locked' = TRUE
  /\ mats' = [mats EXCEPT ![p] = Lookup(arg[p])]
  /\ pc' = [pc EXCEPT ![p] = "signing"]
  /\ UNCHANGED <<op, arg, by, todo, completed, rejected, stockVars, requestVars>>

\* Lock, look up the request and its materials, pass the checks.
SignBegin(p) ==
  /\ pc[p] = "waiting" /\ op[p] = "sign"
  /\ ~locked
  /\ Signable(p)
  /\ EnterSign(p)

SignRefuseKeepsLock(p) ==
  /\ pc[p] = "waiting" /\ op[p] = "sign"
  /\ ~locked
  /\ ~Signable(p)
  /\ locked' = TRUE
  /\ Return(p)
  /\ UNCHANGED <<stockVars, requestVars>>

\* Lock, fail a check, unlock, answer with the error.
SignRefuse(p) ==
  /\ pc[p] = "waiting" /\ op[p] = "sign"
  /\ ~locked
  /\ ~Signable(p)
  /\ Return(p)
  /\ UNCHANGED <<locked, stockVars, requestVars>>

\* Past the checks: every line is taken from its material, then the manager is
\* written down.
TakeStock(p) ==
  /\ pc[p] = "signing"
  /\ stock' = [o \in Objects |->
       IF \E m \in Wanted(arg[p]) : mats[p][m] = o
       THEN stock[o] - Demand(arg[p], id[o]) ELSE stock[o]]
  /\ managerId' = [managerId EXCEPT ![arg[p]] = by[p]]
  /\ managerSigned' = [managerSigned EXCEPT ![arg[p]] = TRUE]
  /\ arbitrated' = IF op[p] = "arbitrate" THEN arbitrated \cup {arg[p]} ELSE arbitrated
  /\ pc' = [pc EXCEPT ![p] = "completing"]
  /\ UNCHANGED <<locked, op, arg, by, mats, todo, completed, rejected,
                 managers, materials, id, posted, request, status, clock>>

\* SaveMaterial for each material of the call: its pointer replaces whatever the
\* map holds by now.
SaveMaterials(p) ==
  materials' = [m \in MaterialIds |->
                  IF mats[p][m] = None THEN materials[m] ELSE mats[p][m]]

\* Status is written last; a signature then unlocks, an arbitration goes on.
Complete(p) ==
  /\ pc[p] = "completing"
  /\ status' = [status EXCEPT ![arg[p]] = "completed"]
  /\ SaveMaterials(p)
  /\ \/ op[p] = "sign" /\ locked' = FALSE /\ Return(p)
     \/ /\ op[p] = "arbitrate"
        /\ pc' = [pc EXCEPT ![p] = "arbitrating"]
        /\ arg' = [arg EXCEPT ![p] = None]
        /\ mats' = [mats EXCEPT ![p] = NoMaterials]
        /\ completed' = [completed EXCEPT ![p] = @ \cup {arg[p]}]
        /\ UNCHANGED <<locked, op, by, todo, rejected>>
  /\ UNCHANGED <<managers, id, stock, posted, request, managerId, managerSigned, arbitrated,
                 clock>>

-----------------------------------------------------------------------------
(* ArbitrateMaterials.  It never asks whether its caller is a manager.     *)

ArbitrateBegin(p) ==
  /\ pc[p] = "waiting" /\ op[p] = "arbitrate"
  /\ ~locked
  /\ locked' = TRUE
  /\ todo' = [todo EXCEPT ![p] = PendingMaterialRequests]
  /\ pc' = [pc EXCEPT ![p] = "arbitrating"]
  /\ UNCHANGED <<op, arg, by, mats, completed, rejected, stockVars, requestVars>>

TurnInMapOrder(p, q) ==
  /\ pc[p] = "arbitrating"
  /\ q \in todo[p]
  /\ todo' = [todo EXCEPT ![p] = @ \ {q}]
  /\ UNCHANGED <<locked, op, by, completed, stockVars, request, managerSigned,
                 arbitrated, clock>>

\* The turn of a request nothing left in the sorted slice outranks.
Turn(p, q) ==
  /\ pc[p] = "arbitrating"
  /\ q \in todo[p]
  /\ \A b \in todo[p] : ~Outranks(b, q)
  /\ todo' = [todo EXCEPT ![p] = @ \ {q}]
  /\ UNCHANGED <<locked, op, by, completed, stockVars, request, managerSigned,
                 arbitrated, clock>>

ArbitrateSignsRejected(p, q) ==
  /\ Turn(p, q)
  /\ StockOK(q, materials)
  /\ ~managerSigned[q]
  /\ pc' = [pc EXCEPT ![p] = "signing"]
  /\ arg' = [arg EXCEPT ![p] = q]
  /\ mats' = [mats EXCEPT ![p] = Lookup(q)]
  /\ UNCHANGED <<rejected, status, managerId>>

\* Enough stock, and the aggregate lets the manager sign.
ArbitrateSign(p, q) ==
  /\ Turn(p, q)
  /\ StockOK(q, materials)
  /\ status[q] = "requested"
  /\ ~managerSigned[q]
  /\ pc' = [pc EXCEPT ![p] = "signing"]
  /\ arg' = [arg EXCEPT ![p] = q]
  /\ mats' = [mats EXCEPT ![p] = Lookup(q)]
  /\ UNCHANGED <<rejected, status, managerId>>

\* Enough stock, but the request was rejected meanwhile: `continue'.
ArbitrateSkip(p, q) ==
  /\ Turn(p, q)
  /\ StockOK(q, materials)
  /\ status[q] # "requested" \/ managerSigned[q]
  /\ UNCHANGED <<pc, arg, mats, rejected, status, managerId>>

\* Too little stock: reject, and count it whether or not Reject succeeds.
ArbitrateReject(p, q) ==
  /\ Turn(p, q)
  /\ ~StockOK(q, materials)
  /\ IF status[q] = "requested"
     THEN /\ status' = [status EXCEPT ![q] = "rejected"]
          /\ managerId' = [managerId EXCEPT ![q] = by[p]]
     ELSE UNCHANGED <<status, managerId>>
  /\ rejected' = [rejected EXCEPT ![p] = @ \cup {q}]
  /\ pc' = [pc EXCEPT ![p] = "turnedDown"]
  /\ arg' = [arg EXCEPT ![p] = q]
  /\ mats' = [mats EXCEPT ![p] = Lookup(q)]

\* The materials it looked up for the stock check are saved as they are.
ArbitrateSaveBack(p) ==
  /\ pc[p] = "turnedDown"
  /\ SaveMaterials(p)
  /\ pc' = [pc EXCEPT ![p] = "arbitrating"]
  /\ arg' = [arg EXCEPT ![p] = None]
  /\ mats' = [mats EXCEPT ![p] = NoMaterials]
  /\ UNCHANGED <<locked, op, by, todo, completed, rejected, managers, id, stock, posted,
                 requestVars>>

ArbitrateEnd(p) ==
  /\ pc[p] = "arbitrating"
  /\ todo[p] = {}
  /\ locked' = FALSE
  /\ Return(p)
  /\ UNCHANGED <<stockVars, requestVars>>

-----------------------------------------------------------------------------
(* RejectRequest, without outMu.                                           *)

\* The checks pass.
RejectRequest(p, q, m) ==
  /\ pc[p] = "idle"
  /\ IsManager(m)
  /\ status[q] = "requested"
  /\ pc' = [pc EXCEPT ![p] = "rejecting"]
  /\ op' = [op EXCEPT ![p] = "reject"]
  /\ arg' = [arg EXCEPT ![p] = q]
  /\ by' = [by EXCEPT ![p] = m]
  /\ UNCHANGED <<locked, mats, todo, completed, rejected, stockVars, requestVars>>

\* m.ManagerID = managerID.
RejectManager(p) ==
  /\ pc[p] = "rejecting"
  /\ managerId' = [managerId EXCEPT ![arg[p]] = by[p]]
  /\ pc' = [pc EXCEPT ![p] = "rejected"]
  /\ UNCHANGED <<locked, op, arg, by, mats, todo, completed, rejected, stockVars,
                 request, status, managerSigned, arbitrated, clock>>

\* m.Status = rejected, whatever it is by now.
RejectStatus(p) ==
  /\ pc[p] = "rejected"
  /\ status' = [status EXCEPT ![arg[p]] = "rejected"]
  /\ Return(p)
  /\ UNCHANGED <<locked, stockVars, request, managerId, managerSigned, arbitrated, clock>>

-----------------------------------------------------------------------------
(* The service.                                                            *)

Acquire(p) == SignBegin(p) \/ SignRefuse(p) \/ ArbitrateBegin(p)

Proceed(p) ==
  \/ TakeStock(p) \/ Complete(p)
  \/ \E q \in RequestIds :
       ArbitrateSign(p, q) \/ ArbitrateSkip(p, q) \/ ArbitrateReject(p, q)
  \/ ArbitrateSaveBack(p) \/ ArbitrateEnd(p)
  \/ RejectManager(p) \/ RejectStatus(p)

Clients ==
  \/ \E m \in Managers : RegisterManager(m)
  \/ \E o \in Objects, m \in MaterialIds, s \in -1..MaxStock : CreateMaterial(o, m, s)
  \/ \E q \in RequestIds, l \in ItemLists, pr \in Priorities,
        t \in {clock, clock + 1} \cap (0..MaxClock) : CreateRequest(q, l, pr, t)
  \/ \E p \in Procs, q \in RequestIds, m \in Actors :
       CallManagerSign(p, q, m) \/ RejectRequest(p, q, m)
  \/ \E p \in Procs, m \in Actors : CallArbitrate(p, m)

Next == Clients \/ \E p \in Procs : Acquire(p) \/ Proceed(p)

Spec == Init /\ [][Next]_vars

-----------------------------------------------------------------------------
(* Properties.                                                             *)

Critical ==
  {p \in Procs : pc[p] \in {"signing", "completing", "arbitrating", "turnedDown"}}

VarsTyped ==
  /\ locked \in BOOLEAN
  /\ pc \in [Procs -> ControlPoints]
  /\ op \in [Procs -> {"sign", "arbitrate", "reject", None}]
  /\ arg \in [Procs -> RequestIds \cup {None}]
  /\ by \in [Procs -> Actors \cup {None}]
  /\ mats \in [Procs -> [MaterialIds -> Objects \cup {None}]]
  /\ todo \in [Procs -> SUBSET RequestIds]
  /\ completed \in [Procs -> SUBSET RequestIds]
  /\ rejected \in [Procs -> SUBSET RequestIds]
  /\ managers \subseteq Managers
  /\ materials \in [MaterialIds -> Objects \cup {None}]
  /\ id \in [Objects -> MaterialIds \cup {None}]
  /\ stock \in [Objects -> Int] /\ posted \in [Objects -> Nat]
  /\ request \in [RequestIds -> Requests \cup {None}]
  /\ status \in [RequestIds -> Statuses]
  /\ managerId \in [RequestIds -> Actors \cup {None}]
  /\ managerSigned \in [RequestIds -> BOOLEAN] /\ arbitrated \subseteq RequestIds
  /\ clock \in 0..MaxClock

\* A stored request names registered materials and positive quantities.
RequestTyped(q) == status[q] # "none" =>
  /\ request[q] \in Requests
  /\ Items(q) # <<>>
  /\ \A i \in DOMAIN Items(q) :
       materials[Items(q)[i].material] # None /\ Items(q)[i].quantity > 0

\* A call past its checks works on a stored request, and a completion on the
\* structs of exactly the materials its request names.
CallTyped(p) ==
  /\ pc[p] # "idle" => by[p] \in Actors
  /\ pc[p] = "waiting" =>
       op[p] = "arbitrate" \/ (op[p] = "sign" /\ arg[p] \in RequestIds)
  /\ pc[p] \in {"arbitrating", "turnedDown"} => op[p] = "arbitrate"
  /\ pc[p] \in {"signing", "completing", "turnedDown", "rejecting", "rejected"} =>
       arg[p] \in RequestIds /\ status[arg[p]] # "none"
  /\ pc[p] \in {"signing", "completing", "turnedDown"} =>
       /\ op[p] \in {"sign", "arbitrate"}
       /\ \A m \in MaterialIds :
            IF m \in Wanted(arg[p]) THEN mats[p][m] # None /\ id[mats[p][m]] = m
                                    ELSE mats[p][m] = None
  /\ \A q \in todo[p] : status[q] # "none"

\* Every variable keeps its type, the store leads to structs that carry the ID
\* they are stored under, and requests and calls are complete.
TypeOK ==
  /\ VarsTyped
  /\ \A m \in MaterialIds : materials[m] # None => id[materials[m]] = m
  /\ \A q \in RequestIds : RequestTyped(q)
  /\ \A p \in Procs : CallTyped(p)

\* outMu serialises the completions: at most one call is between Lock and
\* Unlock, and the mutex is held exactly then, so that no refused or finished
\* call keeps the others waiting (both operations defer Unlock).
Mutex ==
  /\ \A p1, p2 \in Critical : p1 = p2
  /\ locked <=> Critical # {}

\* Stock is never negative: a material cannot be registered so, and completions
\* take only what is there (service/material.go:26-27, :99-101).
StockNeverNegative == \A o \in Objects : stock[o] >= 0

\* The struct o went below zero in the completion of q, although it had enough for
\* each single line of q.
OverdrawnBy(o, q) ==
  /\ managerSigned[q]
  /\ LinesFor(q, id[o]) # {}
  /\ \A i \in LinesFor(q, id[o]) : stock[o] + Demand(q, id[o]) >= Items(q)[i].quantity

\* The check of every completion and its decrement see the same stock, through
\* arbitrations, repeated registrations and stale pointers: stock goes below zero
\* only in one request that names the material in several lines, each of which
\* finds enough (domain/material.go:76-87 checks line by line and subtracts all).
OverdraftIsOneRequest ==
  \A o \in Objects : stock[o] < 0 => \E q \in RequestIds : OverdrawnBy(o, q)

\* The units that left the structs registered as m, and the units that the lines
\* of signed requests ask for.
UnitsGone(m) ==
  UNION {{o} \X ((stock[o] + 1)..posted[o]) : o \in {x \in Objects : id[x] = m}}
UnitsTaken(m) ==
  {u \in RequestIds \X ((1..MaxLines) \X (1..MaxQuantity)) :
     managerSigned[u[1]] /\ u[2] \in DemandUnits(u[1], m)}

\* What left the warehouse is what the requests a manager signed for took, however
\* signatures, arbitration, rejections and further registrations of a material
\* interleave: nothing is taken twice and nothing gets lost.
StockAccounted ==
  /\ \A o \in Objects : stock[o] <= posted[o]
  /\ \A m \in MaterialIds : Cardinality(UnitsGone(m)) = Cardinality(UnitsTaken(m))

\* An outbound is complete only over a signature, and over that of a registered
\* manager unless an arbitration signed it: the other operations ask
\* Store.IsManager, also the rejection that writes its manager's name over the
\* signer's late, while ArbitrateMaterials takes any manager_id
\* (service/material.go:78, :102, :157).
CompletedWasSigned ==
  \A q \in RequestIds : status[q] = "completed" =>
    managerSigned[q] /\ (managerId[q] \in managers \/ q \in arbitrated)

\* A rejected request took nothing out of the warehouse.
RejectedTookNothing ==
  \A q \in RequestIds : status[q] = "rejected" => ~managerSigned[q]

\* A request some call is past its checks for.
WorkedOn(q) ==
  \E p \in Procs : arg[p] = q /\ pc[p] \in {"signing", "completing", "rejecting", "rejected"}
Settled(q) == status[q] \in {"completed", "rejected"} /\ ~WorkedOn(q)

\* A decision that no earlier call interferes with is final: neither a signature nor
\* a rejection nor an arbitration, even one that listed the request before, decides
\* it again (domain/material.go:67-68, :97-98).
DecisionHolds ==
  [][\A q \in RequestIds : Settled(q) =>
       Settled(q)' /\ UNCHANGED <<status[q], managerId[q], managerSigned[q]>>]_vars

\* One registration of m.
RegisteredOnce(m) == \A x, y \in Objects : id[x] = m /\ id[y] = m => x = y

\* Arbitration decides by priority, then time: when it turned a request down and
\* completed one that the first outranks, the first asked for more of some
\* material than any line of the second, unless a material of the first was
\* registered again (which may bring new stock).
ArbitrationOrder ==
  \A p \in Procs : \A a \in rejected[p], b \in completed[p] :
    /\ \/ request[a].priority > request[b].priority
       \/ /\ request[a].priority = request[b].priority
          /\ request[a].requestedAt < request[b].requestedAt
    /\ \A i \in DOMAIN Items(a) : RegisteredOnce(Items(a)[i].material)
    => \E i \in DOMAIN Items(a) : \A j \in DOMAIN Items(b) :
         Items(b)[j].material = Items(a)[i].material =>
           Items(b)[j].quantity < Items(a)[i].quantity

=============================================================================
