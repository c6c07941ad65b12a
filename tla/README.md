# Patrol dispatch service: verification project

TLA+ models of the patrol dispatch service in `src/`, checked with TLC on small
instances, and theorems about them checked with TLAPS. Sources are named
relative to `src/internal/`.

## The system

One Go process keeps everything in memory. HTTP handlers run in a goroutine per
request and call four services; two background workers call them as well. The
store hands out *pointers* to its structs: its own `RWMutex` covers one map
access at a time, never a read-check-write of an operation. What keeps operations
apart is therefore only the two service mutexes `allocMu` and `outMu`, for the
operations that take them. Nothing is persisted, so there is no recovery.

| Component | State | Operations | Called by |
|---|---|---|---|
| ResourceService (`service/resource.go`, `domain/resource.go`) | resources (capacity, in use, status), resource requests, `allocMu` | create, request, approve, allocate, arbitrate, release | HTTP |
| MaterialService (`service/material.go`, `domain/material.go`) | materials (stock), material requests, `outMu` | create, request (requester signs), manager signs, arbitrate, reject | HTTP |
| DispatchService, incidents (`service/dispatch.go`, `domain/incident.go`) | incidents | report, review, dispatch, respond, resolve, escalate | HTTP, EscalationWorker, SyncService |
| EscalationWorker (`worker/escalation.go`) | none of its own | scan every interval, escalate overdue high-risk incidents | ticker |
| SyncService, SyncReplayWorker (`service/sync.go`, `worker/sync.go`, `domain/sync.go`) | sync entries (status, attempts) | cache, replay | HTTP, ticker |
| DispatchService, tasks (`domain/patrol.go`) | patrol tasks | assign, sign in, confirm missed, start, trajectory, complete | HTTP |
| Actor registry (`store/store.go`) | grids, officers, dispatchers, managers | register | HTTP |
| Configuration (`config/config.go`, `main.go`) | timeouts, intervals, maximum of attempts | load once, at the start | main |
| Store, HTTP transport, IDs, main | maps; routes | | |

What is hard here, and what correct means for each component:

- **Resources.** Over-allocation must be impossible while allocations,
  arbitrations, releases and unlocked approvals interleave; units must be
  conserved; units go out only after a dispatcher's review; arbitration follows
  priority, then time; a refused call must not stop the others.
- **Materials.** Stock must not go negative (it does, `material_repeated_line`) and must be
  accounted for; completion needs a manager's signature; a rejected request took nothing.
- **Incidents.** One incident per idempotency key, unless reports overlap; milestones in order; an overdue
  high-risk incident is escalated or answered in the end, never early, and not
  once somebody responded.
- **Sync.** No report is lost, none is stored twice unless its replays overlap, attempts
  are bounded, every entry is settled in the end.
- **Tasks.** Sign-in before any field work, assignments within the registry, a
  completion that stays one.
- **Configuration.** Whatever the file says, the workers run with usable numbers.

`PROJECT.json` lists every hazard with its line and the properties about it.

## Modules

| Module | Models |
|---|---|
| `ResourceService` | resources, their requests, `allocMu` |
| `ResourcePool` | the abstract promise: a pool of units, one atomic step per decision |
| `ResourceRefinement` | the mapping from ResourceService to ResourcePool |
| `MaterialService` | materials, their requests, `outMu` |
| `StockLedger` | the abstract promise: a ledger of stock, all lines of a request taken in one atomic step, each if it finds enough |
| `MaterialRefinement` | the mapping from MaterialService to StockLedger |
| `IncidentService` | incidents, their operations and the escalation worker |
| `Config` | the configuration a process runs with, as a function of its file |
| `SyncService` | sync entries, their replay by the worker and the endpoint, composed with the reporting steps of IncidentService |
| `PatrolService` | patrol tasks and the actors they are assigned between |
| `ResourceServiceProofs`, `ResourceRefinementProofs` | theorems about ResourceService; that it implements ResourcePool |
| `MaterialServiceProofs`, `MaterialRefinementProofs` | theorems about MaterialService; that it implements StockLedger |
| `IncidentServiceProofs`, `PatrolServiceProofs` | theorems about these services |
| `SyncServiceProofs` | theorems about SyncService: types, no report lost, duplicates only from overlapping reports |
| `MCResourceService`, `MCMaterialService`, `MCIncidentService`, `MCSyncService`, `MCPatrolService` | constants and symmetry for TLC |

Conventions shared by the services:

- **Calls.** `Procs` are the goroutines. `pc[p]` is where p's call stands, and
  `arg`, `by`, `obj` (or `mats`) are its locals. An operation is cut into steps
  only where another goroutine's write could matter: a check and the write that
  relies on it are separate steps, and so are two writes when another operation
  reads the first. Reads and writes that commute with everything else that can
  run are joined. Operations whose whole effect is one map insertion (create,
  request) are one step.
- **Pointers.** `Objects` are the structs. A map takes an ID to a struct; a call
  keeps the struct it looked up, and `SaveResource`, `SaveMaterial` and
  `SaveIncident` put a struct under its ID whatever the map holds by then.
- **Mutexes.** `sync.Mutex` has no owner, so each is a Boolean, `locked`. A call
  that returns without `Unlock` leaves it TRUE.
- **Time** is a small number; a request is stamped with the current or the next
  tick, so that ties happen.
- **Mutants.** Definitions such as `ReturnedTwice` stand before the definition they
  vary. No action uses them; they are the bugs each property was tried against.

### ResourceService

`CreateResource` and `RequestResource` are one step. `ApproveRequest` is three: the
check, the write of the status, the write of the reviewer (`domain/resource.go:69-73`),
none under the mutex. `AllocateResource` is `CallAllocate` (the call arrives),
`AllocateBegin` (Lock, lookups, status check) or `AllocateRefuse` (error answer, deferred
Unlock), then `AllocateGrant` or `AllocateReject`. `ArbitrateResource` takes the slice in
`ArbitrateBegin`, decides one request per step (`ArbitrateGrant`, `ArbitrateReject`; any
request nothing left outranks, since the sort is stable over an unordered map) and saves in
`ArbitrateEnd`. `ReleaseResource` is `ReleaseBegin`/`ReleaseEnd`, or `ReleaseFail`,
which returns with the mutex held, as the code does. A request with status "none"
is one the store does not have, so unknown IDs are covered.

Two constants describe the clients rather than the code: `OverlappingApprovals` (may two
approvals of one request overlap?) and `Reregister` (may an ID be registered
again?). Two theorems need the first to be FALSE, and a run shows why; none needs the
second. A registration of a known ID puts a new struct in the place of the old one while
calls work on it and units are out, so `NoOverAllocation`, `UnitsConserved` and the
pool speak of resources registered once (`RegisteredOnce`), and `OverAllocationBounded` says what is
left for all others. `posted` is a history variable: the in_use a struct was registered with.

### MaterialService

`ManagerSign` is `SignBegin` or `SignRefuse`, then `TakeStock` (every line is
subtracted; manager and signature are written), then `Complete` (status, then
saving). `ArbitrateMaterials` goes through the same two steps for each request it can
serve (`ArbitrateSign`); what it turns down (`ArbitrateReject`) is a step of its own, and so is the
saving of the materials it had looked up for that (`ArbitrateSaveBack`), which may bring back a
material that was registered again meanwhile. `RejectRequest` is check, `RejectManager`,
`RejectStatus`, without the mutex. Managers register at any time (`RegisterManager`). Requests are
stored already signed by their requester, so that signature is no variable. A list may name a
material in several lines: each is checked against the whole stock and all are subtracted, as in
the code. Anybody may call arbitration, which never asks `IsManager`. Two history variables:
`posted`, the stock a struct was registered with, and `arbitrated`, the requests an arbitration
signed. A material may be registered again at any time (`Reregister`), and the account of its stock
runs over all its structs. A material is never removed, so the "material not found" branches of
sign and arbitrate cannot be taken and are left out.

### IncidentService

A report is `ReportIncident` (the key check), then `ReportFound` or `ReportVanished` (the
second search, `findIncidentByKey`) when the key was known, then `SaveIncident`. Reports with one key may
be under way at once; the history variable `overlapping` keeps the pairs that were. The
dispatcher's operations are three steps each: the lookup (`ReviewIncident`, `StartDispatch`,
`RespondIncident`, `ResolveIncident`), the check of the status the struct has by then
(`StatusAccepted`, `StatusRefused`) and the writes. The worker takes the list
(`ScanBegin`), decides for each incident (`ScanSkip`, `ScanChoose`), looks the ID up
again (`EscalateIncident`), checks (`EscalateBegin`, `EscalateFail`) and writes (`EscalateStatus`). Reports
that `Validate` refuses change nothing and are not taken. A report (`Reports`) may carry the ID of
another, its own time and any progress (`Progress`): a status, also one that is none of the
program's ("other"), a reviewer, a response, a resolution, an escalation. What it claims to be past
needs no stamp. Which struct carries which report is a constant, so a run chooses as many
reports as it has structs.

### Config and SyncService

`Config` is sequential, so it is a function: `Loaded` takes a file (`RawConfigs`: its
fields, or `Bad` when it cannot be read or decoded) to the configuration, with
the defaults for missing fields, for a number of attempts that is not positive and, as a
whole, for a file with a bad duration. `Startable` leaves out the intervals that make a
ticker panic. `SyncService` starts in any configuration this yields.

`CacheReport` checks the key, fills the entry in, and saves it in a step of its own
(`CacheSave`). `ReplayPending` takes the slice (`ReplayBegin`), then entry by entry: skip
(`ReplaySkip`), or decode and report. A report that is refused at once leads to
`ReplayFailing` (Attempts is read), `ReplayFailed` (it is written) and `ReplayMarked`: the status, which
depends on the number just written or, because `domain/sync.go:42` reads the field again, on one another
replay wrote meanwhile. Any other becomes a `ReportIncident` of IncidentService on the same goroutine,
with that module's own steps (`ReportStep`, or `ReplayVanished` when an incomplete report loses the
incident it relied on), and then `ReplayUploaded`. IncidentService is instantiated with
reporting only: what happens to an incident later changes neither its ID nor its key.
A payload is complete, incomplete (refused by `Validate`, unless its key is known) or garbage, and
has an ID of its own or none. A report without one gets any unused ID (`ReportId`), which the
model chooses when the report starts.

Clients also post reports (`PostIncident`), with IDs in use and with keys that are cached, pending or
being replayed. `ReuseEntryIds` says whether an entry ID may be cached under twice.

### PatrolService

Registration is one step each, and an officer may be registered again for another grid.
`AssignTask` checks the dispatcher and the officer's grid, `SaveTask` stores the task. The
operations on a task are a check of its status (`SignIn`, `ConfirmMissedSignIn`,
`StartPatrol`, `AddTrajectory`, `CompleteTask`) and their writes: status, then stamp, for the
two ways to sign in (`SignInStatus`, `SignInStamp`); load, store, and another look at the
status for a trajectory point (`AppendLoad`, `AppendStore`, `AppendStarts`, `AppendEnds`). A
trajectory is its length, `MaxPoints` bounds it. `served` is a history variable: the
grids an officer was ever registered for.

## Runs

Deadlock checking is off only in the resource runs: after a failed release with
every goroutine waiting, the service really stops, which `resource_lock_leak` is about
and `LeakIsForEver` makes precise.
All other runs check it.

| Run | Shows |
|---|---|
| `resource_safety` | types, mutual exclusion, no over-allocation, review before allocation, every call answered unless a failed release leaked the mutex, which then stays leaked; approvals overlap, in_use is posted as -1, 0 or 3 |
| `resource_conservation` | units conserved, no more held than registered, status accurate, arbitration by rank (2 priorities, 2 times), requests move only forward, ResourcePool implemented; 2 resources or one registered twice, approvals not overlapping |
| `material_safety` | types, mutual exclusion without leaks, stock below zero only inside one request, stock accounted for, completion signed, arbitration by rank (2 priorities, 2 times), decisions final once no earlier call is at work, StockLedger implemented; 2 materials or one registered twice, lists of up to 2 lines that may name one material twice, anybody arbitrating (0.3 million states) |
| `incident_lifecycle` | types, milestones in order, no early escalation, two incidents with one key only from overlapping reports, closed incidents stay closed once no earlier call is at work, overdue incidents answered or escalated in the end; 2 calls and the worker on 3 reports: two share an ID, two a key, one claims to be resolved and escalated already, one has an unknown status (0.3 million states) |
| `sync_replay` | types, bounded attempts, no upload without an incident, two incidents with one key only from overlapping reports, every entry settled; the worker and one more goroutine that caches, posts and replays, 2 entries out of 3 kinds of report (one has no ID and is complete), posts with the entries' keys and an ID in use, 3 kinds of configuration (0.3 million states) |
| `patrol_tasks` | types, no field work without sign-in, assignments within the registry, completion final once no earlier call is at work; 3 calls on one task, 2 dispatchers, an officer who moves between 2 grids |

Runs that end in a counterexample, each a disagreement of code and documentation:

| Run | What happens |
|---|---|
| `resource_lock_leak` | a release that is turned down never unlocks `allocMu`; all later locked calls wait forever |
| `resource_double_approve` | a late approval revives an allocated request, and its units are never given back |
| `material_repeated_line` | a list with two lines of 1 for a material with a stock of 1 is completed: the stock is -1 |
| `material_reject_race` | a request ends rejected after its stock was taken |
| `incident_late_escalation` | an incident already responded to is escalated |
| `sync_retransmission` | the worker and the endpoint replay one entry at once: the second report is saved over the first or, if the payload has no ID, as a second incident |

More, seen by changing a constant or adding a formula to these runs:

- `NoOverAllocation` without its `RegisteredOnce`: registering an ID again forgets what is in use, and
  a negative in_use is capacity that nobody has; both let requests hold more than the
  capacity. What they hold at most is `OverAllocationBounded`.
- `CompletedWasSigned` without `q \in arbitrated`: arbitration completes an outbound for a caller who is
  no registered manager, although `domain/material.go:32-34` asks for the signature of "the material manager".
- `DuplicatesOverlapped` without the overlap, in `incident_lifecycle`: two posts with one key at once are both
  stored, as in `sync_retransmission`, there without any replay.
- `EscalatedWasDue` with `escalatedAt[o] - reportedAt[o] >= Timeout`: an ID reported again between the
  worker's choice and its second look leads it to the new incident, which it escalates at once.
- `AttemptsBounded` without its first line, with 3 goroutines that replay and a maximum of 2: one of them
  has read the number of attempts before two others count theirs, writes its own back, and the entry,
  still pending, is listed again; attempts reach the maximum plus 3. For three replays no bound of
  one per replay holds, so the property speaks of two (the worker and one call of the endpoint).
- `[][status[t] = "completed" => status'[t] = "completed"]_vars` in `patrol_tasks` fails: a
  sign-in, confirmation, start or first trajectory point that passed its check before a completion
  writes its status after it. `CompletionHolds` is what is left of the promise.

Comments that say something else than the code, without a behaviour to show for it:
`store/store.go:251` and `domain/sync.go:15` speak of CachedAt order, while the entries are
sorted by ReportedAt (`service/sync.go:61`), as the comment at `service/sync.go:15` says.

**Bounds.** Two goroutines show every pairwise race, and no operation waits for two
others. `incident_lifecycle` has the worker as a third actor, so that two late writes can meet.
Two requests are enough to compete for capacity and for arbitration to refuse one
and grant the other in either order. One task shows every race on
a task, since no call touches two. Two sync entries are enough for an order, and `EntryIds`
as many as `Entries`, because no ID is used twice. `Spare` incident structs are kept for
replays, so that posted reports never use up what the worker needs to make progress (short of
structs, `EntriesSettle` would fail). Capacity and quantity up to 2 give exact fit,
too large and partial use. `MaxClock` bounds `Tick` and request stamps only; at most one
struct per ID exists where `Reregister` is FALSE. With `Reregister` TRUE the two structs are two resources
(materials), or one registered twice. The three reports of `incident_lifecycle` are one that is overdue in
the end, one under the same ID and one with the same key, so that every report shares what can be
shared with another. The reports of `sync_replay` are one that each replay gives an ID of its own,
one that is only taken when its key is known, and one that never is.

**Symmetry** is used in runs without liveness only, over goroutines, requests, structs and IDs,
which no definition names.

**Fairness.** A goroutine that can take a step takes one (`WF` of `Proceed`). Waiting for
a mutex is strongly fair, because Go's mutex turns to FIFO hand-over when a waiter
has waited for a millisecond. The ticker keeps firing and time passes (`WF` of `Scan`
and `Tick`). No client has to call anything, so `OverdueIsAnswered` rests on the
worker alone. In `sync_replay` the same holds for the replay worker
(`WF` of its `ReplayBegin`): `EntriesSettle` needs no call of the endpoint.

## Proofs

Every theorem holds for any sets of goroutines, IDs, structs, requests, keys and entries, under
the `ASSUME` of its module and the further assumptions named here. All of them go
the same way: a strengthening of the property that is preserved by every action
(one step per action), usually together with the type invariant. Each `TypeCorrect`
says more than types: every struct that the code looks up without a nil check is
there, and a call's locals fit its control point.

**ResourceService**

- `MutualExclusion` (`Mutex`). That somebody inside implies `locked` is part of it, because the
  Boolean has no owner; the converse is false after a failed release. `LeakNeverHeals` (`LeakIsForEver`) is
  the other side of it: once nobody inside could unlock, nobody ever gets in, so nobody ever does.
- `OverAllocationIsBounded` (`OverAllocationBounded`). No further assumption: approvals overlap, IDs are
  registered again under running calls, any in_use is posted. The structs registered under one ID
  are taken together. A completion works on the struct it looked up, so what counts is that each
  unit a request holds (`Holding`: allocated, or inside a release) is in use in one of them, out of the
  units their registrations ever brought (`UnitsEver`); this is `UnitsCovered`, the heart of
  `PoolInv`. `UnitsOf` makes a sum the cardinality of a set of pairs, so that the library's facts on
  finite sets count units.
- `OverAllocationRejected` (`NoOverAllocation`) follows: of a resource registered once with no negative
  in_use, the registrations brought its capacity.
- `DispatchIsReviewed` (`AllocatedWasReviewed`). No further assumption. A status may be read before
  another call changes it, so `ReviewInv` speaks of what calls are about to grant, and of a reviewer
  who is just about to be written.
- `StatusIsAccurate` (`StatusAccurate`). No further assumption; it leaves out structs that were posted with
  units in use. `StatusInv` adds that every registered struct has a capacity.
- `ArbitrationInOrder` (`ArbitrationOrder`). No further assumption. `OrderInv` relates what an
  arbitration has decided to what is left: nothing left outranks it, and what it turned down would not
  fit now either, for only releases add units and the mutex keeps them out, and a registration does not
  change the struct at hand.
- `StatusMovesForward` (`LifecycleForward`) and `UnitsAreConserved` (`UnitsConserved`). Assume that
  approvals of one request do not overlap (`resource_double_approve` shows why). `AloneInv`: whoever has
  checked a request is alone with it until its status is written. Then every step is one of few visible
  ones (`StepsAreVisible`), which both proofs and the next one rest on.
- `ServiceImplementsPool` (`ImplementsPool`): ResourceService implements ResourcePool under the
  assumption of `UnitsAreConserved`. Each visible step is mapped to a step of the pool or a stutter.

**MaterialService**

- `MutualExclusion` (`Mutex`), here an equivalence: no path leaves `outMu` locked.
- `DualSignature` (`CompletedWasSigned`). No further assumption: anybody may arbitrate, and what an
  arbitration signed is the property's exception. `SignInv` adds what the calls carry.
- `OverdraftOnlyWithinRequest` (`OverdraftIsOneRequest`). No further assumption; lists repeat materials, and
  materials are registered again. `StockInv` says that every line of a request about to be taken finds enough
  in the structs its call looked up (the mutex keeps others from taking meanwhile), so a struct below zero is
  never taken from again; `OpenInv` says that a signed request is never stored anew, so its lines stay.
- `StockAddsUp` (`StockAccounted`). No further assumption; lists may repeat a material, and materials may
  be registered again. What left all structs of a material is what signed requests asked of it, as
  `UnitsGone` and `UnitsTaken` have the same cardinality; `AccountInv` adds that the request of
  a signature that has not taken its stock yet is unsigned.
- `ArbitrationInOrder` (`ArbitrationOrder`). No further assumption. A rejection may decide a request of
  the slice meanwhile, so `OrderInv` speaks of what the arbitration itself decided.
- `DecisionsAreFinal` (`DecisionHolds`). No further assumption: a decided request on which no
  call is past its checks can only be found decided.
- `ServiceImplementsLedger` (`ImplementsLedger`): MaterialService implements StockLedger. No further
  assumption: the ledger takes all lines of a request at once, each if it finds enough by itself. The mapping
  shows the stock of a material registered once, and none (`Lost`) of others. `LedgerInv` adds
  that a call about to complete a request has signed it.

**IncidentService**

- `MilestonesInOrder` (`StampsInOrder`). No further assumption. Late writes bring
  statuses back, so `StampInv` says for each status, and for each call that found it, which stamps there
  are or which status was posted; these are never taken back.
- `NoEarlyEscalation` (`EscalatedWasDue`). No further assumption; IDs may be reused and reports carry any
  progress. The worker passes an ID and writes whatever struct it finds. `EscalationInv`: something high-risk
  that was reported under the ID was overdue when the scan began (`Due`), and `FiledStays` that it stays so.
- `ClosureIsFinal` (`ClosureHolds`). No further assumption. Statuses only ever leave "resolved" and
  "escalated" by a write whose check came before, so a closed incident nobody works on stays closed.
- `DuplicatesOverlap` (`DuplicatesOverlapped`). No further assumption. `OverlapInv` says the same of
  reports under way, among themselves and with stored incidents: a report that found its key unknown
  did so before any other with the key was stored.

**SyncService**

- `TypeCorrect` includes that the settings are numbers for every file (`RunsOnNumbers`). `TypeInv`
  adds that an unsaved report's struct belongs to its call alone (`Fresh`).
- `UploadedReportsAreStored` (`UploadedWasStored`). No further assumption. `UploadInv` adds that a
  call past its report has its key stored, and `KeyStays` that a key once stored stays so.
- `DuplicatesOverlap` (`DuplicatesOverlapped`). No further assumption: any goroutines cache, post and replay,
  with and without IDs in the payloads, and entries of one key may be cached at once. `OverlapInv` as
  in IncidentService.

`AttemptsBounded` is not proved: it is false for three replays at once (above), and holds for two only
through their order of steps, which TLC covers.

**PatrolService**

- `NoWorkBeforeSignIn` (`WorkWasSignedIn`), `AssignmentsWithinRegistry` (`AssignedWithinRegistry`),
  `CompletionIsKept` (`CompletionHolds`): no further assumptions. `WorkInv` and `RegistryInv` carry what a call has
  checked to its writes; `CompletionHolds` is of the form "once P, always P" and needs only
  that no call without an earlier check can write.

Only model-checked: the liveness properties `CallsAnsweredUnlessLeaked`, `OverdueIsAnswered` and
`EntriesSettle`, which need fairness and ENABLED (the provers handle neither), `AttemptsBounded`, and the
runs that end in a counterexample.

TLC also checked, beyond the runs: `PoolInv` with resources registered again, overlapping approvals
and in_use posted as -1, 0 and 3 (2 requests, 2 structs, capacity 2: 0.9 million states; 3 requests
of 1 unit).

## Not modelled

JSON decoding and status codes, read-only endpoints, shutdown, location and
images, reasons and completion stamps that nothing reads. IDs from `newID` are taken to
be unique. Torn reads of Go data races are not modelled: the fields involved are
words or string headers that only ever take a few constant values.

## Plan

In this order:

1. `ResourceService`, its refinement and first proofs: done.
2. `MaterialService`: done. 3. `IncidentService` with the escalation worker: done.
4. `SyncService`, composed with the reporting part of IncidentService, under every
   configuration of `Config`: done. 5. `PatrolService` with the actor registry: done.
6. Proofs of every safety property of the passing runs (but `AttemptsBounded`) and of the refinement to
   ResourcePool: done.
7. What remains true when IDs are registered or reported again, of decided requests and closed
   incidents, and the refinement to StockLedger, each checked and proved: done.
8. Clients that do all the code accepts (repeated lines, unregistered arbitrators, overlapping reports,
   payloads without an ID, posts of what is cached, posted progress): done.
9. Left: an abstract life cycle of patrol tasks and the mapping to it, and a replay instance with three
   goroutines that post, cache and replay, which is beyond what TLC finishes in minutes.
