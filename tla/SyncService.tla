----------------------------- MODULE SyncService -----------------------------
(***************************************************************************)
(* Offline reports: the SyncService (internal/service/sync.go), SyncEntry  *)
(* (internal/domain/sync.go), the SyncReplayWorker                         *)
(* (internal/worker/sync.go) and their map in internal/store/store.go,     *)
(* composed with the reporting of incidents, which is that of              *)
(* IncidentService: a replay runs ReportIncident on its own goroutine, next *)
(* to the reports that come in over HTTP.                                  *)
(*                                                                         *)
(* What happens to an incident after its report changes neither its ID nor *)
(* its key, so the rest of IncidentService stands still here.              *)
(***************************************************************************)
EXTENDS Config, FiniteSets

CONSTANTS
  Procs, Worker,         \* goroutines; the one of the SyncReplayWorker
  IncidentIds, Objects,  \* incident IDs and structs (see IncidentService)
  Keys, None,
  EntryIds, Entries,     \* IDs of sync entries; *SyncEntry structs
  Reports,               \* what a terminal may cache: key, time of the report,
                         \* and the incident in the payload
  Posts,                 \* ID and key of the incidents posted over HTTP, if any
  Spare,                 \* bound: structs kept free for replays
  ReplayEndpoint,        \* is POST /sync/replay used, next to the worker?
  ReuseEntryIds          \* may a client cache under an entry ID in use?

\* The incident in a payload: its ID and key, if it has them, and whether it is
\* complete, fails Validate, or is no JSON.
Payloads == [id : IncidentIds \cup {None}, key : Keys \cup {None},
             form : {"complete", "incomplete", "garbage"}]

Statuses == {"pending", "uploaded", "failed"}
SyncEntry == [id : EntryIds, key : Keys, reportedAt : Nat, payload : Payloads,
              status : Statuses, attempts : Nat]

ASSUME SyncAssumption ==
  /\ Worker \in Procs /\ IsFiniteSet(Procs)
  /\ Reports \subseteq [key : Keys, reportedAt : Nat, payload : Payloads]
  /\ Posts \subseteq [id : IncidentIds \cup {None}, key : Keys \cup {None}]
  /\ Spare \in Nat
  /\ ReplayEndpoint \in BOOLEAN /\ ReuseEntryIds \in BOOLEAN
  /\ None \notin IncidentIds \cup Objects \cup Keys \cup EntryIds \cup Entries \cup SyncEntry

VARIABLES
  cfg,                   \* the loaded configuration
  pc, obj, incidents, id, key, status, overlapping,   \* as in IncidentService
  syncEntries,           \* store.syncEntries: ID -> pointer
  entry,                 \* the SyncEntry structs
  syncPc, todo, cur, tries   \* a call of the SyncService: control point, entries
                         \* still to replay, the entry at hand, Attempts + 1

incidentVars == <<pc, obj, incidents, id, key, status, overlapping>>
syncVars == <<cfg, syncEntries, entry, syncPc, todo, cur, tries>>
vars == <<cfg, pc, obj, incidents, id, key, status, overlapping,
          syncEntries, entry, syncPc, todo, cur, tries>>

\* A report under ID i with key k, of no high risk, and with no progress.
Report(i, k) ==
  [id |-> i, key |-> k, highRisk |-> FALSE, reportedAt |-> 0,
   progress |-> [status |-> "reported", reviewedBy |-> None, responded |-> FALSE,
                 resolved |-> FALSE, escalatedAt |-> None]]

Incidents == INSTANCE IncidentService WITH
  Reports <- [o \in Objects |-> Report(CHOOSE i \in IncidentIds : TRUE, None)],
  Actors <- {}, Dispatchers <- {}, Timeout <- 0, MaxClock <- 0,
  by <- [p \in Procs |-> None],
  scanPc <- "idle", todo <- {}, now <- 0, target <- "none", clock <- 0,
  highRisk <- [o \in Objects |-> FALSE],
  reportedAt <- [o \in Objects |-> 0],
  reviewedBy <- [o \in Objects |-> None],
  responded <- [o \in Objects |-> FALSE],
  resolved <- [o \in Objects |-> FALSE],
  escalatedAt <- [o \in Objects |-> None]

ControlPoints == {"idle", "caching", "replaying", "reporting", "failing", "failed",
                  "marking"}

Init ==
  /\ cfg \in RunningConfigs
  /\ pc = [p \in Procs |-> "idle"]
  /\ obj = [p \in Procs |-> None]
  /\ incidents = [i \in IncidentIds |-> None]
  /\ id = [o \in Objects |-> None]
  /\ key = [o \in Objects |-> None]
  /\ status = [o \in Objects |-> "none"]
  /\ overlapping = {}
  /\ syncEntries = [i \in EntryIds |-> None]
  /\ entry = [e \in Entries |-> None]
  /\ syncPc = [p \in Procs |-> "idle"]
  /\ todo = [p \in Procs |-> {}]
  /\ cur = [p \in Procs |-> None]
  /\ tries = [p \in Procs |-> 0]

Go(p, next) == syncPc' = [syncPc EXCEPT ![p] = next]
Idle(p) == p # Worker /\ pc[p] = "idle" /\ syncPc[p] = "idle"

-----------------------------------------------------------------------------
(* Reports over HTTP.                                                      *)

Pending(e) == entry[e] # None /\ entry[e].status = "pending"

\* The structs not in use.  They are interchangeable, so a report takes any one.
Free == {o \in Objects : id[o] = None}

\* The ID a report gets: its own, or one newID makes up, which is any one unused.
NewIncidentIds == {i \in IncidentIds : incidents[i] = None /\ \A o \in Objects : id[o] # i}
ReportId(i) == IF i = None THEN CHOOSE j \in NewIncidentIds : TRUE ELSE i

ReportIncident(p, i, k) ==
  /\ Free # {}
  /\ i = None => NewIncidentIds # {}
  /\ Incidents!ReportIncident(p, CHOOSE o \in Free : TRUE, Report(ReportId(i), k))

PostIncident(p, i, k) ==
  /\ Idle(p)
  /\ Cardinality(Free) > Spare
  /\ ReportIncident(p, i, k)
  /\ UNCHANGED syncVars

-----------------------------------------------------------------------------
(* CacheReport.                                                            *)

\* The entries the store leads to.
Stored == {syncEntries[i] : i \in EntryIds} \ {None}

SyncEntryByKey(k) == \E e \in Stored : entry[e].key = k

\* No entry has the key yet: one is filled in, under the posted or a new ID.
NewEntry == CHOOSE e \in Entries : entry[e] = None

CacheReport(p, i, r) ==
  /\ Idle(p)
  /\ \E e \in Entries : entry[e] = None
  /\ ~SyncEntryByKey(r.key)
  /\ ReuseEntryIds \/ \A x \in Entries : entry[x] # None => entry[x].id # i
  /\ entry' = [entry EXCEPT ![NewEntry] =
       [id |-> i, key |-> r.key, reportedAt |-> r.reportedAt, payload |-> r.payload,
        status |-> "pending", attempts |-> 0]]
  /\ cur' = [cur EXCEPT ![p] = NewEntry]
  /\ Go(p, "caching")
  /\ UNCHANGED <<incidentVars, cfg, syncEntries, todo, tries>>

SaveSyncEntry(e) == syncEntries' = [syncEntries EXCEPT ![entry[e].id] = e]

CacheSave(p) ==
  /\ syncPc[p] = "caching"
  /\ SaveSyncEntry(cur[p])
  /\ cur' = [cur EXCEPT ![p] = None]
  /\ Go(p, "idle")
  /\ UNCHANGED <<incidentVars, cfg, entry, todo, tries>>

-----------------------------------------------------------------------------
(* ReplayPending, called by the worker's ticker and by the endpoint.       *)

PendingSyncEntries == {e \in Stored : Pending(e)}

ReplayBegin(p) ==
  /\ pc[p] = "idle" /\ syncPc[p] = "idle"
  /\ todo' = [todo EXCEPT ![p] = PendingSyncEntries]
  /\ Go(p, "replaying")
  /\ UNCHANGED <<incidentVars, cfg, syncEntries, entry, cur, tries>>

\* The turn of an entry nothing left in the slice was reported before.
Turn(p, e) ==
  /\ syncPc[p] = "replaying"
  /\ e \in todo[p]
  /\ \A x \in todo[p] : entry[e].reportedAt <= entry[x].reportedAt
  /\ todo' = [todo EXCEPT ![p] = @ \ {e}]
  /\ cur' = [cur EXCEPT ![p] = e]

ExhaustedLater(e) == entry[e].attempts > cfg.SyncMaxAttempts
Exhausted(e) == cfg.SyncMaxAttempts > 0 /\ entry[e].attempts >= cfg.SyncMaxAttempts

ReplaySkip(p, e) ==
  /\ Turn(p, e)
  /\ Exhausted(e)
  /\ UNCHANGED <<incidentVars, cfg, syncEntries, entry, syncPc, tries>>

\* The key replayEntry reports under.
ReportKey(e) ==
  IF entry[e].payload.key = None THEN entry[e].key ELSE entry[e].payload.key

\* ReportIncident knows the key, or Validate passes.
Reportable(e) ==
  \/ entry[e].payload.form = "complete"
  \/ entry[e].payload.form = "incomplete" /\ Incidents!IncidentExistsByKey(ReportKey(e))

ReplayEntry(p, e) ==
  /\ Turn(p, e)
  /\ ~Exhausted(e)
  /\ Reportable(e)
  /\ ReportIncident(p, entry[e].payload.id, ReportKey(e))
  /\ Go(p, "reporting")
  /\ UNCHANGED <<cfg, syncEntries, entry, tries>>

ReplayRefused(p, e) ==
  /\ Turn(p, e)
  /\ ~Exhausted(e)
  /\ ~Reportable(e)
  /\ Go(p, "failing")
  /\ UNCHANGED <<incidentVars, cfg, syncEntries, entry, tries>>

\* The incident whose key was known is gone, and the report is incomplete.
ReplayVanished(p) ==
  /\ syncPc[p] = "reporting" /\ pc[p] = "finding"
  /\ entry[cur[p]].payload.form = "incomplete"
  /\ ~Incidents!IncidentExistsByKey(key[obj[p]])
  /\ Incidents!Discard(obj[p])
  /\ Incidents!Return(p)
  /\ Go(p, "failing")
  /\ UNCHANGED <<incidents, cfg, syncEntries, entry, todo, cur, tries>>

\* The steps of a ReportIncident, replayed or posted.
ReportStep(p) ==
  /\ \/ Incidents!ReportFound(p)
     \/ Incidents!SaveIncident(p)
     \/ /\ syncPc[p] = "reporting" => entry[cur[p]].payload.form = "complete"
        /\ Incidents!ReportVanished(p)
  /\ UNCHANGED syncVars

\* MarkUploaded and SaveSyncEntry, when the report is done (ready) or before.
MarkUploaded(p) ==
  /\ entry' = [entry EXCEPT ![cur[p]].status = "uploaded"]
  /\ SaveSyncEntry(cur[p])
  /\ Go(p, "replaying")
  /\ UNCHANGED <<incidentVars, cfg, todo, cur, tries>>

ReplayUploadedEarly(p) == syncPc[p] \in {"reporting", "failing"} /\ pc[p] = "idle" /\ MarkUploaded(p)
ReplayUploaded(p) == syncPc[p] = "reporting" /\ pc[p] = "idle" /\ MarkUploaded(p)

\* MarkFailed: Attempts is read, then written, and the status after it, which
\* depends on the number written or on another one written meanwhile.
ReplayFailing(p) ==
  /\ syncPc[p] = "failing"
  /\ tries' = [tries EXCEPT ![p] = entry[cur[p]].attempts + 1]
  /\ Go(p, "failed")
  /\ UNCHANGED <<incidentVars, cfg, syncEntries, entry, todo, cur>>

ReplayFailed(p) ==
  /\ syncPc[p] = "failed"
  /\ entry' = [entry EXCEPT ![cur[p]].attempts = tries[p]]
  /\ Go(p, "marking")
  /\ UNCHANGED <<incidentVars, cfg, syncEntries, todo, cur, tries>>

MarkFailedNever(e, n) == entry' = entry
MarkFailed(e, n) ==
  entry' = [entry EXCEPT ![e].status = IF n >= cfg.SyncMaxAttempts THEN "failed" ELSE @]

ReplayMarked(p) ==
  /\ syncPc[p] = "marking"
  /\ \E n \in {tries[p], entry[cur[p]].attempts} : MarkFailed(cur[p], n)
  /\ SaveSyncEntry(cur[p])
  /\ tries' = [tries EXCEPT ![p] = 0]
  /\ Go(p, "replaying")
  /\ UNCHANGED <<incidentVars, cfg, todo, cur>>

ReplayEnd(p) ==
  /\ syncPc[p] = "replaying"
  /\ todo[p] = {}
  /\ cur' = [cur EXCEPT ![p] = None]
  /\ Go(p, "idle")
  /\ UNCHANGED <<incidentVars, cfg, syncEntries, entry, todo, tries>>

-----------------------------------------------------------------------------
(* The service and its worker.                                             *)

Proceed(p) ==
  \/ CacheSave(p)
  \/ \E e \in Entries :
       ReplaySkip(p, e) \/ ReplayRefused(p, e) \/ ReplayEntry(p, e)
  \/ ReplayVanished(p) \/ ReportStep(p) \/ ReplayUploaded(p)
  \/ ReplayFailing(p) \/ ReplayFailed(p) \/ ReplayMarked(p)
  \/ ReplayEnd(p)

Clients ==
  \E p \in Procs :
    \/ \E r \in Posts : PostIncident(p, r.id, r.key)
    \/ \E i \in EntryIds, r \in Reports : CacheReport(p, i, r)
    \/ ReplayEndpoint /\ Idle(p) /\ ReplayBegin(p)

Next == Clients \/ ReplayBegin(Worker) \/ \E p \in Procs : Proceed(p)

Spec == Init /\ [][Next]_vars

\* The ticker keeps firing and a goroutine that can run does.  No client has to
\* call anything.
Fairness == WF_vars(ReplayBegin(Worker)) /\ \A p \in Procs : WF_vars(Proceed(p))
FairSpec == Spec /\ Fairness

-----------------------------------------------------------------------------
(* Properties.                                                             *)

Replaying(p) == syncPc[p] \in {"replaying", "reporting", "failing", "failed",
                               "marking"}

VarsTyped ==
  /\ cfg \in [DOMAIN Default -> Int]
  /\ pc \in [Procs -> {"idle", "finding", "saving"}]
  /\ obj \in [Procs -> Objects \cup {None}]
  /\ incidents \in [IncidentIds -> Objects \cup {None}]
  /\ id \in [Objects -> IncidentIds \cup {None}]
  /\ key \in [Objects -> Keys \cup {None}]
  /\ status \in [Objects -> {"none", "reported"}]
  /\ overlapping \subseteq SUBSET Objects
  /\ syncEntries \in [EntryIds -> Entries \cup {None}]
  /\ entry \in [Entries -> SyncEntry \cup {None}]
  /\ syncPc \in [Procs -> ControlPoints]
  /\ todo \in [Procs -> SUBSET Entries]
  /\ cur \in [Procs -> Entries \cup {None}]
  /\ tries \in [Procs -> Nat]

\* A replay works on filled-in entries, and a call that is over has left nothing
\* behind.
CallTyped(p) ==
  /\ \A e \in todo[p] : entry[e] # None
  /\ cur[p] # None => entry[cur[p]] # None
  /\ syncPc[p] = "idle" => todo[p] = {} /\ cur[p] = None
  /\ syncPc[p] \in {"caching", "reporting", "failing", "failed", "marking"} => cur[p] # None
  /\ syncPc[p] = "caching" => todo[p] = {}
  /\ pc[p] # "idle" => obj[p] # None /\ id[obj[p]] # None
  /\ pc[p] # "idle" => syncPc[p] \in {"idle", "reporting"}

\* Every variable keeps its type: the settings are numbers, the store leads to
\* entries and incidents that carry the ID they are stored under, and calls are
\* complete.
TypeOK ==
  /\ VarsTyped
  /\ \A i \in EntryIds : syncEntries[i] # None =>
       entry[syncEntries[i]] # None /\ entry[syncEntries[i]].id = i
  /\ \A i \in IncidentIds : incidents[i] # None => id[incidents[i]] = i
  /\ \A p \in Procs : CallTyped(p)

\* SyncMaxAttempts bounds the attempts of an entry (config.go, sync.go:59), up to
\* one more if the endpoint's replay had passed the check already when the worker's
\* used them up, or the other way round.  This is for two replays at a time: among
\* three, one that writes back an old count lets the others in again.
Replayers == IF ReplayEndpoint THEN Procs ELSE {Worker}
AttemptsBounded ==
  Cardinality(Replayers) <= 2 =>
    \A e \in Entries : entry[e] # None =>
      entry[e].attempts < cfg.SyncMaxAttempts + Cardinality(Replayers)

BeingReported(o) == \E p \in Procs : pc[p] # "idle" /\ obj[p] = o

\* No report is lost: an entry counts as uploaded only when an incident with its
\* key has been stored, be it from this entry or from an earlier delivery.
UploadedWasStored ==
  \A e \in Entries : entry[e] # None /\ entry[e].status = "uploaded" =>
    \E o \in Objects : id[o] # None /\ key[o] = ReportKey(e) /\ ~BeingReported(o)

\* Two stored incidents share an idempotency key (service/dispatch.go:101-102,
\* service/sync.go:16-18) only if their reports overlapped: a replay that begins when
\* an earlier delivery is stored adds nothing, although the ticker and the endpoint
\* replay the same entries at once, and terminals post what they cached.
DuplicatesOverlapped == Incidents!DuplicatesOverlapped

\* Every cached entry is uploaded or given up in the end; none is retried for ever
\* and none is forgotten.
EntriesSettle ==
  \A e \in Entries : e \in Stored /\ Pending(e) ~> ~Pending(e)

\* A retransmitted report never creates a second incident or overwrites an
\* existing one (service/sync.go:16-18): what is stored has a new key.
RetransmissionHarmless ==
  [][\A o \in Incidents!Stored' \ Incidents!Stored :
       key[o] # None => ~Incidents!IncidentExistsByKey(key[o])]_vars
=============================================================================
