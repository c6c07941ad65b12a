-------------------------- MODULE IncidentService --------------------------
(***************************************************************************)
(* Incidents: their part of the DispatchService                            *)
(* (internal/service/dispatch.go), the Incident aggregate                  *)
(* (internal/domain/incident.go), their map in internal/store/store.go and *)
(* the EscalationWorker (internal/worker/escalation.go).                   *)
(*                                                                         *)
(* Nothing serialises these operations: each checks a struct it reached    *)
(* through the store and writes it later, next to the other API calls      *)
(* (Procs) and to the worker's scan.  The store's own lock covers one map  *)
(* access at a time.                                                       *)
(***************************************************************************)
EXTENDS Integers, FiniteSets

CONSTANTS
  Procs,                 \* goroutines serving API calls
  IncidentIds,           \* IDs clients post, or newID hands out
  Objects,               \* *Incident structs, one per report being saved
  Keys,                  \* idempotency keys
  Reports,               \* the report each struct is posted with
  Actors, Dispatchers,   \* callers of review; those registered as dispatchers
  Timeout,               \* cfg.EscalationTimeout, in ticks of the clock
  MaxClock,              \* bound on time
  None

\* "none" before the report, "other" for any text that is none of the program's.
Statuses == {"none", "reported", "reviewed", "dispatching", "responding",
             "resolved", "escalated", "other"}
\* The fields of an Incident that change after its report, which a report may carry
\* too: the handler decodes all of them (RespondedAt and ResolvedAt: set or not).
Progress == [status : Statuses, reviewedBy : Actors \cup {None}, responded : BOOLEAN,
             resolved : BOOLEAN, escalatedAt : 0..MaxClock \cup {None}]
NoProgress == [status |-> "none", reviewedBy |-> None, responded |-> FALSE,
               resolved |-> FALSE, escalatedAt |-> None]
\* A report: the ID, which others may have too, the key if there is one, whether it
\* is high-risk, and the time it gives, in the past or not.
Report == [id : IncidentIds, key : Keys \cup {None}, highRisk : BOOLEAN,
           reportedAt : 0..MaxClock, progress : Progress]

ASSUME IncidentAssumption ==
  /\ Dispatchers \subseteq Actors
  /\ Timeout \in Int /\ MaxClock \in Nat
  /\ Reports \in [Objects -> {r \in Report : r.progress.status # "none"}]
  /\ None \notin IncidentIds \cup Objects \cup Actors

VARIABLES
  pc, obj, by,            \* a call's control point, its struct, its dispatcher
  scanPc, todo, now, target,  \* the worker: control point, listed structs not yet
                          \* visited, scan time, struct being escalated
  incidents,              \* store.incidents: ID -> pointer
  id, key, highRisk, reportedAt,          \* fields of an Incident set once,
  status, reviewedBy, responded, resolved, escalatedAt,   \* and those that change
  overlapping,            \* history: the pairs of reports with one key that were at
                          \* work at one time
  clock

callVars == <<pc, obj, by>>
scanVars == <<scanPc, todo, now, target>>
reportVars == <<id, key, highRisk, reportedAt, overlapping>>
stampVars == <<reviewedBy, responded, resolved, escalatedAt>>
vars == <<pc, obj, by, scanPc, todo, now, target, incidents,
          id, key, highRisk, reportedAt, status, reviewedBy, responded, resolved,
          escalatedAt, overlapping, clock>>

RespondsUnreviewed ==
  [toReview |-> {"reported"}, toDispatch |-> {"reviewed"},
   toRespond |-> {"reported", "dispatching", "reviewed"}, toResolve |-> {"responding"}]

\* Before an operation's check of the status; the statuses it starts from; and past it.
Unchecked == {"toReview", "toDispatch", "toRespond", "toResolve"}
Expected == [toReview |-> {"reported"}, toDispatch |-> {"reviewed"},
             toRespond |-> {"dispatching", "reviewed"}, toResolve |-> {"responding"}]
Checked == [toReview |-> "review", toDispatch |-> "dispatch", toRespond |-> "respond",
            toResolve |-> "resolve"]
ControlPoints ==
  {"idle", "finding", "saving", "review", "reviewer", "dispatch", "respond", "resolve"}
    \cup Unchecked

Init ==
  /\ pc = [p \in Procs |-> "idle"]
  /\ obj = [p \in Procs |-> None]
  /\ by = [p \in Procs |-> None]
  /\ scanPc = "idle" /\ todo = {} /\ now = 0 /\ target = None
  /\ incidents = [i \in IncidentIds |-> None]
  /\ id = [o \in Objects |-> None]
  /\ key = [o \in Objects |-> None]
  /\ highRisk = [o \in Objects |-> FALSE]
  /\ reportedAt = [o \in Objects |-> 0]
  /\ status = [o \in Objects |-> "none"]
  /\ reviewedBy = [o \in Objects |-> None]
  /\ responded = [o \in Objects |-> FALSE]
  /\ resolved = [o \in Objects |-> FALSE]
  /\ escalatedAt = [o \in Objects |-> None]
  /\ overlapping = {}
  /\ clock = 0

\* The structs the store leads to.
Stored == {incidents[i] : i \in IncidentIds} \ {None}

\* time.Now() moves on.
Tick ==
  /\ clock < MaxClock
  /\ clock' = clock + 1
  /\ UNCHANGED <<callVars, scanVars, incidents, reportVars, status, stampVars>>

-----------------------------------------------------------------------------
(* ReportIncident.                                                         *)

\* Store.IncidentExistsByKey.
IncidentExistsById(k) == \E o \in Stored : id[o] = k
IncidentExistsByKey(k) == k # None /\ \E o \in Stored : key[o] = k

\* The reports under way that carry key k, each paired with struct o.
Overlaps(o, k) ==
  {{o, obj[p]} : p \in {q \in Procs : /\ pc[q] \in {"finding", "saving"}
                                      /\ k # None /\ key[obj[q]] = k}}

Return(p) ==
  /\ pc' = [pc EXCEPT ![p] = "idle"]
  /\ obj' = [obj EXCEPT ![p] = None]
  /\ by' = [by EXCEPT ![p] = None]

\* A report arrives: struct o with the posted fields (a zero time becomes now,
\* an empty status "reported"; a posted status or stamp is kept).  A known key leads
\* to the search for the incident that has it.  A report without location or image
\* changes nothing, so only reports that pass Validate are taken here.
ReportIncident(p, o, r) ==
  /\ pc[p] = "idle"
  /\ id[o] = None
  /\ pc' = [pc EXCEPT ![p] = IF IncidentExistsByKey(r.key) THEN "finding" ELSE "saving"]
  /\ obj' = [obj EXCEPT ![p] = o]
  /\ id' = [id EXCEPT ![o] = r.id]
  /\ key' = [key EXCEPT ![o] = r.key]
  /\ highRisk' = [highRisk EXCEPT ![o] = r.highRisk]
  /\ reportedAt' = [reportedAt EXCEPT ![o] = r.reportedAt]
  /\ status' = [status EXCEPT ![o] = r.progress.status]
  /\ reviewedBy' = [reviewedBy EXCEPT ![o] = r.progress.reviewedBy]
  /\ responded' = [responded EXCEPT ![o] = r.progress.responded]
  /\ resolved' = [resolved EXCEPT ![o] = r.progress.resolved]
  /\ escalatedAt' = [escalatedAt EXCEPT ![o] = r.progress.escalatedAt]
  /\ overlapping' = overlapping \cup Overlaps(o, r.key)
  /\ UNCHANGED <<by, scanVars, incidents, clock>>

\* The posted struct is dropped.
Discard(o) ==
  /\ id' = [id EXCEPT ![o] = None]
  /\ key' = [key EXCEPT ![o] = None]
  /\ highRisk' = [highRisk EXCEPT ![o] = FALSE]
  /\ reportedAt' = [reportedAt EXCEPT ![o] = 0]
  /\ status' = [status EXCEPT ![o] = "none"]
  /\ reviewedBy' = [reviewedBy EXCEPT ![o] = None]
  /\ responded' = [responded EXCEPT ![o] = FALSE]
  /\ resolved' = [resolved EXCEPT ![o] = FALSE]
  /\ escalatedAt' = [escalatedAt EXCEPT ![o] = None]
  /\ overlapping' = {pair \in overlapping : o \notin pair}

\* findIncidentByKey finds it: the existing incident is the answer.
ReportFound(p) ==
  /\ pc[p] = "finding"
  /\ IncidentExistsByKey(key[obj[p]])
  /\ Discard(obj[p])
  /\ Return(p)
  /\ UNCHANGED <<scanVars, incidents, clock>>

\* It is gone by now (its ID was reported again under another key): go on.
ReportVanished(p) ==
  /\ pc[p] = "finding"
  /\ ~IncidentExistsByKey(key[obj[p]])
  /\ pc' = [pc EXCEPT ![p] = "saving"]
  /\ UNCHANGED <<obj, by, scanVars, incidents, reportVars, status, stampVars, clock>>

\* SaveIncident, over whatever the ID led to.
SaveIncident(p) ==
  /\ pc[p] = "saving"
  /\ incidents' = [incidents EXCEPT ![id[obj[p]]] = obj[p]]
  /\ Return(p)
  /\ UNCHANGED <<scanVars, reportVars, status, stampVars, clock>>

-----------------------------------------------------------------------------
(* The dispatcher's operations: look the incident up, check, then write.   *)

\* Store.GetIncident.
Lookup(p, i, op, d) ==
  /\ pc[p] = "idle"
  /\ incidents[i] # None
  /\ pc' = [pc EXCEPT ![p] = op]
  /\ obj' = [obj EXCEPT ![p] = incidents[i]]
  /\ by' = [by EXCEPT ![p] = d]
  /\ UNCHANGED <<scanVars, incidents, reportVars, status, stampVars, clock>>

ReviewIncident(p, i, d) == d \in Dispatchers /\ Lookup(p, i, "toReview", d)
StartDispatch(p, i) == Lookup(p, i, "toDispatch", None)
RespondIncident(p, i) == Lookup(p, i, "toRespond", None)
ResolveIncident(p, i) == Lookup(p, i, "toResolve", None)

\* The status it has by now is one the operation starts from.
StatusAccepted(p) ==
  /\ pc[p] \in Unchecked
  /\ status[obj[p]] \in Expected[pc[p]]
  /\ pc' = [pc EXCEPT ![p] = Checked[pc[p]]]
  /\ UNCHANGED <<obj, by, scanVars, incidents, reportVars, status, stampVars, clock>>

\* It is not: the operation returns an error.
StatusRefused(p) ==
  /\ pc[p] \in Unchecked
  /\ status[obj[p]] \notin Expected[pc[p]]
  /\ Return(p)
  /\ UNCHANGED <<scanVars, incidents, reportVars, status, stampVars, clock>>

SetStatus(p, s) == status' = [status EXCEPT ![obj[p]] = s]

ReviewStatus(p) ==
  /\ pc[p] = "review"
  /\ SetStatus(p, "reviewed")
  /\ pc' = [pc EXCEPT ![p] = "reviewer"]
  /\ UNCHANGED <<obj, by, scanVars, incidents, reportVars, stampVars, clock>>

ReviewReviewer(p) ==
  /\ pc[p] = "reviewer"
  /\ reviewedBy' = [reviewedBy EXCEPT ![obj[p]] = by[p]]
  /\ Return(p)
  /\ UNCHANGED <<scanVars, incidents, reportVars, status, responded, resolved,
                 escalatedAt, clock>>

DispatchStatus(p) ==
  /\ pc[p] = "dispatch"
  /\ SetStatus(p, "dispatching")
  /\ Return(p)
  /\ UNCHANGED <<scanVars, incidents, reportVars, stampVars, clock>>

RespondStatus(p) ==
  /\ pc[p] = "respond"
  /\ SetStatus(p, "responding")
  /\ responded' = [responded EXCEPT ![obj[p]] = TRUE]
  /\ Return(p)
  /\ UNCHANGED <<scanVars, incidents, reportVars, reviewedBy, resolved, escalatedAt,
                 clock>>

ResolveStatus(p) ==
  /\ pc[p] = "resolve"
  /\ SetStatus(p, "resolved")
  /\ resolved' = [resolved EXCEPT ![obj[p]] = TRUE]
  /\ Return(p)
  /\ UNCHANGED <<scanVars, incidents, reportVars, reviewedBy, responded, escalatedAt,
                 clock>>

-----------------------------------------------------------------------------
(* EscalationWorker.scanOnce.                                              *)

EscalatesAtOnce(o) ==
  highRisk[o] /\ status[o] \notin {"responding", "resolved", "escalated"}
ForgetsDispatching(o) ==
  /\ highRisk[o]
  /\ status[o] \notin {"dispatching", "responding", "resolved", "escalated"}
  /\ now - reportedAt[o] >= Timeout

\* Incident.ShouldEscalate, at the scan's time.
ShouldEscalate(o) ==
  /\ highRisk[o]
  /\ status[o] \notin {"responding", "resolved", "escalated"}
  /\ now - reportedAt[o] >= Timeout

\* The ticker fires: list the high-risk incidents.
ScanBegin ==
  /\ scanPc = "idle"
  /\ scanPc' = "scanning"
  /\ now' = clock
  /\ todo' = {o \in Stored : highRisk[o]}
  /\ UNCHANGED <<target, callVars, incidents, reportVars, status, stampVars, clock>>

ScanSkip(o) ==
  /\ scanPc = "scanning"
  /\ o \in todo
  /\ ~ShouldEscalate(o)
  /\ todo' = todo \ {o}
  /\ UNCHANGED <<scanPc, now, target, callVars, incidents, reportVars, status,
                 stampVars, clock>>

ScanChoose(o) ==
  /\ scanPc = "scanning"
  /\ o \in todo
  /\ ShouldEscalate(o)
  /\ todo' = todo \ {o}
  /\ target' = o
  /\ scanPc' = "chosen"
  /\ UNCHANGED <<now, callVars, incidents, reportVars, status, stampVars, clock>>

\* EscalateIncident looks the ID up again.
EscalateIncident ==
  /\ scanPc = "chosen"
  /\ target' = incidents[id[target]]
  /\ scanPc' = "found"
  /\ UNCHANGED <<todo, now, callVars, incidents, reportVars, status, stampVars, clock>>

\* Escalate checks what that found.
Escalatable(o) == status[o] \notin {"resolved", "escalated"} /\ highRisk[o]

EscalateUnchecked ==
  /\ scanPc = "found"
  /\ scanPc' = "escalating"
  /\ UNCHANGED <<todo, now, target, callVars, incidents, reportVars, status, stampVars,
                 clock>>

EscalateBegin ==
  /\ scanPc = "found"
  /\ Escalatable(target)
  /\ scanPc' = "escalating"
  /\ UNCHANGED <<todo, now, target, callVars, incidents, reportVars, status, stampVars,
                 clock>>

EscalateFailGoesOn ==
  /\ scanPc = "found"
  /\ ~Escalatable(target)
  /\ target' = None
  /\ scanPc' = "escalating"
  /\ UNCHANGED <<todo, now, callVars, incidents, reportVars, status, stampVars, clock>>

\* Escalate returns an error: log it and continue.
EscalateFail ==
  /\ scanPc = "found"
  /\ ~Escalatable(target)
  /\ target' = None
  /\ scanPc' = "scanning"
  /\ UNCHANGED <<todo, now, callVars, incidents, reportVars, status, stampVars, clock>>

\* Escalate writes the status and the time the call was made, which is at or
\* after the scan's.
EscalateStatus ==
  /\ scanPc = "escalating"
  /\ status' = [status EXCEPT ![target] = "escalated"]
  /\ \E t \in now..clock : escalatedAt' = [escalatedAt EXCEPT ![target] = t]
  /\ target' = None
  /\ scanPc' = "scanning"
  /\ UNCHANGED <<todo, now, callVars, incidents, reportVars, reviewedBy, responded,
                 resolved, clock>>

ScanEnd ==
  /\ scanPc = "scanning"
  /\ todo = {}
  /\ scanPc' = "idle"
  /\ now' = 0
  /\ UNCHANGED <<todo, target, callVars, incidents, reportVars, status, stampVars, clock>>

-----------------------------------------------------------------------------
(* The service and its worker.                                             *)

Proceed(p) ==
  \/ ReportFound(p) \/ ReportVanished(p) \/ SaveIncident(p)
  \/ StatusAccepted(p) \/ StatusRefused(p)
  \/ ReviewStatus(p) \/ ReviewReviewer(p)
  \/ DispatchStatus(p) \/ RespondStatus(p) \/ ResolveStatus(p)

Scan ==
  \/ ScanBegin \/ ScanEnd
  \/ \E o \in Objects : ScanSkip(o) \/ ScanChoose(o)
  \/ EscalateIncident \/ EscalateBegin \/ EscalateFail \/ EscalateStatus

Clients ==
  \E p \in Procs :
    \/ \E o \in Objects : ReportIncident(p, o, Reports[o])
    \/ \E i \in IncidentIds :
         \/ \E d \in Actors : ReviewIncident(p, i, d)
         \/ StartDispatch(p, i)
         \/ RespondIncident(p, i)
         \/ ResolveIncident(p, i)

Next == Clients \/ (\E p \in Procs : Proceed(p)) \/ Scan \/ Tick

Spec == Init /\ [][Next]_vars

\* Time passes, the ticker keeps firing, and a runnable goroutine runs.  No
\* client has to call anything.
Fairness == WF_vars(Tick) /\ WF_vars(Scan) /\ \A p \in Procs : WF_vars(Proceed(p))
FairSpec == Spec /\ Fairness

-----------------------------------------------------------------------------
(* Properties.                                                             *)

VarsTyped ==
  /\ pc \in [Procs -> ControlPoints]
  /\ obj \in [Procs -> Objects \cup {None}]
  /\ by \in [Procs -> Actors \cup {None}]
  /\ scanPc \in {"idle", "scanning", "chosen", "found", "escalating"}
  /\ todo \subseteq Objects /\ now \in 0..MaxClock
  /\ target \in Objects \cup {None}
  /\ incidents \in [IncidentIds -> Objects \cup {None}]
  /\ id \in [Objects -> IncidentIds \cup {None}]
  /\ key \in [Objects -> Keys \cup {None}]
  /\ highRisk \in [Objects -> BOOLEAN]
  /\ reportedAt \in [Objects -> 0..MaxClock]
  /\ status \in [Objects -> Statuses]
  /\ reviewedBy \in [Objects -> Actors \cup {None}]
  /\ responded \in [Objects -> BOOLEAN] /\ resolved \in [Objects -> BOOLEAN]
  /\ escalatedAt \in [Objects -> 0..MaxClock \cup {None}]
  /\ overlapping \subseteq SUBSET Objects
  /\ clock \in 0..MaxClock

CallTyped(p) == pc[p] # "idle" => obj[p] \in Objects /\ id[obj[p]] \in IncidentIds

ScanTyped ==
  /\ \A o \in todo \cup {target} : o # None =>
       id[o] \in IncidentIds /\ incidents[id[o]] \in Objects
  /\ scanPc \in {"chosen", "found", "escalating"} <=> target # None

\* Every variable keeps its type; the store leads to structs that carry the ID
\* they are stored under, and a call and the worker only work on structs with an
\* ID, and what the worker found is still found when it is looked up again.
TypeOK ==
  /\ VarsTyped
  /\ \A i \in IncidentIds : incidents[i] # None => id[incidents[i]] = i
  /\ \A p \in Procs : CallTyped(p)
  /\ ScanTyped

\* The progress an incident was reported with.
Posted(o) == Reports[o].progress

\* The milestones keep their order although statuses race and may be
\* overwritten: what was resolved had been responded to, and nothing is
\* responded to before a registered dispatcher reviewed it (the reviewer's name
\* may still be about to be written), unless the incident was reported as being at
\* or past that milestone (the code takes a posted status or stamp as it is).
StampsInOrder ==
  \A o \in Objects :
    /\ resolved[o] =>
         responded[o] \/ Posted(o).resolved \/ Posted(o).status = "responding"
    /\ responded[o] =>
         \/ reviewedBy[o] \in Dispatchers
         \/ \E p \in Procs : pc[p] = "reviewer" /\ obj[p] = o /\ by[p] \in Dispatchers
         \/ Posted(o).responded \/ Posted(o).status \in {"reviewed", "dispatching"}

\* An incident some call is past its checks for, or the worker about to escalate.
WorkedOn(o) ==
  \/ \E p \in Procs : pc[p] \notin {"idle"} \cup Unchecked /\ obj[p] = o
  \/ scanPc = "escalating" /\ target = o
Closed(o) == status[o] \in {"resolved", "escalated"} /\ ~WorkedOn(o)

\* An incident that is resolved or escalated, and that no earlier call still works
\* on, is closed for ever: no call and no scan, even one that found it before,
\* responds to it, resolves it, escalates it or stamps it again
\* (domain/incident.go:104, :118, :128, :138, :149).
ClosureHolds ==
  [][\A o \in Objects : Closed(o) =>
       Closed(o)' /\ UNCHANGED <<status[o], reviewedBy[o], responded[o], resolved[o],
                                escalatedAt[o]>>]_vars

\* An escalation the worker made: only high-risk incidents are escalated, and none
\* unless a high-risk incident reported under its ID was past the response timeout
\* (the worker looks the ID of the one it listed up a second time, and may find one
\* that was reported under it meanwhile).
EscalatedWasDue ==
  \A o \in Objects : escalatedAt[o] \notin {None, Posted(o).escalatedAt} =>
    /\ highRisk[o]
    /\ \E x \in Objects :
         id[x] = id[o] /\ highRisk[x] /\ escalatedAt[o] - reportedAt[x] >= Timeout

\* The key check, the search and the save are three steps (service/dispatch.go:
\* 101-122), so reports with one key may each be stored, but only if they overlapped:
\* a report that comes in when another with its key is stored never joins it.
DuplicatesOverlapped ==
  \A o1, o2 \in Stored :
    o1 # o2 /\ key[o1] # None /\ key[o1] = key[o2] => {o1, o2} \in overlapping

\* The worker escalates incidents that are not marked as responding
\* (worker/escalation.go:13-15).
RespondingNotEscalated ==
  [][\A o \in Objects : status[o] = "responding" => status'[o] # "escalated"]_vars

Overdue(i) ==
  /\ incidents[i] # None
  /\ highRisk[incidents[i]]
  /\ status[incidents[i]] \notin {"responding", "resolved", "escalated"}
  /\ clock - reportedAt[incidents[i]] >= Timeout

\* No high-risk incident stays past its response timeout unanswered: it is
\* responded to or escalated in the end, even if a late review or dispatch
\* overwrites an escalation for a while.
OverdueIsAnswered == \A i \in IncidentIds : <>[]~Overdue(i)
=============================================================================
