------------------------- MODULE SyncServiceProofs -------------------------
(***************************************************************************)
(* Theorems about SyncService, for any number of goroutines, entries,      *)
(* reports, keys and IDs and any configuration files.                      *)
(***************************************************************************)
EXTENDS SyncService, TLAPS

-----------------------------------------------------------------------------
(* Type correctness.                                                       *)

\* Every configuration the process runs with consists of numbers.
LEMMA RunsOnNumbers == RunningConfigs \subseteq [DOMAIN Default -> Int]
<1>1. DOMAIN Default = Durations \cup {"SyncMaxAttempts"}
  BY DEF Default, Durations
<1>2. \A f \in DOMAIN Default : Default[f] \in Int
  BY DEF Default
<1>3. Default \in [DOMAIN Default -> Int]
  BY <1>2 DEF Default
<1>4. ASSUME NEW raw \in RawConfigs, ~LoadFails(raw)
      PROVE  Load(raw) \in [DOMAIN Default -> Int]
  <2>1. raw # Bad /\ raw.SyncMaxAttempts \in Int
        /\ \A f \in Durations : raw[f] \in Int \/ raw[f] = Absent
    BY <1>4, ConfigAssumption DEF LoadFails
  <2>2. ASSUME NEW f \in DOMAIN Default
        PROVE  (IF f \in Durations THEN parseDuration(raw[f], Default[f])
                                   ELSE Attempts(raw)) \in Int
    <3>1. Default.SyncMaxAttempts \in Int
      BY DEF Default
    <3> QED
      BY <1>1, <1>2, <2>1, <3>1 DEF parseDuration, Attempts
  <2> QED
    BY <2>2 DEF Load
<1> QED
  BY <1>3, <1>4 DEF RunningConfigs, Loaded

\* The struct of a report that is not saved yet belongs to its call alone.
Fresh(p) == pc[p] # "idle" =>
  /\ \A i \in IncidentIds : incidents[i] # obj[p]
  /\ \A p2 \in Procs \ {p} : pc[p2] # "idle" => obj[p2] # obj[p]

TypeInv == TypeOK /\ \A p \in Procs : Fresh(p)

LEMMA TypeInit == Init => TypeInv
<1> SUFFICES ASSUME Init PROVE TypeInv
  OBVIOUS
<1>1. cfg \in [DOMAIN Default -> Int]
  BY RunsOnNumbers DEF Init
<1>2. VarsTyped
  BY <1>1 DEF Init, VarsTyped, ControlPoints
<1> QED
  BY <1>2 DEF Init, TypeInv, TypeOK, CallTyped, Fresh

\* Call p starts to report struct o under ID n and key k.
ReportStart(p, o, n, k, c) ==
  /\ id[o] = None /\ pc[p] = "idle"
  /\ c = "saving" => ~Incidents!IncidentExistsByKey(k)
  /\ pc' = [pc EXCEPT ![p] = c]
  /\ obj' = [obj EXCEPT ![p] = o]
  /\ id' = [id EXCEPT ![o] = n]
  /\ key' = [key EXCEPT ![o] = k]
  /\ status' = [status EXCEPT ![o] = "reported"]
  /\ overlapping' = overlapping \cup Incidents!Overlaps(o, k)
  /\ incidents' = incidents

\* A report takes a struct nobody uses, and an ID.
LEMMA ReportStarts ==
  ASSUME NEW p \in Procs, NEW i \in IncidentIds \cup {None}, NEW k,
         ReportIncident(p, i, k)
  PROVE  \E o \in Objects, n \in IncidentIds, c \in {"finding", "saving"} :
           ReportStart(p, o, n, k, c)
<1> DEFINE o == CHOOSE o \in Free : TRUE
<1>1. o \in Free
  BY DEF ReportIncident
<1>2. o \in Objects /\ id[o] = None
  BY <1>1 DEF Free
<1>3. Incidents!ReportIncident(p, o, Report(ReportId(i), k))
  BY DEF ReportIncident
<1>4. ReportId(i) \in IncidentIds
  BY SyncAssumption DEF ReportIncident, ReportId, NewIncidentIds
<1> DEFINE n == ReportId(i)
<1> HIDE DEF o, n
<1>5. ReportStart(p, o, n, k, IF Incidents!IncidentExistsByKey(k) THEN "finding" ELSE "saving")
  BY <1>2, <1>3 DEF Incidents!ReportIncident, Report, ReportStart, n
<1> QED
  BY <1>2, <1>4, <1>5 DEF n

LEMMA ReportTyped ==
  ASSUME TypeInv, NEW p \in Procs, NEW i \in IncidentIds \cup {None},
         NEW k \in Keys \cup {None}, ReportIncident(p, i, k),
         UNCHANGED <<cfg, syncEntries, entry, tries>>,
         \/ UNCHANGED <<syncPc, todo, cur>> /\ syncPc[p] = "idle"
         \/ \E e \in Entries : Turn(p, e) /\ Go(p, "reporting")
  PROVE  TypeInv'
<1>1. PICK o \in Objects, m \in IncidentIds, c \in {"finding", "saving"} :
           ReportStart(p, o, m, k, c)
  BY ReportStarts
<1>2. VarsTyped /\ \A r \in Procs : CallTyped(r) /\ Fresh(r)
  BY DEF TypeInv, TypeOK
<1>3. m # None /\ o # None
  BY SyncAssumption
<1> USE DEF ReportStart
<1>8. overlapping' \subseteq SUBSET Objects
  <2>1. \A q \in Procs : pc[q] \in {"finding", "saving"} => obj[q] \in Objects
    BY <1>2 DEF VarsTyped, CallTyped
  <2>2. Incidents!Overlaps(o, k) \subseteq SUBSET Objects
    BY <2>1 DEF Incidents!Overlaps
  <2> QED
    BY <1>1, <1>2, <2>2 DEF VarsTyped
<1>4. VarsTyped'
  BY <1>1, <1>2, <1>8 DEF VarsTyped, Turn, Go, ControlPoints
<1>5. ASSUME NEW n \in IncidentIds, incidents'[n] # None PROVE id'[incidents'[n]] = n
  BY <1>1, <1>2, <1>3, <1>5, SyncAssumption DEF TypeInv, TypeOK, VarsTyped
<1>6. ASSUME NEW r \in Procs PROVE CallTyped(r)'
  BY <1>1, <1>2, <1>3, SyncAssumption DEF VarsTyped, CallTyped, Turn, Go
<1>7. ASSUME NEW r \in Procs PROVE Fresh(r)'
  BY <1>1, <1>2, <1>3, SyncAssumption DEF VarsTyped, CallTyped, Fresh, TypeInv, TypeOK
<1> QED
  BY <1>4, <1>5, <1>6, <1>7 DEF TypeInv, TypeOK

\* The other steps of a report: the answer is found, the search fails, the struct is
\* saved.  A dropped or saved struct is no longer the call's.
ReportDropped(p) ==
  /\ pc[p] = "finding"
  /\ pc' = [pc EXCEPT ![p] = "idle"] /\ obj' = [obj EXCEPT ![p] = None]
  /\ id' = [id EXCEPT ![obj[p]] = None] /\ key' = [key EXCEPT ![obj[p]] = None]
  /\ status' = [status EXCEPT ![obj[p]] = "none"] /\ incidents' = incidents
  /\ overlapping' = {pair \in overlapping : obj[p] \notin pair}
ReportGoesOn(p) ==
  /\ pc[p] = "finding" /\ pc' = [pc EXCEPT ![p] = "saving"]
  /\ ~Incidents!IncidentExistsByKey(key[obj[p]])
  /\ UNCHANGED <<obj, incidents, id, key, status, overlapping>>
ReportSaved(p) ==
  /\ pc[p] = "saving"
  /\ pc' = [pc EXCEPT ![p] = "idle"] /\ obj' = [obj EXCEPT ![p] = None]
  /\ incidents' = [incidents EXCEPT ![id[obj[p]]] = obj[p]]
  /\ UNCHANGED <<id, key, status, overlapping>>

LEMMA ReportSteps ==
  ASSUME NEW p \in Procs
  PROVE  /\ ReportStep(p) =>
              /\ UNCHANGED syncVars
              /\ Incidents!ReportFound(p) \/ ReportGoesOn(p) \/ ReportSaved(p)
         /\ Incidents!ReportFound(p) =>
              ReportDropped(p) /\ Incidents!IncidentExistsByKey(key[obj[p]])
         /\ ReplayVanished(p) => ReportDropped(p)
<1>1. Incidents!ReportFound(p) =>
        ReportDropped(p) /\ Incidents!IncidentExistsByKey(key[obj[p]])
  BY DEF Incidents!ReportFound, Incidents!Discard, Incidents!Return, ReportDropped
<1>2. Incidents!ReportVanished(p) => ReportGoesOn(p)
  BY DEF Incidents!ReportVanished, Incidents!reportVars, ReportGoesOn
<1>3. Incidents!SaveIncident(p) => ReportSaved(p)
  BY DEF Incidents!SaveIncident, Incidents!Return, Incidents!reportVars, ReportSaved
<1>4. ReplayVanished(p) => ReportDropped(p)
  BY DEF ReplayVanished, Incidents!Discard, Incidents!Return, ReportDropped
<1> QED
  BY <1>1, <1>2, <1>3, <1>4 DEF ReportStep

\* What such a step leaves of the incidents.
IncidentsTyped ==
  /\ pc \in [Procs -> {"idle", "finding", "saving"}]
  /\ obj \in [Procs -> Objects \cup {None}]
  /\ incidents \in [IncidentIds -> Objects \cup {None}]
  /\ id \in [Objects -> IncidentIds \cup {None}]
  /\ key \in [Objects -> Keys \cup {None}]
  /\ status \in [Objects -> {"none", "reported"}]
  /\ overlapping \subseteq SUBSET Objects
  /\ \A i \in IncidentIds : incidents[i] # None => id[incidents[i]] = i
  /\ \A p \in Procs : Fresh(p) /\ (pc[p] # "idle" => obj[p] # None /\ id[obj[p]] # None)

LEMMA ReportStepTyped ==
  ASSUME IncidentsTyped, NEW p \in Procs,
         ReportDropped(p) \/ ReportGoesOn(p) \/ ReportSaved(p)
  PROVE  IncidentsTyped'
<1> USE SyncAssumption DEF IncidentsTyped, Fresh
<1>1. obj[p] \in Objects /\ id[obj[p]] \in IncidentIds
  BY DEF ReportDropped, ReportGoesOn, ReportSaved
<1>2. CASE ReportDropped(p)
  BY <1>1, <1>2 DEF ReportDropped
<1>3. CASE ReportGoesOn(p)
  BY <1>1, <1>3 DEF ReportGoesOn
<1>4. CASE ReportSaved(p)
  BY <1>1, <1>4 DEF ReportSaved
<1> QED
  BY <1>2, <1>3, <1>4

LEMMA TypeNext == TypeInv /\ [Next]_vars => TypeInv'
<1> SUFFICES ASSUME TypeInv, [Next]_vars PROVE TypeInv'
  OBVIOUS
<1>1. /\ VarsTyped /\ IncidentsTyped /\ \A r \in Procs : CallTyped(r)
      /\ \A i \in EntryIds : syncEntries[i] # None =>
           entry[syncEntries[i]] # None /\ entry[syncEntries[i]].id = i
  BY DEF TypeInv, TypeOK, VarsTyped, CallTyped, IncidentsTyped
<1>2. ASSUME IncidentsTyped', VarsTyped', \A r \in Procs : CallTyped(r)',
             \A i \in EntryIds : syncEntries'[i] # None =>
               entry'[syncEntries'[i]] # None /\ entry'[syncEntries'[i]].id = i
      PROVE  TypeInv'
  BY <1>2 DEF TypeInv, TypeOK, IncidentsTyped
<1>3. ASSUME UNCHANGED incidentVars PROVE IncidentsTyped'
  BY <1>1, <1>3 DEF IncidentsTyped, Fresh, incidentVars
<1> USE SyncAssumption
<1>4. ASSUME NEW p \in Procs, NEW r \in Posts, PostIncident(p, r.id, r.key)
      PROVE  TypeInv'
  <2>1. r.id \in IncidentIds \cup {None} /\ r.key \in Keys \cup {None}
    OBVIOUS
  <2> QED
    BY <1>4, <2>1, ReportTyped DEF PostIncident, Idle, syncVars
<1>5. ASSUME NEW p \in Procs, NEW i \in EntryIds, NEW r \in Reports, CacheReport(p, i, r)
      PROVE  TypeInv'
  <2>1. NewEntry \in Entries /\ entry[NewEntry] = None
    BY <1>5 DEF CacheReport, NewEntry
  <2>2. r.key \in Keys /\ r.reportedAt \in Nat /\ r.payload \in Payloads
    BY DEF Payloads
  <2> DEFINE x == [id |-> i, key |-> r.key, reportedAt |-> r.reportedAt,
                   payload |-> r.payload, status |-> "pending", attempts |-> 0]
  <2>3. x \in SyncEntry /\ x # None
    BY <2>2 DEF SyncEntry, Statuses
  <2>4. entry' = [entry EXCEPT ![NewEntry] = x] /\ UNCHANGED <<syncEntries, todo, incidentVars>>
    BY <1>5 DEF CacheReport
  <2> HIDE DEF x
  <2>5. entry' \in [Entries -> SyncEntry \cup {None}]
    BY <1>1, <2>1, <2>3, <2>4 DEF VarsTyped
  <2>6. VarsTyped'
    BY <1>1, <1>5, <2>1, <2>5 DEF VarsTyped, CacheReport, incidentVars, Go, ControlPoints
  <2>7. \A e \in Entries : entry[e] # None => entry'[e] = entry[e]
    BY <1>1, <2>1, <2>4 DEF VarsTyped
  <2>8. entry'[NewEntry] # None
    BY <1>1, <2>1, <2>3, <2>4 DEF VarsTyped
  <2>9. ASSUME NEW q \in Procs PROVE CallTyped(q)'
    BY <1>1, <1>5, <2>1, <2>4, <2>7, <2>8
       DEF VarsTyped, CallTyped, CacheReport, incidentVars, Idle, Go
  <2>10. \A n \in EntryIds : syncEntries'[n] # None =>
           entry'[syncEntries'[n]] # None /\ entry'[syncEntries'[n]].id = n
    BY <1>1, <2>4, <2>7 DEF VarsTyped
  <2> QED
    BY <1>2, <1>3, <2>4, <2>6, <2>9, <2>10
<1> DEFINE Kept == \A e \in Entries : entry[e] # None =>
                     entry'[e] # None /\ entry'[e].id = entry[e].id
<1>6. ASSUME NEW p \in Procs, cur[p] # None, Kept,
             SaveSyncEntry(cur[p]) \/ UNCHANGED syncEntries
      PROVE  /\ syncEntries' \in [EntryIds -> Entries \cup {None}]
             /\ \A n \in EntryIds : syncEntries'[n] # None =>
                  entry'[syncEntries'[n]] # None /\ entry'[syncEntries'[n]].id = n
  <2>1. cur[p] \in Entries /\ entry[cur[p]] # None /\ entry[cur[p]].id \in EntryIds
    BY <1>1, <1>6 DEF VarsTyped, CallTyped, SyncEntry
  <2> QED
    BY <1>1, <1>6, <2>1 DEF VarsTyped, SaveSyncEntry
<1>7. ASSUME NEW p \in Procs, CacheSave(p) PROVE TypeInv'
  <2>1. cur[p] # None /\ Kept
    BY <1>1, <1>7 DEF CallTyped, CacheSave
  <2>2. VarsTyped'
    BY <1>1, <1>6, <1>7, <2>1 DEF VarsTyped, CacheSave, incidentVars, Go, ControlPoints
  <2>3. ASSUME NEW q \in Procs PROVE CallTyped(q)'
    BY <1>1, <1>7 DEF VarsTyped, CallTyped, CacheSave, incidentVars, Go
  <2> QED
    BY <1>2, <1>3, <1>6, <1>7, <2>1, <2>2, <2>3 DEF CacheSave
<1>8. ASSUME NEW p \in Procs, ReplayBegin(p) PROVE TypeInv'
  <2>1. PendingSyncEntries \subseteq {e \in Entries : entry[e] # None}
    BY <1>1 DEF PendingSyncEntries, Stored, Pending, VarsTyped
  <2>2. VarsTyped'
    BY <1>1, <1>8, <2>1 DEF VarsTyped, ReplayBegin, incidentVars, Go, ControlPoints
  <2>3. ASSUME NEW q \in Procs PROVE CallTyped(q)'
    BY <1>1, <1>8, <2>1 DEF VarsTyped, CallTyped, ReplayBegin, incidentVars, Go
  <2> QED
    BY <1>1, <1>2, <1>3, <1>8, <2>2, <2>3 DEF ReplayBegin
<1>9. ASSUME NEW p \in Procs, NEW e \in Entries, ReplaySkip(p, e) \/ ReplayRefused(p, e)
      PROVE  TypeInv'
  <2>1. VarsTyped'
    BY <1>1, <1>9 DEF VarsTyped, ReplaySkip, ReplayRefused, Turn, incidentVars, Go,
       ControlPoints
  <2>2. ASSUME NEW q \in Procs PROVE CallTyped(q)'
    BY <1>1, <1>9 DEF VarsTyped, CallTyped, ReplaySkip, ReplayRefused, Turn, incidentVars, Go
  <2> QED
    BY <1>1, <1>2, <1>3, <1>9, <2>1, <2>2 DEF ReplaySkip, ReplayRefused
<1>10. ASSUME NEW p \in Procs, NEW e \in Entries, ReplayEntry(p, e) PROVE TypeInv'
  <2>1. entry[e] \in SyncEntry
    BY <1>1, <1>10 DEF VarsTyped, CallTyped, ReplayEntry, Turn
  <2>2. entry[e].payload.id \in IncidentIds \cup {None} /\ ReportKey(e) \in Keys
    BY <2>1 DEF SyncEntry, Payloads, ReportKey
  <2> QED
    BY <1>10, <2>2, ReportTyped DEF ReplayEntry
<1>11. ASSUME NEW p \in Procs, ReportStep(p) PROVE TypeInv'
  <2>1. IncidentsTyped' /\ UNCHANGED syncVars
    BY <1>1, <1>11, ReportSteps, ReportStepTyped
  <2>2. VarsTyped'
    BY <1>1, <2>1 DEF VarsTyped, IncidentsTyped, syncVars
  <2>3. \A q \in Procs : pc'[q] # "idle" => pc[q] # "idle"
    BY <1>1, <1>11, ReportSteps
       DEF VarsTyped, ReportDropped, ReportGoesOn, ReportSaved
  <2>4. ASSUME NEW q \in Procs PROVE CallTyped(q)'
    BY <1>1, <2>1, <2>3 DEF CallTyped, IncidentsTyped, syncVars
  <2> QED
    BY <1>1, <1>2, <2>1, <2>2, <2>4 DEF syncVars
<1>12. ASSUME NEW p \in Procs, ReplayVanished(p) PROVE TypeInv'
  <2>1. IncidentsTyped' /\ ReportDropped(p)
    BY <1>1, <1>12, ReportSteps, ReportStepTyped
  <2>2. VarsTyped'
    BY <1>1, <1>12, <2>1 DEF VarsTyped, IncidentsTyped, ReplayVanished, Go, ControlPoints
  <2>3. ASSUME NEW q \in Procs PROVE CallTyped(q)'
    BY <1>1, <1>12, <2>1 DEF VarsTyped, CallTyped, IncidentsTyped, ReportDropped,
       ReplayVanished, Go
  <2> QED
    BY <1>1, <1>2, <1>12, <2>1, <2>2, <2>3 DEF ReplayVanished
<1>13. ASSUME NEW p \in Procs, ReplayUploaded(p) PROVE TypeInv'
  <2>1. cur[p] \in Entries /\ entry[cur[p]] \in SyncEntry
    BY <1>1, <1>13 DEF VarsTyped, CallTyped, ReplayUploaded
  <2>2. /\ entry' \in [Entries -> SyncEntry \cup {None}] /\ Kept
    BY <1>1, <1>13, <2>1 DEF VarsTyped, ReplayUploaded, MarkUploaded, SyncEntry, Statuses
  <2>3. VarsTyped'
    BY <1>1, <1>6, <1>13, <2>1, <2>2 DEF VarsTyped, ReplayUploaded, MarkUploaded,
       incidentVars, Go, ControlPoints
  <2>4. ASSUME NEW q \in Procs PROVE CallTyped(q)'
    BY <1>1, <1>13, <2>2 DEF VarsTyped, CallTyped, ReplayUploaded, MarkUploaded,
       incidentVars, Go
  <2> QED
    BY <1>2, <1>3, <1>6, <1>13, <2>1, <2>2, <2>3, <2>4 DEF ReplayUploaded, MarkUploaded
<1>14. ASSUME NEW p \in Procs, ReplayFailing(p) PROVE TypeInv'
  <2>1. cur[p] \in Entries /\ entry[cur[p]] \in SyncEntry
    BY <1>1, <1>14 DEF VarsTyped, CallTyped, ReplayFailing
  <2>2. VarsTyped'
    BY <1>1, <1>14, <2>1 DEF VarsTyped, ReplayFailing, SyncEntry, incidentVars, Go,
       ControlPoints
  <2>3. ASSUME NEW q \in Procs PROVE CallTyped(q)'
    BY <1>1, <1>14 DEF VarsTyped, CallTyped, ReplayFailing, incidentVars, Go
  <2> QED
    BY <1>1, <1>2, <1>3, <1>14, <2>2, <2>3 DEF ReplayFailing
<1>15. ASSUME NEW p \in Procs, ReplayFailed(p) PROVE TypeInv'
  <2>1. cur[p] \in Entries /\ entry[cur[p]] \in SyncEntry /\ tries[p] \in Nat
    BY <1>1, <1>15 DEF VarsTyped, CallTyped, ReplayFailed
  <2>2. /\ entry' \in [Entries -> SyncEntry \cup {None}] /\ Kept
    BY <1>1, <1>15, <2>1 DEF VarsTyped, ReplayFailed, SyncEntry, Statuses
  <2>3. VarsTyped'
    BY <1>1, <1>15, <2>1, <2>2 DEF VarsTyped, ReplayFailed, incidentVars, Go, ControlPoints
  <2>4. ASSUME NEW q \in Procs PROVE CallTyped(q)'
    BY <1>1, <1>15, <2>2 DEF VarsTyped, CallTyped, ReplayFailed, incidentVars, Go
  <2>5. \A n \in EntryIds : syncEntries'[n] # None =>
          entry'[syncEntries'[n]] # None /\ entry'[syncEntries'[n]].id = n
    BY <1>1, <1>15, <2>2 DEF VarsTyped, ReplayFailed
  <2> QED
    BY <1>2, <1>3, <1>15, <2>3, <2>4, <2>5 DEF ReplayFailed
<1>18. ASSUME NEW p \in Procs, ReplayMarked(p) PROVE TypeInv'
  <2>1. cur[p] \in Entries /\ entry[cur[p]] \in SyncEntry
    BY <1>1, <1>18 DEF VarsTyped, CallTyped, ReplayMarked
  <2>2. PICK n : MarkFailed(cur[p], n)
    BY <1>18 DEF ReplayMarked
  <2>3. entry' \in [Entries -> SyncEntry \cup {None}] /\ Kept
    BY <1>1, <2>1, <2>2 DEF VarsTyped, MarkFailed, SyncEntry, Statuses
  <2>4. VarsTyped'
    BY <1>1, <1>6, <1>18, <2>1, <2>3 DEF VarsTyped, ReplayMarked, incidentVars, Go,
       ControlPoints
  <2>5. ASSUME NEW q \in Procs PROVE CallTyped(q)'
    BY <1>1, <1>18, <2>3 DEF VarsTyped, CallTyped, ReplayMarked, incidentVars, Go
  <2> QED
    BY <1>2, <1>3, <1>6, <1>18, <2>1, <2>3, <2>4, <2>5 DEF ReplayMarked
<1>16. ASSUME NEW p \in Procs, ReplayEnd(p) PROVE TypeInv'
  <2>1. VarsTyped'
    BY <1>1, <1>16 DEF VarsTyped, ReplayEnd, incidentVars, Go, ControlPoints
  <2>2. ASSUME NEW q \in Procs PROVE CallTyped(q)'
    BY <1>1, <1>16 DEF VarsTyped, CallTyped, ReplayEnd, incidentVars, Go
  <2> QED
    BY <1>1, <1>2, <1>3, <1>16, <2>1, <2>2 DEF ReplayEnd
<1>17. CASE UNCHANGED vars
  <2>1. VarsTyped'
    BY <1>1, <1>17 DEF VarsTyped, vars
  <2>2. ASSUME NEW q \in Procs PROVE CallTyped(q)'
    BY <1>1, <1>17 DEF CallTyped, vars
  <2> QED
    BY <1>1, <1>2, <1>3, <1>17, <2>1, <2>2 DEF vars, incidentVars
<1> QED
  BY <1>4, <1>5, <1>7, <1>8, <1>9, <1>10, <1>11, <1>12, <1>13, <1>14, <1>15, <1>16, <1>17,
     <1>18 DEF Next, Clients, Proceed

LEMMA TypeAlways == Spec => []TypeInv
BY TypeInit, TypeNext, PTL DEF Spec

\* In every reachable state all variables and call locals are of the right kind,
\* every setting is a number whatever the files say, and every struct a replay or a
\* report looks up is there.
THEOREM TypeCorrect == Spec => []TypeOK
<1>1. TypeInv => TypeOK
  BY DEF TypeInv
<1> QED
  BY <1>1, TypeAlways, PTL

-----------------------------------------------------------------------------
(* What becomes of an entry.                                               *)

\* What a terminal cached never changes; only a replay that has reported an entry
\* marks it uploaded.
LEMMA EntriesKept ==
  ASSUME TypeInv, [Next]_vars, NEW e \in Entries, entry[e] # None
  PROVE  /\ entry'[e] # None
         /\ ReportKey(e)' = ReportKey(e)
         /\ entry'[e].status = "uploaded" =>
              \/ entry[e].status = "uploaded"
              \/ \E p \in Procs : ReplayUploaded(p) /\ cur[p] = e
<1> DEFINE Same == /\ entry'[e] # None
                   /\ entry'[e].key = entry[e].key
                   /\ entry'[e].payload = entry[e].payload
           Settled == entry'[e].status = "uploaded" => entry[e].status = "uploaded"
<1>1. VarsTyped /\ \A p \in Procs : CallTyped(p)
  BY DEF TypeInv, TypeOK
<1>3. entry[e] \in SyncEntry
  BY <1>1 DEF VarsTyped
<1>4. CASE entry'[e] = entry[e]
  BY <1>4 DEF ReportKey
<1>5. ASSUME NEW p \in Procs, NEW i \in EntryIds, NEW r \in Reports, CacheReport(p, i, r)
      PROVE  entry'[e] = entry[e]
  <2>1. NewEntry \in Entries /\ entry[NewEntry] = None
    BY <1>5 DEF CacheReport, NewEntry
  <2> QED
    BY <1>1, <1>5, <2>1 DEF VarsTyped, CacheReport
<1>6. ASSUME NEW p \in Procs, ReplayUploaded(p), cur[p] = e PROVE Same
  BY <1>1, <1>3, <1>6, SyncAssumption
     DEF VarsTyped, ReplayUploaded, MarkUploaded, SyncEntry, Statuses
<1>7. ASSUME NEW p \in Procs, ReplayFailed(p), cur[p] = e PROVE Same /\ Settled
  <2>1. tries[p] \in Nat
    BY <1>1 DEF VarsTyped
  <2> QED
    BY <1>1, <1>3, <1>7, <2>1, SyncAssumption DEF VarsTyped, ReplayFailed, SyncEntry
<1>8. ASSUME NEW p \in Procs, ReplayMarked(p), cur[p] = e PROVE Same /\ Settled
  <2>1. PICK n : MarkFailed(e, n)
    BY <1>8 DEF ReplayMarked
  <2> QED
    BY <1>1, <1>3, <2>1, SyncAssumption DEF VarsTyped, MarkFailed, SyncEntry, Statuses
<1>9. ASSUME NEW p \in Procs, ReplayUploaded(p) \/ ReplayFailed(p) \/ ReplayMarked(p),
             cur[p] # e
      PROVE  entry'[e] = entry[e]
  BY <1>1, <1>9 DEF VarsTyped, ReplayUploaded, MarkUploaded, ReplayFailed, ReplayMarked,
     MarkFailed
<1>10. \/ entry' = entry
       \/ \E p \in Procs : ReplayUploaded(p) \/ ReplayFailed(p) \/ ReplayMarked(p)
       \/ \E p \in Procs, i \in EntryIds, r \in Reports : CacheReport(p, i, r)
  BY DEF Next, Clients, Proceed, PostIncident, CacheSave, ReplayBegin, ReplaySkip,
     ReplayRefused, ReplayEntry, ReplayVanished, ReportStep, ReplayFailing, ReplayEnd,
     syncVars, vars
<1>11. CASE Same /\ (Settled \/ \E p \in Procs : ReplayUploaded(p) /\ cur[p] = e)
  BY <1>11 DEF ReportKey
<1> HIDE DEF Same, Settled
<1> QED
  BY <1>4, <1>5, <1>6, <1>7, <1>8, <1>9, <1>10, <1>11

\* An entry is filled in as pending.
LEMMA EntriesStartPending ==
  ASSUME TypeInv, [Next]_vars, NEW e \in Entries, entry[e] = None, entry'[e] # None
  PROVE  entry'[e].status = "pending"
<1>1. VarsTyped /\ \A p \in Procs : CallTyped(p)
  BY DEF TypeInv, TypeOK
<1>2. ASSUME NEW p \in Procs, NEW i \in EntryIds, NEW r \in Reports, CacheReport(p, i, r)
      PROVE  entry'[e].status = "pending"
  <2>1. NewEntry \in Entries
    BY <1>2 DEF CacheReport, NewEntry
  <2> QED
    BY <1>1, <1>2, <2>1 DEF VarsTyped, CacheReport
<1>3. ASSUME NEW p \in Procs, ReplayUploaded(p) \/ ReplayFailed(p) \/ ReplayMarked(p)
      PROVE  entry'[e] = entry[e]
  <2>1. cur[p] # e
    BY <1>1, <1>3 DEF CallTyped, ReplayUploaded, ReplayFailed, ReplayMarked
  <2> QED
    BY <1>1, <1>3, <2>1 DEF VarsTyped, ReplayUploaded, MarkUploaded, ReplayFailed,
       ReplayMarked, MarkFailed
<1>4. \/ entry' = entry
      \/ \E p \in Procs : ReplayUploaded(p) \/ ReplayFailed(p) \/ ReplayMarked(p)
      \/ \E p \in Procs, i \in EntryIds, r \in Reports : CacheReport(p, i, r)
  BY DEF Next, Clients, Proceed, PostIncident, CacheSave, ReplayBegin, ReplaySkip,
     ReplayRefused, ReplayEntry, ReplayVanished, ReportStep, ReplayFailing, ReplayEnd,
     syncVars, vars
<1> QED
  BY <1>2, <1>3, <1>4

-----------------------------------------------------------------------------
(* No report is lost.                                                      *)

KeyStored(k) == \E o \in Objects : id[o] # None /\ key[o] = k /\ ~BeingReported(o)

\* A replay reports under its entry's key, and is past the report only when an
\* incident with the key is stored.
UploadInv ==
  /\ \A p \in Procs : syncPc[p] = "reporting" =>
       IF pc[p] = "idle" THEN KeyStored(ReportKey(cur[p]))
                         ELSE key[obj[p]] = ReportKey(cur[p])
  /\ UploadedWasStored

\* An incident that is stored and belongs to no report stays.
LEMMA KeyStays ==
  ASSUME TypeInv, [Next]_vars, NEW k, KeyStored(k)
  PROVE  KeyStored(k)'
<1>1. PICK o \in Objects : id[o] # None /\ key[o] = k /\ ~BeingReported(o)
  BY DEF KeyStored
<1>2. VarsTyped
  BY DEF TypeInv, TypeOK
<1>3. ASSUME UNCHANGED <<pc, obj, id, key>> PROVE KeyStored(k)'
  BY <1>1, <1>3 DEF KeyStored, BeingReported
<1>4. ASSUME NEW p \in Procs, NEW i \in IncidentIds \cup {None}, NEW k2,
             ReportIncident(p, i, k2)
      PROVE  KeyStored(k)'
  <2>1. PICK o2 \in Objects, n \in IncidentIds, c \in {"finding", "saving"} :
           ReportStart(p, o2, n, k2, c)
    BY <1>4, ReportStarts
  <2> QED
    BY <1>1, <1>2, <2>1 DEF VarsTyped, KeyStored, BeingReported, ReportStart
<1>5. ASSUME NEW p \in Procs, ReportDropped(p) \/ ReportGoesOn(p) \/ ReportSaved(p)
      PROVE  KeyStored(k)'
  <2>1. obj[p] # o /\ id'[o] = id[o] /\ key'[o] = key[o]
    BY <1>1, <1>2, <1>5 DEF VarsTyped, BeingReported, ReportDropped, ReportGoesOn,
       ReportSaved
  <2>2. ~BeingReported(o)'
    BY <1>1, <1>2, <1>5 DEF VarsTyped, BeingReported, ReportDropped, ReportGoesOn,
       ReportSaved
  <2> QED
    BY <1>1, <2>1, <2>2 DEF KeyStored
<1>6. CASE Clients
  <2>1. ASSUME NEW p \in Procs, NEW b \in Posts, PostIncident(p, b.id, b.key)
        PROVE  KeyStored(k)'
    BY <1>4, <2>1, SyncAssumption DEF PostIncident
  <2>2. CASE ~\E p \in Procs, b \in Posts : PostIncident(p, b.id, b.key)
    BY <1>3, <1>6, <2>2 DEF Clients, CacheReport, ReplayBegin, incidentVars
  <2> QED
    BY <2>1, <2>2
<1>7. ASSUME NEW p \in Procs, NEW e \in Entries, ReplayEntry(p, e) PROVE KeyStored(k)'
  <2>1. entry[e] \in SyncEntry
    BY <1>7 DEF TypeInv, TypeOK, VarsTyped, CallTyped, ReplayEntry, Turn
  <2>2. entry[e].payload.id \in IncidentIds \cup {None}
    BY <2>1 DEF SyncEntry, Payloads
  <2> QED
    BY <1>4, <1>7, <2>2 DEF ReplayEntry
<1>8. ASSUME NEW p \in Procs, ReportStep(p) \/ ReplayVanished(p) PROVE KeyStored(k)'
  BY <1>5, <1>8, ReportSteps
<1>9. ASSUME NEW p \in Procs,
             \/ CacheSave(p) \/ ReplayUploaded(p) \/ ReplayFailing(p) \/ ReplayFailed(p) \/ ReplayMarked(p)
             \/ ReplayEnd(p) \/ ReplayBegin(p)
             \/ \E e \in Entries : ReplaySkip(p, e) \/ ReplayRefused(p, e)
      PROVE  KeyStored(k)'
  BY <1>3, <1>9 DEF CacheSave, ReplayUploaded, MarkUploaded, ReplayFailing, ReplayFailed,
     ReplayMarked, ReplayEnd, ReplayBegin, ReplaySkip, ReplayRefused, incidentVars
<1>10. CASE UNCHANGED vars
  BY <1>3, <1>10 DEF vars
<1> QED
  BY <1>6, <1>7, <1>8, <1>9, <1>10, SyncAssumption DEF Next, Proceed

\* A call that reports goes on reporting under the same key, until the key is stored.
CallKept(p) == syncPc'[p] = "reporting" =>
  /\ syncPc[p] = "reporting" /\ pc'[p] = pc[p] /\ cur'[p] = cur[p]
  /\ pc[p] # "idle" => obj'[p] = obj[p] /\ key'[obj[p]] = key[obj[p]]

SomeReport(p) ==
  \E i \in IncidentIds \cup {None}, k \in Keys \cup {None} : ReportIncident(p, i, k)

LEMMA OthersKept ==
  ASSUME TypeInv, NEW p \in Procs, NEW r \in Procs \ {p},
         \/ ReportDropped(r) \/ ReportGoesOn(r) \/ ReportSaved(r)
         \/ SomeReport(r),
         syncPc'[p] = syncPc[p], cur'[p] = cur[p]
  PROVE  CallKept(p)
<1>1. VarsTyped /\ CallTyped(p) /\ CallTyped(r) /\ Fresh(p)
  BY DEF TypeInv, TypeOK
<1>2. CASE ReportDropped(r) \/ ReportGoesOn(r) \/ ReportSaved(r)
  BY <1>1, <1>2 DEF VarsTyped, CallTyped, Fresh, CallKept, ReportDropped, ReportGoesOn,
     ReportSaved
<1>3. ASSUME NEW i \in IncidentIds \cup {None}, NEW k \in Keys \cup {None},
             ReportIncident(r, i, k)
      PROVE  CallKept(p)
  <2>1. PICK o \in Objects, n \in IncidentIds, c \in {"finding", "saving"} :
           ReportStart(r, o, n, k, c)
    BY <1>3, ReportStarts
  <2> QED
    BY <1>1, <2>1 DEF VarsTyped, CallTyped, CallKept, ReportStart
<1> QED
  BY <1>2, <1>3 DEF SomeReport

\* After a step of its own, a report's call has its key stored or still reports it.
LEMMA ReportedKey ==
  ASSUME TypeInv, NEW p \in Procs, pc[p] # "idle", NEW k \in Keys, key[obj[p]] = k,
         Incidents!ReportFound(p) \/ ReportGoesOn(p) \/ ReportSaved(p)
  PROVE  IF pc'[p] = "idle" THEN KeyStored(k)' ELSE key'[obj'[p]] = k
<1>1. VarsTyped /\ CallTyped(p) /\ \A r \in Procs : Fresh(r)
  BY DEF TypeInv, TypeOK
<1>2. PICK q \in Objects : obj[p] = q /\ id[q] \in IncidentIds /\ id[q] # None
  BY <1>1, SyncAssumption DEF VarsTyped, CallTyped
<1>3. ASSUME NEW o \in Objects, id'[o] # None, key'[o] = k,
             \A r \in Procs : pc'[r] # "idle" => obj'[r] # o
      PROVE  KeyStored(k)'
  BY <1>3 DEF KeyStored, BeingReported
<1>4. CASE Incidents!ReportFound(p)
  <2>1. ReportDropped(p) /\ Incidents!IncidentExistsByKey(key[obj[p]])
    BY <1>4, ReportSteps
  <2>2. PICK i \in IncidentIds : incidents[i] # None /\ key[incidents[i]] = k
    BY <2>1 DEF Incidents!IncidentExistsByKey, Incidents!Stored
  <2>3. PICK o \in Objects : o = incidents[i]
    BY <1>1, <2>2 DEF VarsTyped
  <2>4. id[o] # None /\ \A r \in Procs : pc[r] # "idle" => obj[r] # o
    BY <1>1, <2>2, <2>3, SyncAssumption DEF Fresh, TypeInv, TypeOK
  <2>5. id'[o] = id[o] /\ key'[o] = k /\ pc'[p] = "idle"
    BY <1>1, <1>2, <2>1, <2>2, <2>3, <2>4 DEF VarsTyped, ReportDropped
  <2>6. \A r \in Procs : pc'[r] # "idle" => obj'[r] # o
    BY <1>1, <2>1, <2>4 DEF VarsTyped, ReportDropped
  <2> QED
    BY <1>3, <2>4, <2>5, <2>6
<1>5. CASE ReportGoesOn(p)
  BY <1>1, <1>5 DEF VarsTyped, ReportGoesOn
<1>6. CASE ReportSaved(p)
  <2>1. id'[q] # None /\ key'[q] = k /\ pc'[p] = "idle"
    BY <1>1, <1>2, <1>6 DEF VarsTyped, ReportSaved
  <2>2. \A r \in Procs : pc'[r] # "idle" => obj'[r] # q
    BY <1>1, <1>2, <1>6 DEF VarsTyped, Fresh, ReportSaved
  <2> QED
    BY <1>3, <2>1, <2>2
<1> QED
  BY <1>4, <1>5, <1>6

LEMMA UploadNext ==
  ASSUME TypeInv, UploadInv, [Next]_vars
  PROVE  UploadInv'
<1>1. VarsTyped /\ \A p \in Procs : CallTyped(p)
  BY DEF TypeInv, TypeOK
<1> DEFINE Good(p) == syncPc[p] = "reporting" =>
                        IF pc[p] = "idle" THEN KeyStored(ReportKey(cur[p]))
                                          ELSE key[obj[p]] = ReportKey(cur[p])
<1>2. \A e \in Entries : entry[e] # None => ReportKey(e) \in Keys
  <2>1. ASSUME NEW e \in Entries, entry[e] # None PROVE ReportKey(e) \in Keys
    <3>1. entry[e] \in SyncEntry
      BY <1>1, <2>1 DEF VarsTyped
    <3> QED
      BY <3>1 DEF SyncEntry, Payloads, ReportKey
  <2> QED
    BY <2>1
<1>3. UploadedWasStored'
  <2>1. ASSUME NEW e \in Entries, entry'[e] # None, entry'[e].status = "uploaded",
               NEW k, ReportKey(e)' = k
        PROVE  KeyStored(k)'
    <3>1. CASE entry[e] # None
      <4>1. ReportKey(e) = k
        BY <2>1, <3>1, EntriesKept
      <4>2. CASE entry[e].status = "uploaded"
        <5>1. KeyStored(k)
          BY <3>1, <4>1, <4>2 DEF UploadInv, UploadedWasStored, KeyStored
        <5> QED
          BY <5>1, KeyStays
      <4>3. CASE \E p \in Procs : ReplayUploaded(p) /\ cur[p] = e
        <5>1. KeyStored(k)
          BY <4>1, <4>3 DEF UploadInv, ReplayUploaded
        <5> QED
          BY <5>1, KeyStays
      <4> QED
        BY <2>1, <3>1, <4>2, <4>3, EntriesKept
    <3>2. CASE entry[e] = None
      BY <2>1, <3>2, EntriesStartPending
    <3> QED
      BY <3>1, <3>2
  <2> QED
    BY <2>1 DEF UploadedWasStored, KeyStored
<1>4. ASSUME NEW p \in Procs, NEW e, NEW k, cur'[p] = e, ReportKey(e)' = k,
             IF pc'[p] = "idle" THEN KeyStored(k)' ELSE key'[obj'[p]] = k
      PROVE  Good(p)'
  BY <1>4 DEF ReportKey, KeyStored
<1>5. ASSUME NEW p \in Procs, syncPc[p] = "reporting"
      PROVE  \E e \in Entries, k \in Keys :
               /\ cur[p] = e /\ ReportKey(e) = k /\ ReportKey(e)' = k
               /\ IF pc[p] = "idle" THEN KeyStored(k)' ELSE key[obj[p]] = k
  <2>1. PICK e \in Entries : cur[p] = e /\ entry[e] # None
    BY <1>1, <1>5 DEF VarsTyped, CallTyped
  <2>2. PICK k \in Keys : ReportKey(e) = k /\ ReportKey(e)' = k
    BY <1>2, <2>1, EntriesKept
  <2>3. CASE pc[p] = "idle"
    <3>1. KeyStored(k)
      BY <1>5, <2>1, <2>2, <2>3 DEF UploadInv
    <3> QED
      BY <2>1, <2>2, <2>3, <3>1, KeyStays
  <2>4. CASE pc[p] # "idle"
    BY <1>5, <2>1, <2>2, <2>4 DEF UploadInv
  <2> QED
    BY <2>3, <2>4
<1>6. ASSUME NEW p \in Procs, CallKept(p) PROVE Good(p)'
  BY <1>4, <1>5, <1>6 DEF CallKept
<1>7. ASSUME NEW r \in Procs, NEW e \in Entries, ReplayEntry(r, e)
      PROVE  entry[e] # None /\ entry[e].payload.id \in IncidentIds \cup {None}
  BY <1>1, <1>7 DEF VarsTyped, CallTyped, ReplayEntry, Turn, SyncEntry, Payloads
<1>8. \A p \in Procs : Good(p)'
  <2> SUFFICES ASSUME NEW p \in Procs PROVE Good(p)'
    OBVIOUS
  <2>1. ASSUME NEW e \in Entries, ReplayEntry(p, e) PROVE Good(p)'
    <3>1. PICK i \in IncidentIds \cup {None}, k \in Keys :
            ReportIncident(p, i, k) /\ k = ReportKey(e)
      BY <1>2, <1>7, <2>1 DEF ReplayEntry
    <3>2. key'[obj'[p]] = k /\ pc'[p] # "idle"
      <4>1. PICK o \in Objects, n \in IncidentIds, c \in {"finding", "saving"} :
              ReportStart(p, o, n, k, c)
        BY <3>1, ReportStarts
      <4> QED
        BY <1>1, <4>1 DEF VarsTyped, ReportStart
    <3>3. cur'[p] = e /\ entry[e] # None
      BY <1>1, <2>1 DEF VarsTyped, CallTyped, ReplayEntry, Turn
    <3>4. ReportKey(e)' = k
      BY <3>1, <3>3, EntriesKept
    <3> QED
      BY <1>4, <3>2, <3>3, <3>4
  <2>2. CASE ReportStep(p) /\ syncPc[p] = "reporting"
    <3>1. PICK e \in Entries, k \in Keys :
               /\ cur[p] = e /\ ReportKey(e) = k /\ ReportKey(e)' = k
               /\ IF pc[p] = "idle" THEN KeyStored(k)' ELSE key[obj[p]] = k
      BY <1>5, <2>2
    <3>2. /\ pc[p] # "idle" /\ cur' = cur
          /\ Incidents!ReportFound(p) \/ ReportGoesOn(p) \/ ReportSaved(p)
      BY <2>2, ReportSteps DEF syncVars, ReportDropped, ReportGoesOn, ReportSaved
    <3> QED
      BY <1>4, <3>1, <3>2, ReportedKey
  <2>3. CASE CallKept(p)
    BY <1>6, <2>3
  <2>4. CASE syncPc'[p] # "reporting"
    BY <2>4
  <2>5. CASE UNCHANGED vars
    BY <2>3, <2>5 DEF vars, CallKept
  <2>6. ASSUME NEW r \in Procs \ {p},
               \/ \E e \in Entries : ReplayEntry(r, e)
               \/ ReplayVanished(r) \/ ReportStep(r)
               \/ \E b \in Posts : PostIncident(r, b.id, b.key)
        PROVE  Good(p)'
    <3>1. syncPc'[p] = syncPc[p] /\ cur'[p] = cur[p]
      BY <1>1, <2>6 DEF VarsTyped, ReplayEntry, Turn, Go, ReplayVanished, ReportStep,
         PostIncident, syncVars
    <3>2. \/ ReportDropped(r) \/ ReportGoesOn(r) \/ ReportSaved(r)
          \/ SomeReport(r)
      <4>1. ASSUME NEW e \in Entries, ReplayEntry(r, e) PROVE SomeReport(r)
        BY <1>2, <1>7, <4>1 DEF ReplayEntry, SomeReport
      <4>2. ASSUME NEW b \in Posts, PostIncident(r, b.id, b.key) PROVE SomeReport(r)
        BY <4>2, SyncAssumption DEF PostIncident, SomeReport
      <4> QED
        BY <2>6, <4>1, <4>2, ReportSteps
    <3> QED
      BY <2>3, <3>1, <3>2, OthersKept
  <2>7. ASSUME NEW r \in Procs \ {p},
               \/ CacheSave(r) \/ ReplayUploaded(r) \/ ReplayFailing(r) \/ ReplayFailed(r) \/ ReplayMarked(r)
               \/ ReplayEnd(r) \/ ReplayBegin(r)
               \/ \E e \in Entries : ReplaySkip(r, e) \/ ReplayRefused(r, e)
               \/ \E i \in EntryIds, rep \in Reports : CacheReport(r, i, rep)
        PROVE  Good(p)'
    <3>1. UNCHANGED incidentVars /\ syncPc'[p] = syncPc[p] /\ cur'[p] = cur[p]
      BY <1>1, <2>7 DEF VarsTyped, CacheSave, ReplayUploaded, MarkUploaded, ReplayFailing,
         ReplayFailed, ReplayMarked, ReplayEnd, ReplayBegin, ReplaySkip, ReplayRefused, CacheReport,
         Turn, Go
    <3> QED
      BY <2>3, <3>1 DEF incidentVars, CallKept
  <2>8. CASE \/ CacheSave(p) \/ ReplayUploaded(p) \/ ReplayFailing(p) \/ ReplayFailed(p) \/ ReplayMarked(p)
             \/ ReplayEnd(p) \/ ReplayBegin(p) \/ ReplayVanished(p)
             \/ ReportStep(p) /\ syncPc[p] # "reporting"
             \/ \E e \in Entries : ReplaySkip(p, e) \/ ReplayRefused(p, e)
             \/ \E b \in Posts : PostIncident(p, b.id, b.key)
             \/ \E i \in EntryIds, rep \in Reports : CacheReport(p, i, rep)
    <3>1. syncPc'[p] # "reporting"
      BY <1>1, <2>8 DEF VarsTyped, CacheSave, ReplayUploaded, MarkUploaded, ReplayFailing,
         ReplayFailed, ReplayMarked, ReplayEnd, ReplayBegin, ReplayVanished, ReportStep, ReplaySkip,
         ReplayRefused, PostIncident, CacheReport, Idle, Turn, Go, syncVars
    <3> QED
      BY <2>4, <3>1
  <2> HIDE DEF Good
  <2>9. ASSUME NEW r \in Procs, r # p,
               \/ Proceed(r) \/ ReplayBegin(r)
               \/ \E b \in Posts : PostIncident(r, b.id, b.key)
               \/ \E i \in EntryIds, rep \in Reports : CacheReport(r, i, rep)
        PROVE  Good(p)'
    BY <2>6, <2>7, <2>9 DEF Proceed
  <2>10. CASE \/ Proceed(p) \/ ReplayBegin(p)
              \/ \E b \in Posts : PostIncident(p, b.id, b.key)
              \/ \E i \in EntryIds, rep \in Reports : CacheReport(p, i, rep)
    BY <2>1, <2>2, <2>8, <2>10 DEF Proceed
  <2> QED
    BY <2>5, <2>9, <2>10, SyncAssumption DEF Next, Clients
<1> QED
  BY <1>3, <1>8 DEF UploadInv

\* No report is lost, for any reports, keys and interleaving of the ticker, the
\* endpoint and posted reports: an entry counts as uploaded only when an incident
\* with its key has been stored.
THEOREM UploadedReportsAreStored == Spec => []UploadedWasStored
<1>1. Init => UploadInv
  BY DEF Init, UploadInv, UploadedWasStored
<1>2. UploadInv => UploadedWasStored
  BY DEF UploadInv
<1>3. TypeInv /\ UploadInv /\ [Next]_vars => UploadInv'
  BY UploadNext
<1> QED
  BY <1>1, <1>2, <1>3, TypeAlways, PTL DEF Spec
-----------------------------------------------------------------------------
(* Idempotency keys.                                                       *)

Reporting(p) == pc[p] \in {"finding", "saving"}
SameKey(a, b) == key[a] # None /\ key[a] = key[b]
Pair(a, b) == {a, b}

\* Two incidents with one key that are stored, or that a report is about to store, or
\* that are being reported, overlapped.
OverlapInv ==
  /\ \A i, j \in IncidentIds :
       incidents[i] # None /\ incidents[j] # None /\ incidents[i] # incidents[j]
         /\ SameKey(incidents[i], incidents[j])
           => Pair(incidents[i], incidents[j]) \in overlapping
  /\ \A i \in IncidentIds, p \in Procs :
       incidents[i] # None /\ pc[p] = "saving" /\ SameKey(incidents[i], obj[p])
         => Pair(incidents[i], obj[p]) \in overlapping
  /\ \A p1, p2 \in Procs :
       p1 # p2 /\ Reporting(p1) /\ Reporting(p2) /\ SameKey(obj[p1], obj[p2])
         => Pair(obj[p1], obj[p2]) \in overlapping

\* Who starts to report finds the key unknown, or waits for what has it.
LEMMA OverlapStart ==
  ASSUME TypeInv, OverlapInv, NEW p \in Procs, NEW i \in IncidentIds \cup {None},
         NEW k \in Keys \cup {None}, ReportIncident(p, i, k)
  PROVE  OverlapInv'
<1>0. \A a, b : Pair(a, b) = Pair(b, a)
  BY DEF Pair
<1> USE SyncAssumption DEF OverlapInv, SameKey, Reporting, TypeInv, TypeOK, VarsTyped,
        CallTyped, Fresh
<1>1. PICK o \in Objects, m \in IncidentIds, c \in {"finding", "saving"} :
        ReportStart(p, o, m, k, c)
  BY ReportStarts
<1>2. /\ obj' = [obj EXCEPT ![p] = o] /\ key' = [key EXCEPT ![o] = k]
      /\ incidents' = incidents /\ overlapping \subseteq overlapping'
      /\ pc' = [pc EXCEPT ![p] = c]
      /\ pc[p] = "idle" /\ id[o] = None
  BY <1>1 DEF ReportStart
<1>3. /\ \A n \in IncidentIds : incidents[n] # o
      /\ \A q \in Procs : pc[q] # "idle" => obj[q] # o
  BY <1>2
<1>4. ASSUME NEW q \in Procs, Reporting(q), k # None, key[obj[q]] = k
      PROVE  Pair(o, obj[q]) \in overlapping'
  BY <1>1, <1>4 DEF ReportStart, Incidents!Overlaps, Pair
<1>5. ASSUME NEW n \in IncidentIds, incidents[n] # None, pc'[p] = "saving"
      PROVE  ~(key[incidents[n]] # None /\ key[incidents[n]] = k)
  BY <1>1, <1>2, <1>5 DEF ReportStart, Incidents!IncidentExistsByKey, Incidents!Stored
<1>6. \A n, j \in IncidentIds :
        incidents'[n] # None /\ incidents'[j] # None /\ incidents'[n] # incidents'[j]
          /\ SameKey(incidents[n], incidents[j])'
            => Pair(incidents'[n], incidents'[j]) \in overlapping'
  BY <1>2, <1>3
<1>7. \A n \in IncidentIds, q \in Procs :
        incidents'[n] # None /\ pc'[q] = "saving" /\ SameKey(incidents[n], obj[q])'
          => Pair(incidents'[n], obj'[q]) \in overlapping'
  BY <1>2, <1>3, <1>5
<1>8. \A p1, p2 \in Procs :
        p1 # p2 /\ Reporting(p1)' /\ Reporting(p2)' /\ SameKey(obj[p1], obj[p2])'
          => Pair(obj'[p1], obj'[p2]) \in overlapping'
  BY <1>2, <1>3, <1>4, <1>0
<1> QED
  BY <1>6, <1>7, <1>8

\* What a report drops or saves leaves every other pair alone.
LEMMA OverlapStep ==
  ASSUME TypeInv, OverlapInv, NEW p \in Procs,
         ReportDropped(p) \/ ReportGoesOn(p) \/ ReportSaved(p)
  PROVE  OverlapInv'
<1>0. \A a, b : Pair(a, b) = Pair(b, a)
  BY DEF Pair
<1> USE SyncAssumption DEF OverlapInv, SameKey, Reporting, TypeInv, TypeOK, VarsTyped,
        CallTyped, Fresh
<1>1. CASE ReportDropped(p)
  <2> DEFINE o == obj[p]
  <2>1. /\ obj' = [obj EXCEPT ![p] = None] /\ key' = [key EXCEPT ![o] = None]
        /\ incidents' = incidents /\ pc' = [pc EXCEPT ![p] = "idle"]
        /\ o \in Objects
    BY <1>1 DEF ReportDropped
  <2>2. /\ \A i \in IncidentIds : incidents[i] # o
        /\ \A q \in Procs \ {p} : pc[q] # "idle" => obj[q] # o
    BY <1>1 DEF ReportDropped
  <2>3. \A a, b : Pair(a, b) \in overlapping /\ a # o /\ b # o => Pair(a, b) \in overlapping'
    BY <1>1 DEF ReportDropped, Pair
  <2> HIDE DEF o
  <2>4. /\ pc'[p] = "idle" /\ \A x \in Objects \ {o} : key'[x] = key[x]
        /\ \A q \in Procs \ {p} : pc'[q] = pc[q] /\ obj'[q] = obj[q]
    BY <2>1
  <2>5. /\ \A q \in Procs : pc[q] # "idle" => obj[q] \in Objects
        /\ \A i \in IncidentIds : incidents[i] # None => incidents[i] \in Objects
    OBVIOUS
  <2> HIDE DEF TypeInv, TypeOK, VarsTyped, CallTyped, Fresh
  <2>6. \A i, j \in IncidentIds :
          incidents'[i] # None /\ incidents'[j] # None /\ incidents'[i] # incidents'[j]
            /\ SameKey(incidents[i], incidents[j])'
              => Pair(incidents'[i], incidents'[j]) \in overlapping'
    BY <2>1, <2>2, <2>3, <2>4, <2>5
  <2>7. \A i \in IncidentIds, q \in Procs :
          incidents'[i] # None /\ pc'[q] = "saving" /\ SameKey(incidents[i], obj[q])'
            => Pair(incidents'[i], obj'[q]) \in overlapping'
    BY <2>1, <2>2, <2>3, <2>4, <2>5
  <2>8. \A p1, p2 \in Procs :
          p1 # p2 /\ Reporting(p1)' /\ Reporting(p2)' /\ SameKey(obj[p1], obj[p2])'
            => Pair(obj'[p1], obj'[p2]) \in overlapping'
    BY <2>1, <2>2, <2>3, <2>4, <2>5
  <2> QED
    BY <2>6, <2>7, <2>8
<1>2. CASE ReportGoesOn(p)
  BY <1>2 DEF ReportGoesOn, Incidents!IncidentExistsByKey, Incidents!Stored
<1>3. CASE ReportSaved(p)
  <2>1. /\ incidents' = [incidents EXCEPT ![id[obj[p]]] = obj[p]]
        /\ pc' = [pc EXCEPT ![p] = "idle"] /\ obj' = [obj EXCEPT ![p] = None]
        /\ UNCHANGED <<key, overlapping>> /\ pc[p] = "saving"
    BY <1>3 DEF ReportSaved
  <2>2. \A i \in IncidentIds : incidents'[i] \in {incidents[i], obj[p]}
    BY <2>1
  <2>3. pc'[p] = "idle" /\ \A q \in Procs \ {p} : pc'[q] = pc[q] /\ obj'[q] = obj[q]
    BY <2>1
  <2> HIDE DEF TypeInv, TypeOK, VarsTyped, CallTyped, Fresh
  <2> QED
    BY <2>1, <2>2, <2>3, <1>0
<1> QED
  BY <1>1, <1>2, <1>3

LEMMA OverlapNext == TypeInv /\ OverlapInv /\ [Next]_vars => OverlapInv'
<1> SUFFICES ASSUME TypeInv, OverlapInv, [Next]_vars PROVE OverlapInv'
  OBVIOUS
<1>1. ASSUME NEW p \in Procs, SomeReport(p) PROVE OverlapInv'
  BY <1>1, OverlapStart DEF SomeReport
<1>2. ASSUME NEW p \in Procs, NEW e \in Entries, ReplayEntry(p, e) PROVE SomeReport(p)
  <2>1. VarsTyped /\ CallTyped(p)
    BY DEF TypeInv, TypeOK
  <2>2. entry[e] \in SyncEntry
    BY <1>2, <2>1 DEF VarsTyped, CallTyped, ReplayEntry, Turn
  <2>3. entry[e].payload.id \in IncidentIds \cup {None} /\ ReportKey(e) \in Keys
    BY <2>2 DEF SyncEntry, Payloads, ReportKey
  <2> QED
    BY <1>2, <2>3 DEF ReplayEntry, SomeReport
<1>3. ASSUME NEW p \in Procs, NEW b \in Posts, PostIncident(p, b.id, b.key)
      PROVE  SomeReport(p)
  BY <1>3, SyncAssumption DEF PostIncident, SomeReport
<1>4. ASSUME NEW p \in Procs, ReportStep(p) \/ ReplayVanished(p) PROVE OverlapInv'
  BY <1>4, ReportSteps, OverlapStep
<1>5. CASE UNCHANGED <<pc, obj, incidents, key, overlapping>>
  BY <1>5 DEF OverlapInv, SameKey, Reporting
<1>6. ASSUME NEW p \in Procs,
             \/ CacheSave(p) \/ ReplayUploaded(p) \/ ReplayFailing(p) \/ ReplayFailed(p)
             \/ ReplayMarked(p) \/ ReplayEnd(p) \/ ReplayBegin(p)
             \/ \E e \in Entries : ReplaySkip(p, e) \/ ReplayRefused(p, e)
             \/ \E i \in EntryIds, r \in Reports : CacheReport(p, i, r)
      PROVE  OverlapInv'
  BY <1>5, <1>6 DEF CacheSave, ReplayUploaded, MarkUploaded, ReplayFailing, ReplayFailed,
     ReplayMarked, ReplayEnd, ReplayBegin, ReplaySkip, ReplayRefused, CacheReport,
     incidentVars
<1>7. CASE UNCHANGED vars
  BY <1>5, <1>7 DEF vars
<1> QED
  BY <1>1, <1>2, <1>3, <1>4, <1>6, <1>7, SyncAssumption DEF Next, Clients, Proceed

\* Two stored incidents share an idempotency key only if their reports overlapped, for
\* any cached payloads and posts, with an ID of their own or without, and however many
\* goroutines replay and report (internal/service/dispatch.go:103-124,
\* internal/service/sync.go:57-99).
THEOREM DuplicatesOverlap == Spec => []DuplicatesOverlapped
<1>1. Init => OverlapInv
  BY DEF Init, OverlapInv, Reporting
<1>2. TypeInv /\ OverlapInv /\ [Next]_vars => OverlapInv'
  BY OverlapNext
<1>3. OverlapInv => DuplicatesOverlapped
  BY DEF OverlapInv, SameKey, Pair, DuplicatesOverlapped, Incidents!DuplicatesOverlapped,
         Incidents!Stored
<1> QED
  BY <1>1, <1>2, <1>3, TypeAlways, PTL DEF Spec
=============================================================================
