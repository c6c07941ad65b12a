----------------------- MODULE IncidentServiceProofs -----------------------
(***************************************************************************)
(* Theorems about IncidentService, for any number of goroutines, reports,  *)
(* IDs, keys and dispatchers, any timeout and any length of time.          *)
(***************************************************************************)
EXTENDS IncidentService, TLAPS

-----------------------------------------------------------------------------
(* Type correctness.                                                       *)

Reporting(p) == pc[p] \in {"finding", "saving"}

\* The struct of a report that is not saved yet belongs to its call alone, so that
\* dropping it (Discard) takes it from nobody.
Fresh(p) == Reporting(p) =>
  /\ \A i \in IncidentIds : incidents[i] # obj[p]
  /\ obj[p] \notin todo /\ target # obj[p]
  /\ \A p2 \in Procs \ {p} : pc[p2] # "idle" => obj[p2] # obj[p]

TypeInv ==
  /\ TypeOK
  /\ \A p \in Procs : Fresh(p)

LEMMA TypeInit == Init => TypeInv
BY IncidentAssumption DEF Init, TypeInv, TypeOK, VarsTyped, CallTyped, ScanTyped, Fresh,
   Reporting, ControlPoints, Unchecked, Statuses

LEMMA LookupTyped ==
  ASSUME TypeInv, NEW p \in Procs, NEW i \in IncidentIds, NEW op \in Unchecked,
         NEW d \in Actors \cup {None}, Lookup(p, i, op, d)
  PROVE  TypeInv'
BY IncidentAssumption DEF TypeInv, TypeOK, VarsTyped, CallTyped, ScanTyped, Fresh,
   Reporting, ControlPoints, Unchecked, Lookup, scanVars, reportVars, stampVars

LEMMA TypeNext == TypeInv /\ [Next]_vars => TypeInv'
<1> SUFFICES ASSUME TypeInv, [Next]_vars PROVE TypeInv'
  OBVIOUS
<1> USE IncidentAssumption DEF TypeInv, TypeOK, VarsTyped, CallTyped, ScanTyped, Fresh,
        Reporting, ControlPoints, Unchecked, Statuses
<1>1. ASSUME NEW p \in Procs, NEW o \in Objects, ReportIncident(p, o, Reports[o])
      PROVE  TypeInv'
  <2>1. /\ Reports[o].id \in IncidentIds /\ Reports[o].key \in Keys \cup {None}
        /\ Reports[o].highRisk \in BOOLEAN /\ Reports[o].reportedAt \in 0..MaxClock
        /\ Reports[o].progress \in Progress
    BY DEF Report
  <2>2. /\ Reports[o].progress.status \in Statuses
        /\ Reports[o].progress.reviewedBy \in Actors \cup {None}
        /\ Reports[o].progress.responded \in BOOLEAN
        /\ Reports[o].progress.resolved \in BOOLEAN
        /\ Reports[o].progress.escalatedAt \in 0..MaxClock \cup {None}
    BY <2>1 DEF Progress
  <2>3. VarsTyped'
    <3>1. overlapping' \subseteq SUBSET Objects
      BY <1>1 DEF ReportIncident, Overlaps
    <3> QED
      BY <1>1, <2>1, <2>2, <3>1 DEF ReportIncident, scanVars
  <2>4. \A q \in Procs : CallTyped(q)' /\ Fresh(q)'
    BY <1>1, <2>1 DEF ReportIncident, scanVars
  <2>5. ScanTyped' /\ \A i \in IncidentIds : incidents'[i] # None => id'[incidents'[i]] = i
    BY <1>1 DEF ReportIncident, scanVars
  <2> QED
    BY <2>3, <2>4, <2>5
<1>2. ASSUME NEW p \in Procs, NEW i \in IncidentIds, NEW d \in Actors,
             ReviewIncident(p, i, d)
      PROVE  TypeInv'
  BY <1>2, LookupTyped DEF ReviewIncident, Unchecked
<1>3. ASSUME NEW p \in Procs, NEW i \in IncidentIds,
             StartDispatch(p, i) \/ RespondIncident(p, i) \/ ResolveIncident(p, i)
      PROVE  TypeInv'
  BY <1>3, LookupTyped DEF StartDispatch, RespondIncident, ResolveIncident, Unchecked
<1>4. ASSUME NEW p \in Procs, ReportFound(p)
      PROVE  TypeInv'
  BY <1>4 DEF ReportFound, Discard, Return, scanVars, stampVars
<1>5. ASSUME NEW p \in Procs, ReportVanished(p)
      PROVE  TypeInv'
  BY <1>5 DEF ReportVanished, scanVars, reportVars, stampVars
<1>6. ASSUME NEW p \in Procs, SaveIncident(p)
      PROVE  TypeInv'
  BY <1>6 DEF SaveIncident, Return, scanVars, reportVars, stampVars
<1>7. ASSUME NEW p \in Procs, ReviewStatus(p)
      PROVE  TypeInv'
  BY <1>7 DEF ReviewStatus, SetStatus, scanVars, reportVars, stampVars
<1>8. ASSUME NEW p \in Procs, ReviewReviewer(p)
      PROVE  TypeInv'
  BY <1>8 DEF ReviewReviewer, Return, scanVars, reportVars
<1>9. ASSUME NEW p \in Procs, DispatchStatus(p)
      PROVE  TypeInv'
  BY <1>9 DEF DispatchStatus, SetStatus, Return, scanVars, reportVars, stampVars
<1>10. ASSUME NEW p \in Procs, RespondStatus(p)
       PROVE  TypeInv'
  BY <1>10 DEF RespondStatus, SetStatus, Return, scanVars, reportVars
<1>11. ASSUME NEW p \in Procs, ResolveStatus(p)
       PROVE  TypeInv'
  BY <1>11 DEF ResolveStatus, SetStatus, Return, scanVars, reportVars
<1>12. CASE ScanBegin
  BY <1>12 DEF ScanBegin, Stored, callVars, reportVars, stampVars
<1>13. ASSUME NEW o \in Objects, ScanSkip(o) \/ ScanChoose(o)
       PROVE  TypeInv'
  BY <1>13 DEF ScanSkip, ScanChoose, callVars, reportVars, stampVars
<1>14. CASE EscalateBegin
  BY <1>14 DEF EscalateBegin, callVars, reportVars, stampVars
<1>15. CASE EscalateFail
  BY <1>15 DEF EscalateFail, callVars, reportVars, stampVars
<1>16. CASE EscalateStatus
  BY <1>16 DEF EscalateStatus, callVars, reportVars
<1>17. CASE ScanEnd
  BY <1>17 DEF ScanEnd, callVars, reportVars, stampVars
<1>20. ASSUME NEW p \in Procs, StatusAccepted(p) \/ StatusRefused(p)
       PROVE  TypeInv'
  <2>1. \E op \in {"idle", "review", "dispatch", "respond", "resolve"} :
          pc' = [pc EXCEPT ![p] = op]
    BY <1>20 DEF StatusAccepted, StatusRefused, Checked, Return
  <2>2. CASE StatusAccepted(p)
    BY <2>1, <2>2 DEF StatusAccepted, scanVars, reportVars, stampVars
  <2>3. CASE StatusRefused(p)
    BY <2>3 DEF StatusRefused, Return, scanVars, reportVars, stampVars
  <2> QED
    BY <1>20, <2>2, <2>3
<1>21. CASE EscalateIncident
  BY <1>21 DEF EscalateIncident, callVars, reportVars, stampVars
<1>18. CASE Tick
  BY <1>18 DEF Tick, callVars, scanVars, reportVars, stampVars
<1>19. CASE UNCHANGED vars
  BY <1>19 DEF vars
<1> HIDE DEF TypeInv, TypeOK, VarsTyped, CallTyped, ScanTyped, Fresh, Reporting,
             ControlPoints, Unchecked, Statuses
<1> QED
  BY <1>1, <1>2, <1>3, <1>4, <1>5, <1>6, <1>7, <1>8, <1>9, <1>10, <1>11, <1>12, <1>13,
     <1>14, <1>15, <1>16, <1>17, <1>18, <1>19, <1>20, <1>21 DEF Next, Clients, Proceed, Scan

LEMMA TypeAlways == Spec => []TypeInv
BY TypeInit, TypeNext, PTL DEF Spec

\* In every reachable state all variables and call locals are of the right kind,
\* and every struct a call or the worker looks up has an ID.
THEOREM TypeCorrect == Spec => []TypeOK
<1>1. TypeInv => TypeOK
  BY DEF TypeInv
<1> QED
  BY <1>1, TypeAlways, PTL

-----------------------------------------------------------------------------
(* Milestones.                                                             *)

Reviewed(o) ==
  \/ reviewedBy[o] \in Dispatchers
  \/ \E p \in Procs : pc[p] = "reviewer" /\ obj[p] = o /\ by[p] \in Dispatchers

\* A dispatcher reviewed o, or the report said so; somebody responded to it, or the
\* report said so.
Vetted(o) ==
  Reviewed(o) \/ Posted(o).responded \/ Posted(o).status \in {"reviewed", "dispatching"}
Answered(o) ==
  responded[o] \/ Posted(o).resolved \/ Posted(o).status = "responding"

\* A status that an operation starts from shows that the milestones before it
\* were reached, and so does a call that found one.
StampInv ==
  /\ \A p \in Procs : pc[p] \in {"toReview", "review", "reviewer"} => by[p] \in Dispatchers
  /\ \A o \in Objects :
       /\ status[o] \in {"reviewed", "dispatching"} => Vetted(o)
       /\ status[o] = "responding" => Answered(o)
       /\ responded[o] => Vetted(o)
       /\ resolved[o] => Answered(o)
  /\ \A p \in Procs, o \in Objects : obj[p] = o =>
       /\ pc[p] \in {"dispatch", "respond"} => Vetted(o)
       /\ pc[p] = "resolve" => Answered(o)

\* A review stays once it is reported, because only a dispatcher's name replaces
\* another.
LEMMA ReviewedStays ==
  ASSUME TypeInv, StampInv, [Next]_vars, NEW o \in Objects, Reviewed(o),
         \A p \in Procs, x \in Objects : ~ReportIncident(p, x, Reports[x]),
         \A p \in Procs : ~ReportFound(p)
  PROVE  Reviewed(o)'
<1> USE DEF StampInv, TypeInv, TypeOK, VarsTyped, CallTyped, ControlPoints, Unchecked
<1>1. ASSUME NEW p \in Procs, ReviewReviewer(p) PROVE Reviewed(o)'
  BY <1>1 DEF ReviewReviewer, Return, Reviewed
<1>2. CASE ~\E p \in Procs : ReviewReviewer(p)
  <2>1. reviewedBy' = reviewedBy
    BY <1>2 DEF Next, Clients, Proceed, Scan, ReviewIncident, StartDispatch,
       RespondIncident, ResolveIncident, Lookup, StatusAccepted, StatusRefused, Expected,
       Checked, ReportVanished, SaveIncident, ReviewStatus, DispatchStatus, RespondStatus,
       ResolveStatus, ScanBegin, ScanSkip, ScanChoose, EscalateIncident, EscalateBegin,
       EscalateFail, EscalateStatus, ScanEnd, Tick, stampVars, vars
  <2>2. ASSUME NEW p \in Procs, pc[p] = "reviewer"
        PROVE  pc'[p] = pc[p] /\ obj'[p] = obj[p] /\ by'[p] = by[p]
    BY <1>2, <2>2 DEF Next, Clients, Proceed, Scan, ReviewIncident, StartDispatch,
       RespondIncident, ResolveIncident, Lookup, StatusAccepted, StatusRefused, Expected,
       Checked, ReportVanished, SaveIncident, ReviewStatus, DispatchStatus, RespondStatus,
       ResolveStatus, ScanBegin, ScanSkip, ScanChoose, EscalateIncident, EscalateBegin,
       EscalateFail, EscalateStatus, ScanEnd, Tick, Return, callVars, vars
  <2> QED
    BY <2>1, <2>2 DEF Reviewed
<1> QED
  BY <1>1, <1>2

LEMMA StampNext == TypeInv /\ StampInv /\ [Next]_vars => StampInv'
<1> SUFFICES ASSUME TypeInv, StampInv, [Next]_vars PROVE StampInv'
  OBVIOUS
<1> USE IncidentAssumption DEF StampInv, TypeInv, TypeOK, VarsTyped, CallTyped,
        ScanTyped, ControlPoints, Unchecked, Statuses, Vetted, Answered, Reporting, Fresh, Posted
<1>1. ASSUME NEW p \in Procs, NEW o \in Objects, ReportIncident(p, o, Reports[o])
      PROVE  StampInv'
  <2>1. \A x \in Objects \ {o} : Reviewed(x) => Reviewed(x)'
    BY <1>1 DEF ReportIncident, Reviewed
  <2>2. \A q \in Procs : pc[q] # "idle" => obj[q] # o
    BY <1>1 DEF ReportIncident
  <2>3. /\ status'[o] = Posted(o).status /\ responded'[o] = Posted(o).responded
        /\ resolved'[o] = Posted(o).resolved
    BY <1>1 DEF ReportIncident
  <2>4. \A x \in Objects \ {o} :
          status'[x] = status[x] /\ responded'[x] = responded[x] /\ resolved'[x] = resolved[x]
    BY <1>1 DEF ReportIncident
  <2>5. \A q \in Procs \ {p} : pc'[q] = pc[q] /\ obj'[q] = obj[q] /\ by' = by
    BY <1>1 DEF ReportIncident
  <2>6. pc'[p] \in {"finding", "saving"} /\ by' = by
    BY <1>1 DEF ReportIncident
  <2>7. Vetted(o)' \/ ~(responded'[o] \/ status'[o] \in {"reviewed", "dispatching"})
    BY <2>3
  <2>8. Answered(o)' \/ ~(resolved'[o] \/ status'[o] = "responding")
    BY <2>3
  <2>9. \A x \in Objects \ {o} : (Vetted(x) => Vetted(x)') /\ (Answered(x) => Answered(x)')
    BY <2>1, <2>4
  <2> HIDE DEF Vetted, Answered
  <2> QED
    BY <2>2, <2>4, <2>5, <2>6, <2>7, <2>8, <2>9
<1>2. ASSUME NEW p \in Procs, ReportFound(p) PROVE StampInv'
  <2>1. \A x \in Objects \ {obj[p]} : Reviewed(x) => Reviewed(x)'
    BY <1>2 DEF ReportFound, Discard, Return, Reviewed
  <2> QED
    BY <1>2, <2>1 DEF ReportFound, Discard, Return
<1>3. CASE /\ \A p \in Procs, x \in Objects : ~ReportIncident(p, x, Reports[x])
           /\ \A p \in Procs : ~ReportFound(p)
  <2>0. \A o \in Objects : Reviewed(o) => Reviewed(o)'
    BY <1>3, ReviewedStays
  <2>1. ASSUME NEW p \in Procs, NEW i \in IncidentIds, NEW d \in Actors,
               ReviewIncident(p, i, d)
        PROVE  StampInv'
    BY <2>0, <2>1 DEF ReviewIncident, Lookup, stampVars
  <2>2. ASSUME NEW p \in Procs, NEW i \in IncidentIds,
               StartDispatch(p, i) \/ RespondIncident(p, i) \/ ResolveIncident(p, i)
        PROVE  StampInv'
    <3>1. /\ \E op \in {"toDispatch", "toRespond", "toResolve"} : pc' = [pc EXCEPT ![p] = op]
          /\ by' = [by EXCEPT ![p] = None] /\ obj' = [obj EXCEPT ![p] = incidents[i]]
          /\ UNCHANGED <<status, responded, resolved>>
      BY <2>2 DEF StartDispatch, RespondIncident, ResolveIncident, Lookup, stampVars
    <3> QED
      BY <2>0, <3>1
  <2>3. ASSUME NEW p \in Procs, StatusAccepted(p) PROVE StampInv'
    BY <2>0, <2>3 DEF StatusAccepted, Expected, Checked, stampVars
  <2>4. ASSUME NEW p \in Procs, StatusRefused(p) PROVE StampInv'
    BY <2>0, <2>4 DEF StatusRefused, Return, stampVars
  <2>5. ASSUME NEW p \in Procs, ReportVanished(p) \/ SaveIncident(p) PROVE StampInv'
    BY <2>0, <2>5 DEF ReportVanished, SaveIncident, Return, stampVars
  <2>6. ASSUME NEW p \in Procs, ReviewStatus(p) PROVE StampInv'
    <3>1. ASSUME NEW o \in Objects, obj[p] = o PROVE Reviewed(o)'
      BY <2>6, <3>1 DEF ReviewStatus, Reviewed
    <3> QED
      BY <2>0, <2>6, <3>1 DEF ReviewStatus, SetStatus, stampVars
  <2>7. ASSUME NEW p \in Procs, ReviewReviewer(p) PROVE StampInv'
    BY <2>0, <2>7 DEF ReviewReviewer, Return
  <2>8. ASSUME NEW p \in Procs, DispatchStatus(p) PROVE StampInv'
    BY <2>0, <2>8 DEF DispatchStatus, SetStatus, Return, stampVars
  <2>9. ASSUME NEW p \in Procs, RespondStatus(p) PROVE StampInv'
    BY <2>0, <2>9 DEF RespondStatus, SetStatus, Return
  <2>10. ASSUME NEW p \in Procs, ResolveStatus(p) PROVE StampInv'
    BY <2>0, <2>10 DEF ResolveStatus, SetStatus, Return
  <2>11. CASE EscalateStatus
    BY <2>0, <2>11 DEF EscalateStatus, callVars
  <2>12. CASE UNCHANGED <<callVars, status, stampVars>>
    BY <2>0, <2>12 DEF callVars, stampVars
  <2> HIDE DEF StampInv, TypeInv, TypeOK, VarsTyped, CallTyped, ScanTyped, ControlPoints,
               Unchecked, Statuses, Vetted, Answered, Reporting, Fresh, Posted
  <2> QED
    BY <1>3, <2>1, <2>2, <2>3, <2>4, <2>5, <2>6, <2>7, <2>8, <2>9, <2>10, <2>11, <2>12
    DEF Next, Clients, Proceed, Scan, ScanBegin, ScanSkip, ScanChoose, EscalateIncident,
        EscalateBegin, EscalateFail, ScanEnd, Tick, callVars, stampVars, vars
<1> QED
  BY <1>1, <1>2, <1>3

\* Nothing is resolved that nobody responded to, and nothing is responded to without
\* a registered dispatcher's review, unless it was reported as past that milestone,
\* whatever statuses late writes bring back (internal/domain/incident.go:103-144).
THEOREM MilestonesInOrder == Spec => []StampsInOrder
<1>1. Init => StampInv
  BY DEF Init, StampInv
<1>2. TypeInv /\ StampInv /\ [Next]_vars => StampInv'
  BY StampNext
<1>3. StampInv => StampsInOrder
  BY DEF StampInv, Vetted, Answered, Reviewed, StampsInOrder
<1> QED
  BY <1>1, <1>2, <1>3, TypeAlways, PTL DEF Spec

-----------------------------------------------------------------------------
(* Closure.                                                                *)

\* Only a reported incident has a status.
ReportedInv == \A o \in Objects : id[o] = None => status[o] = "none"

LEMMA ReportedNext == TypeInv /\ ReportedInv /\ [Next]_vars => ReportedInv'
<1> SUFFICES ASSUME TypeInv, ReportedInv, [Next]_vars PROVE ReportedInv'
  OBVIOUS
<1> USE IncidentAssumption DEF ReportedInv, TypeInv, TypeOK, VarsTyped, CallTyped, ScanTyped
<1>1. ASSUME NEW p \in Procs, NEW o \in Objects, ReportIncident(p, o, Reports[o])
      PROVE  ReportedInv'
  BY <1>1 DEF ReportIncident, Report, Progress, Statuses
<1>2. ASSUME NEW p \in Procs, ReportFound(p) PROVE ReportedInv'
  BY <1>2 DEF ReportFound, Discard
<1>3. ASSUME NEW p \in Procs,
             ReviewStatus(p) \/ DispatchStatus(p) \/ RespondStatus(p) \/ ResolveStatus(p)
      PROVE  ReportedInv'
  BY <1>3 DEF ReviewStatus, DispatchStatus, RespondStatus, ResolveStatus, SetStatus,
              reportVars
<1>4. CASE EscalateStatus
  BY <1>4 DEF EscalateStatus, reportVars
<1>5. CASE UNCHANGED <<id, status>>
  BY <1>5
<1> HIDE DEF ReportedInv, TypeInv, TypeOK, VarsTyped, CallTyped, ScanTyped
<1> QED
  BY <1>1, <1>2, <1>3, <1>4, <1>5
  DEF Next, Clients, Proceed, Scan, ReviewIncident, StartDispatch, RespondIncident,
      ResolveIncident, Lookup, StatusAccepted, StatusRefused, ReportVanished, SaveIncident,
      ReviewReviewer, ScanBegin, ScanSkip, ScanChoose, EscalateIncident, EscalateBegin, EscalateFail, ScanEnd, Tick, reportVars, vars

\* What a closed incident keeps in a step.
Kept(o) ==
  Closed(o)' /\ UNCHANGED <<status[o], reviewedBy[o], responded[o], resolved[o], escalatedAt[o]>>

LEMMA ClosedNext ==
  ASSUME TypeInv, ReportedInv, [Next]_vars, NEW o \in Objects, Closed(o)
  PROVE  Kept(o)
<1> USE IncidentAssumption DEF ReportedInv, TypeInv, TypeOK, VarsTyped, CallTyped, ScanTyped
<1> DEFINE Same == UNCHANGED <<status[o], reviewedBy[o], responded[o], resolved[o], escalatedAt[o]>>
           Past(q) == pc[q] \notin {"idle"} \cup Unchecked
\* A call that does not get past its check with o leaves it closed.
<1>a. ASSUME NEW p \in Procs, \A q \in Procs \ {p} : pc'[q] = pc[q] /\ obj'[q] = obj[q],
             pc'[p] \in {"idle"} \cup Unchecked \/ obj'[p] # o,
             UNCHANGED <<scanPc, target>>, Same
      PROVE  Kept(o)
  BY <1>a DEF Kept, Closed, WorkedOn
<1>b. \A q \in Procs : Past(q) => obj[q] # o
  BY DEF Closed, WorkedOn
<1>1. ASSUME NEW p \in Procs, NEW x \in Objects, ReportIncident(p, x, Reports[x])
      PROVE  Kept(o)
  <2>1. x # o
    BY <1>1 DEF ReportIncident, Closed
  <2>2. Same /\ UNCHANGED <<scanPc, target>>
    BY <1>1, <2>1 DEF ReportIncident, scanVars
  <2>3. obj'[p] = x /\ \A q \in Procs \ {p} : pc'[q] = pc[q] /\ obj'[q] = obj[q]
    BY <1>1 DEF ReportIncident
  <2> QED
    BY <2>1, <2>2, <2>3, <1>a
<1>2. ASSUME NEW p \in Procs, NEW i \in IncidentIds,
             StartDispatch(p, i) \/ RespondIncident(p, i) \/ ResolveIncident(p, i)
               \/ \E d \in Actors : ReviewIncident(p, i, d)
      PROVE  Kept(o)
  <2>1. /\ pc'[p] \in Unchecked /\ Same /\ UNCHANGED <<scanPc, target>>
        /\ \A q \in Procs \ {p} : pc'[q] = pc[q] /\ obj'[q] = obj[q]
    BY <1>2 DEF ReviewIncident, StartDispatch, RespondIncident, ResolveIncident, Lookup,
       Unchecked, scanVars, stampVars
  <2> QED
    BY <2>1, <1>a
<1>3. ASSUME NEW p \in Procs, ReportFound(p) PROVE Kept(o)
  <2>1. obj[p] # o
    BY <1>3, <1>b DEF ReportFound, Unchecked
  <2>2. /\ status' = [status EXCEPT ![obj[p]] = "none"]
        /\ reviewedBy' = [reviewedBy EXCEPT ![obj[p]] = None]
        /\ responded' = [responded EXCEPT ![obj[p]] = FALSE]
        /\ resolved' = [resolved EXCEPT ![obj[p]] = FALSE]
        /\ escalatedAt' = [escalatedAt EXCEPT ![obj[p]] = None]
        /\ UNCHANGED <<scanPc, target>>
    BY <1>3 DEF ReportFound, Discard, scanVars
  <2>3. /\ DOMAIN status = Objects /\ DOMAIN reviewedBy = Objects
        /\ DOMAIN responded = Objects /\ DOMAIN resolved = Objects
        /\ DOMAIN escalatedAt = Objects
    OBVIOUS
  <2>4. Same /\ UNCHANGED <<scanPc, target>>
    <3> HIDE DEF ReportedInv, TypeInv, TypeOK, VarsTyped, CallTyped, ScanTyped
    <3> QED
      BY <2>1, <2>2, <2>3
  <2>5. pc'[p] = "idle" /\ \A q \in Procs \ {p} : pc'[q] = pc[q] /\ obj'[q] = obj[q]
    BY <1>3 DEF ReportFound, Return
  <2> QED
    BY <2>4, <2>5, <1>a
<1>4. ASSUME NEW p \in Procs, ReportVanished(p) \/ SaveIncident(p) PROVE Kept(o)
  <2>1. obj[p] # o
    BY <1>4, <1>b DEF ReportVanished, SaveIncident, Unchecked
  <2>2. Same /\ UNCHANGED <<scanPc, target>>
    BY <1>4 DEF ReportVanished, SaveIncident, scanVars, stampVars
  <2>3. /\ pc'[p] = "idle" \/ obj'[p] = obj[p]
        /\ \A q \in Procs \ {p} : pc'[q] = pc[q] /\ obj'[q] = obj[q]
    BY <1>4 DEF ReportVanished, SaveIncident, Return
  <2> QED
    BY <2>1, <2>2, <2>3, <1>a
<1>5. ASSUME NEW p \in Procs, ReviewStatus(p) \/ ReviewReviewer(p) PROVE Kept(o)
  <2>1. obj[p] # o
    BY <1>5, <1>b DEF ReviewStatus, ReviewReviewer, Unchecked
  <2>2. Same /\ UNCHANGED <<scanPc, target>>
    BY <1>5, <2>1 DEF ReviewStatus, ReviewReviewer, SetStatus, scanVars, stampVars
  <2>3. /\ pc'[p] = "idle" \/ obj'[p] = obj[p]
        /\ \A q \in Procs \ {p} : pc'[q] = pc[q] /\ obj'[q] = obj[q]
    BY <1>5 DEF ReviewStatus, ReviewReviewer, Return
  <2> QED
    BY <2>1, <2>2, <2>3, <1>a
<1>6. ASSUME NEW p \in Procs, DispatchStatus(p) \/ RespondStatus(p) \/ ResolveStatus(p)
      PROVE  Kept(o)
  <2>1. obj[p] # o
    BY <1>6, <1>b DEF DispatchStatus, RespondStatus, ResolveStatus, Unchecked
  <2>2. Same /\ UNCHANGED <<scanPc, target>>
    BY <1>6, <2>1 DEF DispatchStatus, RespondStatus, ResolveStatus, SetStatus, scanVars,
                      stampVars
  <2>3. pc'[p] = "idle" /\ \A q \in Procs \ {p} : pc'[q] = pc[q] /\ obj'[q] = obj[q]
    BY <1>6 DEF DispatchStatus, RespondStatus, ResolveStatus, Return
  <2> QED
    BY <2>2, <2>3, <1>a
<1>7. ASSUME NEW p \in Procs, StatusAccepted(p) PROVE Kept(o)
  <2>1. obj[p] # o
    BY <1>7 DEF StatusAccepted, Unchecked, Expected, Closed
  <2>2. /\ Same /\ UNCHANGED <<scanPc, target>> /\ obj' = obj
        /\ \A q \in Procs \ {p} : pc'[q] = pc[q]
    BY <1>7 DEF StatusAccepted, scanVars, stampVars
  <2> QED
    BY <2>1, <2>2, <1>a
<1>8. ASSUME NEW p \in Procs, StatusRefused(p) PROVE Kept(o)
  <2>1. /\ Same /\ UNCHANGED <<scanPc, target>> /\ pc'[p] = "idle"
        /\ \A q \in Procs \ {p} : pc'[q] = pc[q] /\ obj'[q] = obj[q]
    BY <1>8 DEF StatusRefused, Return, scanVars, stampVars
  <2> QED
    BY <2>1, <1>a
<1>9. CASE EscalateIncident \/ EscalateBegin
  BY <1>9 DEF EscalateIncident, EscalateBegin, Escalatable, Kept, Closed, WorkedOn,
              callVars, stampVars
<1>10. CASE EscalateStatus
  BY <1>10 DEF EscalateStatus, Kept, Closed, WorkedOn, callVars
<1>11. CASE ScanBegin \/ ScanEnd \/ EscalateFail
             \/ \E x \in Objects : ScanSkip(x) \/ ScanChoose(x)
  BY <1>11 DEF ScanBegin, ScanEnd, EscalateFail, ScanSkip, ScanChoose, Kept, Closed,
               WorkedOn, callVars, stampVars
<1>12. CASE UNCHANGED <<callVars, scanVars, status, stampVars>>
  BY <1>12 DEF Kept, Closed, WorkedOn, callVars, scanVars, stampVars
<1> HIDE DEF ReportedInv, TypeInv, TypeOK, VarsTyped, CallTyped, ScanTyped
<1> QED
  BY <1>1, <1>2, <1>3, <1>4, <1>5, <1>6, <1>7, <1>8, <1>9, <1>10, <1>11, <1>12
  DEF Next, Clients, Proceed, Scan, Tick, callVars, scanVars, stampVars, vars

\* A resolved or escalated incident that no earlier call works on is closed for
\* ever, however many calls and scans come later.
THEOREM ClosureIsFinal == Spec => ClosureHolds
<1>1. Init => ReportedInv
  BY DEF Init, ReportedInv
<1>2. TypeInv /\ ReportedInv /\ [Next]_vars => ReportedInv'
  BY ReportedNext
<1>3. TypeInv /\ ReportedInv /\ [Next]_vars =>
        [\A o \in Objects : Closed(o) => Kept(o)]_vars
  BY ClosedNext
<1> QED
  BY <1>1, <1>2, <1>3, TypeAlways, PTL DEF Spec, ClosureHolds, Kept

-----------------------------------------------------------------------------
(* Escalations.                                                            *)

\* A reported incident that will not be dropped any more.
Filed(o) ==
  id[o] \in IncidentIds /\ \A p \in Procs : Reporting(p) => obj[p] # o

\* At time t a high-risk incident filed under o's ID was past its timeout.
Due(o, t) ==
  \E x \in Objects :
    Filed(x) /\ id[x] = id[o] /\ highRisk[x] /\ t - reportedAt[x] >= Timeout

\* What the worker chose was overdue when the scan began, so something under its ID
\* was, and it stays so.
EscalationInv ==
  /\ now <= clock
  /\ \A o \in Objects : target = o =>
       Due(o, now) /\ (scanPc \in {"chosen", "escalating"} => highRisk[o])
  /\ \A o \in Objects : escalatedAt[o] \notin {None, Posted(o).escalatedAt} =>
       Filed(o) /\ highRisk[o] /\ Due(o, escalatedAt[o])

\* What is filed stays so, as it was reported.
LEMMA FiledStays ==
  ASSUME TypeInv, [Next]_vars, NEW o \in Objects, Filed(o)
  PROVE  Filed(o)' /\ UNCHANGED <<id[o], highRisk[o], reportedAt[o]>>
<1> USE IncidentAssumption DEF Filed, Reporting, TypeInv, TypeOK, VarsTyped, CallTyped,
        ControlPoints
<1>1. ASSUME NEW p \in Procs, NEW x \in Objects, ReportIncident(p, x, Reports[x])
      PROVE  Filed(o)' /\ UNCHANGED <<id[o], highRisk[o], reportedAt[o]>>
  BY <1>1 DEF ReportIncident
<1>2. ASSUME NEW p \in Procs, NEW i \in IncidentIds,
             StartDispatch(p, i) \/ RespondIncident(p, i) \/ ResolveIncident(p, i)
               \/ \E d \in Actors : ReviewIncident(p, i, d)
      PROVE  Filed(o)' /\ UNCHANGED <<id[o], highRisk[o], reportedAt[o]>>
  BY <1>2 DEF ReviewIncident, StartDispatch, RespondIncident, ResolveIncident, Lookup,
              Unchecked, reportVars
<1>3. ASSUME NEW p \in Procs, ReportFound(p)
      PROVE  Filed(o)' /\ UNCHANGED <<id[o], highRisk[o], reportedAt[o]>>
  <2>1. obj[p] # o
    BY <1>3 DEF ReportFound
  <2>2. \A q \in Procs : pc'[q] \in {"finding", "saving"} => obj'[q] # o
    BY <1>3 DEF ReportFound, Return
  <2>3. /\ id' = [id EXCEPT ![obj[p]] = None]
        /\ highRisk' = [highRisk EXCEPT ![obj[p]] = FALSE]
        /\ reportedAt' = [reportedAt EXCEPT ![obj[p]] = 0]
    BY <1>3 DEF ReportFound, Discard
  <2>4. /\ DOMAIN id = Objects /\ DOMAIN highRisk = Objects
        /\ DOMAIN reportedAt = Objects
    OBVIOUS
  <2>5. id'[o] = id[o] /\ highRisk'[o] = highRisk[o] /\ reportedAt'[o] = reportedAt[o]
    <3> HIDE DEF Filed, Reporting, TypeInv, TypeOK, VarsTyped, CallTyped, ControlPoints
    <3> QED
      BY <2>1, <2>3, <2>4
  <2> QED
    BY <2>2, <2>5
<1>4. ASSUME NEW p \in Procs,
             \/ StatusAccepted(p) \/ StatusRefused(p)
             \/ ReportVanished(p) \/ SaveIncident(p) \/ ReviewStatus(p) \/ ReviewReviewer(p)
             \/ DispatchStatus(p) \/ RespondStatus(p) \/ ResolveStatus(p)
      PROVE  Filed(o)' /\ UNCHANGED <<id[o], highRisk[o], reportedAt[o]>>
  BY <1>4 DEF StatusAccepted, StatusRefused, Unchecked, Expected, Checked, ReportVanished,
              SaveIncident, ReviewStatus, ReviewReviewer, DispatchStatus, RespondStatus,
              ResolveStatus, SetStatus, Return, reportVars
<1>5. CASE UNCHANGED <<callVars, reportVars>>
  BY <1>5 DEF callVars, reportVars
<1> HIDE DEF Filed, Reporting, TypeInv, TypeOK, VarsTyped, CallTyped, ControlPoints
<1> QED
  BY <1>1, <1>2, <1>3, <1>4, <1>5
  DEF Next, Clients, Proceed, Scan, ScanBegin, ScanSkip, ScanChoose, EscalateIncident,
      EscalateBegin, EscalateFail, EscalateStatus, ScanEnd, Tick, callVars, reportVars, vars

LEMMA EscalationNext == TypeInv /\ EscalationInv /\ [Next]_vars => EscalationInv'
<1> SUFFICES ASSUME TypeInv, EscalationInv, [Next]_vars PROVE EscalationInv'
  OBVIOUS
<1>a. \A o \in Objects : Filed(o) =>
        Filed(o)' /\ UNCHANGED <<id[o], highRisk[o], reportedAt[o]>>
  BY FiledStays
<1>b. ASSUME NEW o \in Objects, Filed(o), NEW t, Due(o, t)
      PROVE  \E x \in Objects :
               Filed(x)' /\ id'[x] = id'[o] /\ highRisk'[x] /\ t - reportedAt'[x] >= Timeout
  <2>1. PICK x \in Objects :
          Filed(x) /\ id[x] = id[o] /\ highRisk[x] /\ t - reportedAt[x] >= Timeout
    BY <1>b DEF Due
  <2> QED
    BY <2>1, <1>a, <1>b
<1>c. \A o \in Objects : o \in Stored \cup todo \cup {target} => Filed(o)
  BY IncidentAssumption DEF Stored, Filed, Fresh, TypeInv, TypeOK, VarsTyped, ScanTyped
<1>d. \A o \in Objects : target = o => Filed(o) /\ Due(o, now)
  BY <1>c DEF EscalationInv
\* An action that leaves an escalation stamp of a filed incident alone.
<1>e. ASSUME NEW o \in Objects, escalatedAt'[o] = escalatedAt[o],
             escalatedAt[o] \notin {None, Posted(o).escalatedAt}
      PROVE  /\ Filed(o)' /\ highRisk'[o]
             /\ \E x \in Objects :
                  /\ Filed(x)' /\ id'[x] = id'[o] /\ highRisk'[x]
                  /\ escalatedAt'[o] - reportedAt'[x] >= Timeout
  <2>1. Filed(o) /\ highRisk[o] /\ Due(o, escalatedAt[o])
    BY <1>e DEF EscalationInv
  <2> QED
    BY <2>1, <1>a, <1>b, <1>e
\* And one that leaves the worker's target alone.
<1>f. ASSUME NEW o \in Objects, target = o, now' = now
      PROVE  \E x \in Objects :
               Filed(x)' /\ id'[x] = id'[o] /\ highRisk'[x] /\ now' - reportedAt'[x] >= Timeout
  BY <1>b, <1>d, <1>f
<1> USE IncidentAssumption DEF EscalationInv, TypeInv, TypeOK, VarsTyped, ScanTyped, Due, Posted
<1>1. ASSUME UNCHANGED <<scanPc, target, now>>, now <= clock', 
             \A o \in Objects : escalatedAt'[o] \in {escalatedAt[o], None, Posted(o).escalatedAt}
      PROVE  EscalationInv'
  <2>1. ASSUME NEW o \in Objects, target' = o
        PROVE  /\ \E x \in Objects : /\ Filed(x)' /\ id'[x] = id'[o] /\ highRisk'[x]
                                     /\ now' - reportedAt'[x] >= Timeout
               /\ scanPc' \in {"chosen", "escalating"} => highRisk'[o]
    BY <1>1, <1>a, <1>d, <1>f, <2>1
  <2>2. ASSUME NEW o \in Objects, escalatedAt'[o] \notin {None, Posted(o).escalatedAt}
        PROVE  /\ Filed(o)' /\ highRisk'[o]
               /\ \E x \in Objects : /\ Filed(x)' /\ id'[x] = id'[o] /\ highRisk'[x]
                                     /\ escalatedAt'[o] - reportedAt'[x] >= Timeout
    BY <1>1, <1>e, <2>2
  <2> QED
    BY <1>1, <2>1, <2>2
<1>2. CASE ScanBegin \/ ScanEnd \/ EscalateFail
  <2>1. /\ now' <= clock' /\ escalatedAt' = escalatedAt
        /\ \A o \in Objects : target' # o
    BY <1>2 DEF ScanBegin, ScanEnd, EscalateFail, stampVars
  <2> QED
    BY <2>1, <1>e
<1>3. ASSUME NEW o \in Objects, ScanSkip(o) PROVE EscalationInv'
  BY <1>1, <1>3 DEF ScanSkip, stampVars
<1>4. ASSUME NEW o \in Objects, ScanChoose(o) PROVE EscalationInv'
  <2>1. /\ target' = o /\ now' = now /\ clock' = clock /\ escalatedAt' = escalatedAt
        /\ o \in todo /\ highRisk[o] /\ now - reportedAt[o] >= Timeout
    BY <1>4 DEF ScanChoose, ShouldEscalate, stampVars
  <2>2. Filed(o)' /\ highRisk'[o] /\ now' - reportedAt'[o] >= Timeout
    BY <2>1, <1>a, <1>c
  <2> QED
    BY <2>1, <2>2, <1>e
<1>5. CASE EscalateIncident
  <2>1. PICK x \in Objects, y \in Objects : x = target /\ y = incidents[id[target]]
    BY <1>5 DEF EscalateIncident
  <2>2. /\ target' = y /\ scanPc' = "found" /\ now' = now /\ clock' = clock
        /\ escalatedAt' = escalatedAt /\ id' = id
    BY <1>5, <2>1 DEF EscalateIncident, reportVars, stampVars
  <2>3. id[y] = id[x]
    BY <1>5, <2>1 DEF EscalateIncident
  <2>4. \E z \in Objects :
          Filed(z)' /\ id'[z] = id'[y] /\ highRisk'[z] /\ now' - reportedAt'[z] >= Timeout
    BY <2>1, <2>2, <2>3, <1>f
  <2> QED
    BY <2>2, <2>4, <1>e
<1>6. CASE EscalateBegin
  <2>1. /\ target' = target /\ now' = now /\ clock' = clock /\ escalatedAt' = escalatedAt
        /\ highRisk[target] /\ highRisk' = highRisk
    BY <1>6 DEF EscalateBegin, Escalatable, reportVars, stampVars
  <2> QED
    BY <2>1, <1>e, <1>f
<1>7. CASE EscalateStatus
  <2>1. PICK o \in Objects : o = target
    BY <1>7 DEF EscalateStatus
  <2>2. PICK t \in now..clock : escalatedAt' = [escalatedAt EXCEPT ![target] = t]
    BY <1>7 DEF EscalateStatus
  <2>3. /\ target' = None /\ now' = now /\ clock' = clock /\ highRisk[o]
    BY <1>7, <2>1 DEF EscalateStatus
  <2>4. /\ escalatedAt'[o] = t /\ t \in Int /\ t >= now
        /\ \A x \in Objects \ {o} : escalatedAt'[x] = escalatedAt[x]
    BY <2>1, <2>2
  <2>5. Filed(o)' /\ highRisk'[o]
    BY <2>1, <2>3, <1>a, <1>d
  <2>6. PICK x \in Objects :
          Filed(x)' /\ id'[x] = id'[o] /\ highRisk'[x] /\ now - reportedAt'[x] >= Timeout
    BY <2>1, <2>3, <1>f
  <2>7. reportedAt'[x] \in Int
    BY <1>7 DEF EscalateStatus, reportVars
  <2>8. t - reportedAt'[x] >= Timeout
    BY <2>4, <2>6, <2>7
  <2>9. \A z \in Objects : target' # z
    BY <2>3
  <2> QED
    BY <2>3, <2>4, <2>5, <2>6, <2>8, <2>9, <1>e
<1>8. ASSUME NEW p \in Procs, NEW o \in Objects, ReportIncident(p, o, Reports[o])
      PROVE  EscalationInv'
  BY <1>1, <1>8 DEF ReportIncident, scanVars
<1>9. ASSUME NEW p \in Procs, ReportFound(p) PROVE EscalationInv'
  BY <1>1, <1>9 DEF ReportFound, Discard, scanVars
<1>10. CASE UNCHANGED <<scanVars, escalatedAt>> /\ clock' \in {clock, clock + 1}
  BY <1>1, <1>10 DEF scanVars
<1> HIDE DEF EscalationInv, TypeInv, TypeOK, VarsTyped, ScanTyped, Due, Posted
<1>11. ASSUME NEW p \in Procs, NEW i \in IncidentIds,
              StartDispatch(p, i) \/ RespondIncident(p, i) \/ ResolveIncident(p, i)
                \/ \E d \in Actors : ReviewIncident(p, i, d)
       PROVE  EscalationInv'
  BY <1>10, <1>11 DEF ReviewIncident, StartDispatch, RespondIncident, ResolveIncident,
     Lookup, stampVars
<1>12. ASSUME NEW p \in Procs, Proceed(p) PROVE EscalationInv'
  <2>1. CASE ReportFound(p)
    BY <1>9, <2>1
  <2>2. CASE ~ReportFound(p)
    BY <1>10, <1>12, <2>2 DEF Proceed, ReportVanished, SaveIncident, StatusAccepted,
       StatusRefused, ReviewStatus, ReviewReviewer, DispatchStatus, RespondStatus,
       ResolveStatus, stampVars
  <2> QED
    BY <2>1, <2>2
<1>13. CASE Tick \/ UNCHANGED vars
  BY <1>10, <1>13 DEF Tick, stampVars, scanVars, vars
<1> QED
  BY <1>2, <1>3, <1>4, <1>5, <1>6, <1>7, <1>8, <1>11, <1>12, <1>13 DEF Next, Scan, Clients

\* The worker escalates only high-risk incidents, and none unless a high-risk incident
\* reported under its ID was past the response timeout, however often IDs are reported
\* again and for any timeout (internal/worker/escalation.go:61-80,
\* internal/domain/incident.go:148-171).
THEOREM NoEarlyEscalation == Spec => []EscalatedWasDue
<1>1. Init => EscalationInv
  BY IncidentAssumption DEF Init, EscalationInv
<1>2. TypeInv /\ EscalationInv /\ [Next]_vars => EscalationInv'
  BY EscalationNext
<1>3. EscalationInv => EscalatedWasDue
  BY DEF EscalationInv, EscalatedWasDue, Due
<1> QED
  BY <1>1, <1>2, <1>3, TypeAlways, PTL DEF Spec

-----------------------------------------------------------------------------
(* Idempotency keys.                                                       *)

SameKey(a, b) == key[a] # None /\ key[a] = key[b]
Pair(a, b) == {a, b}

\* Two incidents with one key that are stored, or that a report is about to store, or
\* that are being reported, overlapped: whoever found the key unknown did so before
\* the other was stored.
OverlapInv ==
  /\ \A i, j \in IncidentIds :
       incidents[i] # None /\ incidents[j] # None /\ incidents[i] # incidents[j]
         /\ SameKey(incidents[i], incidents[j])
           => Pair(incidents[i], incidents[j]) \in overlapping
  /\ \A i \in IncidentIds, p \in Procs :
       incidents[i] # None /\ pc[p] = "saving" /\ SameKey(incidents[i], obj[p])
         => Pair(incidents[i], obj[p]) \in overlapping
  /\ \A p1, p2 \in Procs :
       p1 # p2 /\ Reporting(p1) /\ Reporting(p2) /\ SameKey(obj[p1], obj[p2])
         => Pair(obj[p1], obj[p2]) \in overlapping

LEMMA OverlapNext == TypeInv /\ OverlapInv /\ [Next]_vars => OverlapInv'
<1> SUFFICES ASSUME TypeInv, OverlapInv, [Next]_vars PROVE OverlapInv'
  OBVIOUS
<1>0. \A a, b : Pair(a, b) = Pair(b, a)
  BY DEF Pair
<1> USE IncidentAssumption DEF OverlapInv, SameKey, Reporting, TypeInv, TypeOK, VarsTyped,
        CallTyped, Fresh
<1>1. ASSUME NEW p \in Procs, NEW o \in Objects, ReportIncident(p, o, Reports[o])
      PROVE  OverlapInv'
  <2> DEFINE k == Reports[o].key
  <2>1. /\ obj' = [obj EXCEPT ![p] = o] /\ key' = [key EXCEPT ![o] = k]
        /\ incidents' = incidents /\ overlapping \subseteq overlapping'
        /\ pc' = [pc EXCEPT ![p] = IF IncidentExistsByKey(k) THEN "finding" ELSE "saving"]
    BY <1>1 DEF ReportIncident
  <2>2. pc[p] = "idle" /\ id[o] = None
    BY <1>1 DEF ReportIncident
  <2>3. /\ \A i \in IncidentIds : incidents[i] # o
        /\ \A q \in Procs : pc[q] # "idle" => obj[q] # o
    BY <2>2
  <2>4. ASSUME NEW q \in Procs, Reporting(q), k # None, key[obj[q]] = k
        PROVE  Pair(o, obj[q]) \in overlapping'
    BY <1>1, <2>4 DEF ReportIncident, Overlaps, Pair
  <2>5. ASSUME NEW i \in IncidentIds, incidents[i] # None, pc'[p] = "saving"
        PROVE  ~(key[incidents[i]] # None /\ key[incidents[i]] = k)
    BY <2>1, <2>5 DEF IncidentExistsByKey, Stored
  <2> HIDE DEF k
  <2>6. \A i, j \in IncidentIds :
          incidents'[i] # None /\ incidents'[j] # None /\ incidents'[i] # incidents'[j]
            /\ SameKey(incidents[i], incidents[j])'
              => Pair(incidents'[i], incidents'[j]) \in overlapping'
    BY <2>1, <2>3
  <2>7. \A i \in IncidentIds, q \in Procs :
          incidents'[i] # None /\ pc'[q] = "saving" /\ SameKey(incidents[i], obj[q])'
            => Pair(incidents'[i], obj'[q]) \in overlapping'
    BY <2>1, <2>3, <2>5
  <2>8. \A p1, p2 \in Procs :
          p1 # p2 /\ Reporting(p1)' /\ Reporting(p2)' /\ SameKey(obj[p1], obj[p2])'
            => Pair(obj'[p1], obj'[p2]) \in overlapping'
    BY <2>1, <2>3, <2>4, <1>0
  <2> QED
    BY <2>6, <2>7, <2>8
<1>2. ASSUME NEW p \in Procs, ReportFound(p) PROVE OverlapInv'
  <2> DEFINE o == obj[p]
  <2>1. /\ obj' = [obj EXCEPT ![p] = None] /\ key' = [key EXCEPT ![o] = None]
        /\ incidents' = incidents /\ pc' = [pc EXCEPT ![p] = "idle"]
        /\ o \in Objects
    BY <1>2 DEF ReportFound, Discard, Return
  <2>2. /\ \A i \in IncidentIds : incidents[i] # o
        /\ \A q \in Procs \ {p} : pc[q] # "idle" => obj[q] # o
    BY <1>2 DEF ReportFound
  <2>3. \A a, b : Pair(a, b) \in overlapping /\ a # o /\ b # o => Pair(a, b) \in overlapping'
    BY <1>2 DEF ReportFound, Discard, Pair
  <2> HIDE DEF o
  <2>7. /\ pc'[p] = "idle" /\ \A x \in Objects \ {o} : key'[x] = key[x]
        /\ \A q \in Procs \ {p} : pc'[q] = pc[q] /\ obj'[q] = obj[q]
    BY <2>1
  <2>8. \A q \in Procs : pc[q] # "idle" => obj[q] \in Objects
    OBVIOUS
  <2>9. \A i \in IncidentIds : incidents[i] # None => incidents[i] \in Objects
    OBVIOUS
  <2> HIDE DEF TypeInv, TypeOK, VarsTyped, CallTyped, Fresh
  <2>4. \A i, j \in IncidentIds :
          incidents'[i] # None /\ incidents'[j] # None /\ incidents'[i] # incidents'[j]
            /\ SameKey(incidents[i], incidents[j])'
              => Pair(incidents'[i], incidents'[j]) \in overlapping'
    BY <2>1, <2>2, <2>3, <2>7, <2>9
  <2>5. \A i \in IncidentIds, q \in Procs :
          incidents'[i] # None /\ pc'[q] = "saving" /\ SameKey(incidents[i], obj[q])'
            => Pair(incidents'[i], obj'[q]) \in overlapping'
    BY <2>1, <2>2, <2>3, <2>7, <2>8, <2>9
  <2>6. \A p1, p2 \in Procs :
          p1 # p2 /\ Reporting(p1)' /\ Reporting(p2)' /\ SameKey(obj[p1], obj[p2])'
            => Pair(obj'[p1], obj'[p2]) \in overlapping'
    BY <2>1, <2>2, <2>3, <2>7, <2>8
  <2> QED
    BY <2>4, <2>5, <2>6
<1>3. ASSUME NEW p \in Procs, ReportVanished(p) PROVE OverlapInv'
  BY <1>3 DEF ReportVanished, IncidentExistsByKey, Stored, reportVars
<1>4. ASSUME NEW p \in Procs, SaveIncident(p) PROVE OverlapInv'
  <2>1. /\ incidents' = [incidents EXCEPT ![id[obj[p]]] = obj[p]]
        /\ pc' = [pc EXCEPT ![p] = "idle"] /\ obj' = [obj EXCEPT ![p] = None]
        /\ UNCHANGED <<key, overlapping>>
    BY <1>4 DEF SaveIncident, Return, reportVars
  <2>2. pc[p] = "saving"
    BY <1>4 DEF SaveIncident
  <2>3. \A i \in IncidentIds : incidents'[i] \in {incidents[i], obj[p]}
    BY <2>1
  <2>4. pc'[p] = "idle" /\ \A q \in Procs \ {p} : pc'[q] = pc[q] /\ obj'[q] = obj[q]
    BY <2>1
  <2> HIDE DEF TypeInv, TypeOK, VarsTyped, CallTyped, Fresh
  <2> QED
    BY <2>1, <2>2, <2>3, <2>4, <1>0
<1>5. ASSUME NEW p \in Procs, NEW i \in IncidentIds,
             StartDispatch(p, i) \/ RespondIncident(p, i) \/ ResolveIncident(p, i)
               \/ \E d \in Actors : ReviewIncident(p, i, d)
      PROVE  OverlapInv'
  <2>1. \E op \in {"toReview", "toDispatch", "toRespond", "toResolve"}, x \in Objects \cup {None} :
          /\ pc' = [pc EXCEPT ![p] = op] /\ obj' = [obj EXCEPT ![p] = x]
          /\ UNCHANGED <<incidents, key, overlapping>>
    BY <1>5 DEF ReviewIncident, StartDispatch, RespondIncident, ResolveIncident, Lookup,
                reportVars
  <2> QED
    BY <2>1
<1>6. ASSUME NEW p \in Procs,
             \/ StatusAccepted(p) \/ StatusRefused(p) \/ ReviewStatus(p) \/ ReviewReviewer(p)
             \/ DispatchStatus(p) \/ RespondStatus(p) \/ ResolveStatus(p)
      PROVE  OverlapInv'
  <2>1. \E op \in {"idle", "review", "reviewer", "dispatch", "respond", "resolve"}, x \in Objects \cup {None} :
          /\ pc' = [pc EXCEPT ![p] = op] /\ obj' = [obj EXCEPT ![p] = x]
          /\ UNCHANGED <<incidents, key, overlapping>>
    BY <1>6 DEF StatusAccepted, StatusRefused, Unchecked, Expected, Checked, ReviewStatus,
       ReviewReviewer, DispatchStatus, RespondStatus, ResolveStatus, Return, reportVars
  <2> QED
    BY <2>1
<1>7. CASE UNCHANGED <<callVars, incidents, key, overlapping>>
  BY <1>7 DEF callVars
<1> HIDE DEF OverlapInv, SameKey, Reporting, TypeInv, TypeOK, VarsTyped, CallTyped, Fresh
<1> QED
  BY <1>1, <1>2, <1>3, <1>4, <1>5, <1>6, <1>7
  DEF Next, Clients, Proceed, Scan, ScanBegin, ScanSkip, ScanChoose, EscalateIncident,
      EscalateBegin, EscalateFail, EscalateStatus, ScanEnd, Tick, callVars, reportVars, vars

\* Two stored incidents share a key only if their reports overlapped: one reported when
\* another with its key is stored never joins it, whatever IDs are used again and however
\* many goroutines report (internal/service/dispatch.go:103-124).
THEOREM DuplicatesOverlap == Spec => []DuplicatesOverlapped
<1>1. Init => OverlapInv
  BY DEF Init, OverlapInv, Reporting
<1>2. TypeInv /\ OverlapInv /\ [Next]_vars => OverlapInv'
  BY OverlapNext
<1>3. OverlapInv => DuplicatesOverlapped
  BY DEF OverlapInv, SameKey, Pair, DuplicatesOverlapped, Stored
<1> QED
  BY <1>1, <1>2, <1>3, TypeAlways, PTL DEF Spec
=============================================================================
