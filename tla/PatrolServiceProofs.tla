------------------------ MODULE PatrolServiceProofs ------------------------
(***************************************************************************)
(* Theorems about PatrolService, for any number of goroutines, tasks,      *)
(* officers, dispatchers and grids and trajectories of any length.         *)
(***************************************************************************)
EXTENDS PatrolService, TLAPS

-----------------------------------------------------------------------------
(* Type correctness.                                                       *)

TaskComplete(t) == status[t] # "none" => task[t] \in Assignments

LEMMA TypeInit == Init => TypeOK
BY PatrolAssumption DEF Init, TypeOK, VarsTyped, CallTyped, ControlPoints, Statuses

\* The check of an operation leaves a call that works on a stored task.
LEMMA BeginTyped ==
  ASSUME TypeOK, NEW p \in Procs, NEW t \in TaskIds,
         NEW from \in SUBSET (Statuses \ {"none"}),
         NEW op \in {"signIn", "confirm", "start", "append", "complete"},
         NEW d \in DispatcherIds \cup {None}, Begin(p, t, from, op, d)
  PROVE  TypeOK'
<1>1. VarsTyped'
  BY DEF TypeOK, VarsTyped, Begin, registry, stampVars, ControlPoints
<1>2. ASSUME NEW t2 \in TaskIds PROVE TaskComplete(t2)'
  BY DEF TypeOK, Begin, TaskComplete
<1>3. ASSUME NEW p2 \in Procs PROVE CallTyped(p2)'
  BY DEF TypeOK, VarsTyped, CallTyped, Begin, Statuses
<1> QED
  BY <1>1, <1>2, <1>3 DEF TypeOK, TaskComplete

\* TypeOK is inductive by itself.
LEMMA TypeNext == TypeOK /\ [Next]_vars => TypeOK'
<1> SUFFICES ASSUME TypeOK, [Next]_vars PROVE TypeOK'
  OBVIOUS
<1> USE PatrolAssumption DEF ControlPoints, Statuses
<1>1. ASSUME NEW g \in GridIds, RegisterGrid(g)
      PROVE  TypeOK'
  BY <1>1 DEF TypeOK, VarsTyped, CallTyped, RegisterGrid, callVars, stampVars
<1>2. ASSUME NEW d \in DispatcherIds, RegisterDispatcher(d)
      PROVE  TypeOK'
  BY <1>2 DEF TypeOK, VarsTyped, CallTyped, RegisterDispatcher, callVars, stampVars
<1>3. ASSUME NEW o \in Officers, NEW g \in GridIds, RegisterOfficer(o, g)
      PROVE  TypeOK'
  BY <1>3 DEF TypeOK, VarsTyped, CallTyped, RegisterOfficer, callVars, stampVars
<1>4. ASSUME NEW p \in Procs, NEW d \in DispatcherIds, NEW o \in Officers,
             NEW g \in GridIds, AssignTask(p, d, o, g)
      PROVE  TypeOK'
  BY <1>4 DEF TypeOK, VarsTyped, CallTyped, AssignTask, Assignments, registry, stampVars
<1>5. ASSUME NEW p \in Procs, NEW t \in TaskIds, NEW o \in Officers, NEW g \in GridIds,
             SignIn(p, t, o, g)
      PROVE  TypeOK'
  BY <1>5, BeginTyped DEF SignIn
<1>6. ASSUME NEW p \in Procs, NEW t \in TaskIds, NEW d \in DispatcherIds,
             ConfirmMissedSignIn(p, t, d)
      PROVE  TypeOK'
  BY <1>6, BeginTyped DEF ConfirmMissedSignIn
<1>7. ASSUME NEW p \in Procs, NEW t \in TaskIds,
             StartPatrol(p, t) \/ AddTrajectory(p, t) \/ CompleteTask(p, t)
      PROVE  TypeOK'
  BY <1>7, BeginTyped DEF StartPatrol, AddTrajectory, CompleteTask
<1>8. ASSUME NEW p \in Procs, NEW t \in TaskIds, SaveTask(p, t)
      PROVE  TypeOK'
  <2>1. VarsTyped'
    BY <1>8 DEF TypeOK, VarsTyped, CallTyped, SaveTask, Return, registry, stampVars
  <2>2. ASSUME NEW t2 \in TaskIds PROVE TaskComplete(t2)'
    BY <1>8 DEF TypeOK, VarsTyped, CallTyped, SaveTask, TaskComplete
  <2>3. ASSUME NEW p2 \in Procs PROVE CallTyped(p2)'
    BY <1>8 DEF TypeOK, VarsTyped, CallTyped, SaveTask, Return
  <2> QED
    BY <2>1, <2>2, <2>3 DEF TypeOK, TaskComplete
<1>9. ASSUME NEW p \in Procs, SignInStatus(p)
      PROVE  TypeOK'
  BY <1>9 DEF TypeOK, VarsTyped, CallTyped, SignInStatus, SetStatus, Go, registry, stampVars
<1>10. ASSUME NEW p \in Procs, SignInStamp(p)
       PROVE  TypeOK'
  BY <1>10 DEF TypeOK, VarsTyped, CallTyped, SignInStamp, Return, registry
<1>11. ASSUME NEW p \in Procs, PatrolStatus(p)
       PROVE  TypeOK'
  BY <1>11 DEF TypeOK, VarsTyped, CallTyped, PatrolStatus, SetStatus, Return, registry, stampVars
<1>12. ASSUME NEW p \in Procs, AppendLoad(p)
       PROVE  TypeOK'
  BY <1>12 DEF TypeOK, VarsTyped, CallTyped, AppendLoad, Go, registry, stampVars
<1>13. ASSUME NEW p \in Procs, AppendStore(p)
       PROVE  TypeOK'
  BY <1>13 DEF TypeOK, VarsTyped, CallTyped, AppendStore, Go, registry
<1>14. ASSUME NEW p \in Procs, AppendStarts(p)
       PROVE  TypeOK'
  BY <1>14 DEF TypeOK, VarsTyped, CallTyped, AppendStarts, Go, registry, stampVars
<1>15. ASSUME NEW p \in Procs, AppendEnds(p)
       PROVE  TypeOK'
  BY <1>15 DEF TypeOK, VarsTyped, CallTyped, AppendEnds, Return, registry, stampVars
<1>16. ASSUME NEW p \in Procs, CompleteStatus(p)
       PROVE  TypeOK'
  BY <1>16 DEF TypeOK, VarsTyped, CallTyped, CompleteStatus, SetStatus, Return, registry
<1>17. CASE UNCHANGED vars
  BY <1>17 DEF TypeOK, VarsTyped, CallTyped, vars
<1> QED
  BY <1>1, <1>2, <1>3, <1>4, <1>5, <1>6, <1>7, <1>8, <1>9, <1>10, <1>11, <1>12, <1>13,
     <1>14, <1>15, <1>16, <1>17 DEF Next, Clients, Proceed

\* In every reachable state all variables and call locals are of the right kind,
\* and the task a call works on exists (internal/service/dispatch.go).
THEOREM TypeCorrect == Spec => []TypeOK
<1> QED
  BY TypeInit, TypeNext, PTL DEF Spec

-----------------------------------------------------------------------------
(* No field work without a sign-in.                                        *)

Signed(t) == signedInAt[t] \/ BeingStamped(t)

FieldWork(t) ==
  status[t] \in {"signed_in", "patrolling", "completed"} \/ points[t] > 0 \/ completedAt[t]

AtWork == {"start", "append", "appending", "appended", "patrol", "complete"}

\* A call that is about to write field work down found the task signed in.
WorkInv ==
  /\ \A t \in TaskIds : FieldWork(t) => Signed(t)
  /\ \A p \in Procs, t \in TaskIds : pc[p] \in AtWork /\ arg[p] = t => Signed(t)

\* What is signed in, or about to be, stays so.
LEMMA SignedStays ==
  ASSUME TypeOK, [Next]_vars, NEW t \in TaskIds, Signed(t)
  PROVE  Signed(t)'
<1> USE DEF ControlPoints
<1>1. CASE signedInAt[t]
  <2>1. signedInAt' = signedInAt \/ \E p \in Procs : signedInAt' = [signedInAt EXCEPT ![arg[p]] = TRUE]
    BY DEF Next, Clients, Proceed, RegisterGrid, RegisterDispatcher, RegisterOfficer,
           AssignTask, SaveTask, Begin, SignIn, ConfirmMissedSignIn, StartPatrol,
           AddTrajectory, CompleteTask, SignInStatus, SignInStamp, PatrolStatus,
           AppendLoad, AppendStore, AppendStarts, AppendEnds, CompleteStatus,
           stampVars, vars
  <2> QED
    BY <1>1, <2>1 DEF Signed, TypeOK, VarsTyped
<1>2. ASSUME NEW p \in Procs, pc[p] \in {"signInAt", "confirmAt"}, arg[p] = t
      PROVE  Signed(t)'
  <2>1. CASE SignInStamp(p)
    BY <1>2, <2>1 DEF SignInStamp, Signed, TypeOK, VarsTyped
  <2>2. CASE ~SignInStamp(p)
    <3>1. pc'[p] = pc[p] /\ arg'[p] = arg[p]
      BY <1>2, <2>2 DEF Next, Clients, Proceed, RegisterGrid, RegisterDispatcher,
         RegisterOfficer, AssignTask, SaveTask, Begin, SignIn, ConfirmMissedSignIn,
         StartPatrol, AddTrajectory, CompleteTask, SignInStatus, PatrolStatus,
         AppendLoad, AppendStore, AppendStarts, AppendEnds, CompleteStatus, SetStatus,
         Go, Return, callVars, stampVars, vars, TypeOK, VarsTyped, SignInStamp
    <3> QED
      BY <1>2, <3>1 DEF Signed, BeingStamped
  <2> QED
    BY <2>1, <2>2
<1> QED
  BY <1>1, <1>2 DEF Signed, BeingStamped

LEMMA WorkInit == Init => WorkInv
BY DEF Init, WorkInv, FieldWork, AtWork

LEMMA WorkNext == TypeOK /\ WorkInv /\ [Next]_vars => WorkInv'
<1> SUFFICES ASSUME TypeOK, WorkInv, [Next]_vars PROVE WorkInv'
  OBVIOUS
<1> USE DEF ControlPoints, AtWork
<1>1. \A t \in TaskIds : Signed(t) => Signed(t)'
  BY SignedStays
<1>2. ASSUME NEW t \in TaskIds, FieldWork(t)', ~FieldWork(t) PROVE Signed(t)'
  <2>1. ASSUME NEW p \in Procs, SignInStatus(p) PROVE Signed(t)'
    <3>1. arg'[p] = t /\ pc'[p] \in {"signInAt", "confirmAt"}
      BY <1>2, <2>1 DEF SignInStatus, SetStatus, Go, stampVars, FieldWork, TypeOK, VarsTyped
    <3> QED
      BY <3>1 DEF Signed, BeingStamped
  <2>2. ASSUME NEW p \in Procs, PatrolStatus(p) \/ AppendStore(p) \/ CompleteStatus(p)
        PROVE  Signed(t)'
    <3>1. arg[p] = t /\ pc[p] \in AtWork
      BY <1>2, <2>2 DEF PatrolStatus, AppendStore, CompleteStatus, SetStatus, stampVars,
                        FieldWork, TypeOK, VarsTyped
    <3> QED
      BY <1>1, <3>1 DEF WorkInv
  <2>3. ASSUME NEW p \in Procs, NEW t2 \in TaskIds, SaveTask(p, t2) PROVE FALSE
    BY <1>2, <2>3 DEF SaveTask, FieldWork, stampVars, TypeOK, VarsTyped
  <2>4. CASE UNCHANGED <<status, points, completedAt>>
    BY <1>2, <2>4 DEF FieldWork
  <2> QED
    BY <2>1, <2>2, <2>3, <2>4 DEF Next, Clients, Proceed, RegisterGrid,
       RegisterDispatcher, RegisterOfficer, AssignTask, Begin, SignIn,
       ConfirmMissedSignIn, StartPatrol, AddTrajectory, CompleteTask, SignInStamp,
       AppendLoad, AppendStarts, AppendEnds, stampVars, vars
<1>3. ASSUME NEW p \in Procs, NEW t \in TaskIds, (pc[p] \in AtWork /\ arg[p] = t)'
      PROVE  Signed(t)'
  <2>1. CASE pc[p] \in AtWork /\ arg[p] = t
    BY <1>1, <2>1 DEF WorkInv
  <2>2. CASE status[t] \in {"signed_in", "patrolling"}
    BY <1>1, <2>2 DEF WorkInv, FieldWork
  <2> QED
    BY <1>3, <2>1, <2>2 DEF Next, Clients, Proceed, RegisterGrid, RegisterDispatcher,
       RegisterOfficer, AssignTask, SaveTask, Begin, SignIn, ConfirmMissedSignIn,
       StartPatrol, AddTrajectory, CompleteTask, SignInStatus, SignInStamp,
       PatrolStatus, AppendLoad, AppendStore, AppendStarts, AppendEnds,
       CompleteStatus, Go, Return, callVars, vars, TypeOK, VarsTyped
<1> QED
  BY <1>1, <1>2, <1>3 DEF WorkInv

\* Nobody patrols, records a point or completes before the sign-in, for any
\* number of calls at once (internal/domain/patrol.go:75-106).
THEOREM NoWorkBeforeSignIn == Spec => []WorkWasSignedIn
<1>1. WorkInv => WorkWasSignedIn
  BY DEF WorkInv, FieldWork, Signed, WorkWasSignedIn
<1> QED
  BY <1>1, TypeCorrect, WorkInit, WorkNext, PTL DEF Spec

-----------------------------------------------------------------------------
(* Assignments agree with the registry.                                    *)

WithinRegistry(a) ==
  a.dispatcher \in dispatchers /\ a.grid \in served[a.officer] \cap grids

\* What a call has checked stays true until the task is saved, because nobody is
\* ever unregistered; and it confirms in the name of the assigning dispatcher.
RegistryInv ==
  /\ \A o \in Officers : officers[o] # None => officers[o] \in served[o] \cap grids
  /\ \A p \in Procs : pc[p] = "assign" => WithinRegistry(form[p])
  /\ \A t \in TaskIds : status[t] # "none" => WithinRegistry(task[t])
  /\ \A t \in TaskIds : status[t] = "none" => confirmedBy[t] = None
  /\ \A t \in TaskIds : confirmedBy[t] \in {None, task[t].dispatcher}
  /\ \A p \in Procs : pc[p] \in {"confirm", "confirmAt"} => by[p] = task[arg[p]].dispatcher

LEMMA RegistryNext == TypeOK /\ RegistryInv /\ [Next]_vars => RegistryInv'
<1> SUFFICES ASSUME TypeOK, RegistryInv, [Next]_vars PROVE RegistryInv'
  OBVIOUS
<1> USE PatrolAssumption DEF RegistryInv, WithinRegistry, Assignments, TypeOK, VarsTyped,
        CallTyped, ControlPoints, Statuses
<1> DEFINE Unaffected ==
      /\ UNCHANGED <<registry, task, confirmedBy>>
      /\ \A t \in TaskIds : status[t] = "none" <=> status'[t] = "none"
      /\ \A p \in Procs :
           /\ pc'[p] = "assign" => pc[p] = "assign" /\ form'[p] = form[p]
           /\ pc'[p] \in {"confirm", "confirmAt"} =>
                pc[p] \in {"confirm", "confirmAt"} /\ by'[p] = by[p] /\ arg'[p] = arg[p]
<1>0. ASSUME Unaffected PROVE RegistryInv'
  BY <1>0 DEF registry
<1>1. ASSUME NEW g \in GridIds, RegisterGrid(g) PROVE RegistryInv'
  BY <1>1 DEF RegisterGrid, callVars, stampVars
<1>2. ASSUME NEW d \in DispatcherIds, RegisterDispatcher(d) PROVE RegistryInv'
  BY <1>2 DEF RegisterDispatcher, callVars, stampVars
<1>3. ASSUME NEW o \in Officers, NEW g \in GridIds, RegisterOfficer(o, g)
      PROVE  RegistryInv'
  BY <1>3 DEF RegisterOfficer, callVars, stampVars
<1>4. ASSUME NEW p \in Procs, NEW d \in DispatcherIds, NEW o \in Officers,
             NEW g \in GridIds, AssignTask(p, d, o, g)
      PROVE  RegistryInv'
  BY <1>4 DEF AssignTask, Responsible, registry, stampVars
<1>5. ASSUME NEW p \in Procs, NEW t \in TaskIds, SaveTask(p, t) PROVE RegistryInv'
  BY <1>5 DEF SaveTask, Return, registry, stampVars
<1>6. ASSUME NEW p \in Procs, NEW t \in TaskIds, NEW o \in Officers, NEW g \in GridIds,
             SignIn(p, t, o, g)
      PROVE  RegistryInv'
  BY <1>6 DEF SignIn, Begin, registry, stampVars
<1>7. ASSUME NEW p \in Procs, NEW t \in TaskIds, NEW d \in DispatcherIds,
             ConfirmMissedSignIn(p, t, d)
      PROVE  RegistryInv'
  BY <1>7 DEF ConfirmMissedSignIn, Begin, registry, stampVars
<1>8. ASSUME NEW p \in Procs, NEW t \in TaskIds,
             StartPatrol(p, t) \/ AddTrajectory(p, t) \/ CompleteTask(p, t)
      PROVE  RegistryInv'
  <2>1. UNCHANGED <<registry, task, status, confirmedBy, form>>
    BY <1>8 DEF StartPatrol, AddTrajectory, CompleteTask, Begin, stampVars
  <2>2. \A q \in Procs :
          \/ pc'[q] = pc[q] /\ arg'[q] = arg[q] /\ by'[q] = by[q]
          \/ pc'[q] \in {"start", "append", "complete"}
    BY <1>8 DEF StartPatrol, AddTrajectory, CompleteTask, Begin
  <2>3. Unaffected
    BY <2>1, <2>2
  <2> QED
    BY <1>0, <2>3
<1>9. ASSUME NEW p \in Procs, SignInStatus(p) PROVE RegistryInv'
  <2>1. UNCHANGED <<registry, task, confirmedBy, by, form, arg>>
    BY <1>9 DEF SignInStatus, stampVars
  <2>2. \A t \in TaskIds : status[t] = "none" <=> status'[t] = "none"
    BY <1>9 DEF SignInStatus, SetStatus
  <2>3. \A q \in Procs :
          /\ pc'[q] = "assign" => pc[q] = "assign"
          /\ pc'[q] \in {"confirm", "confirmAt"} => pc[q] \in {"confirm", "confirmAt"}
    BY <1>9 DEF SignInStatus, Go
  <2>4. Unaffected
    BY <2>1, <2>2, <2>3
  <2> QED
    BY <1>0, <2>4
<1>10. ASSUME NEW p \in Procs, SignInStamp(p) PROVE RegistryInv'
  BY <1>10 DEF SignInStamp, Return, registry
<1>11. ASSUME NEW p \in Procs, PatrolStatus(p) \/ CompleteStatus(p) PROVE RegistryInv'
  <2>1. /\ UNCHANGED <<registry, task, confirmedBy>> /\ Return(p)
        /\ \A t \in TaskIds : status[t] = "none" <=> status'[t] = "none"
    BY <1>11 DEF PatrolStatus, CompleteStatus, SetStatus, stampVars
  <2> QED
    BY <2>1 DEF Return, registry
<1>12. ASSUME NEW p \in Procs,
              AppendLoad(p) \/ AppendStore(p) \/ AppendStarts(p) \/ AppendEnds(p)
       PROVE  RegistryInv'
  <2>1. UNCHANGED <<registry, task, status, confirmedBy>>
    BY <1>12 DEF AppendLoad, AppendStore, AppendStarts, AppendEnds, stampVars
  <2>2. \A q \in Procs :
          /\ pc'[q] = "assign" => pc[q] = "assign" /\ form'[q] = form[q]
          /\ pc'[q] \in {"confirm", "confirmAt"} =>
               pc[q] \in {"confirm", "confirmAt"} /\ by'[q] = by[q] /\ arg'[q] = arg[q]
    BY <1>12 DEF AppendLoad, AppendStore, AppendStarts, AppendEnds, Go, Return
  <2>3. Unaffected
    BY <2>1, <2>2
  <2> QED
    BY <1>0, <2>3
<1>13. CASE UNCHANGED vars
  BY <1>13 DEF vars
<1> QED
  BY <1>1, <1>2, <1>3, <1>4, <1>5, <1>6, <1>7, <1>8, <1>9, <1>10, <1>11, <1>12, <1>13
  DEF Next, Clients, Proceed

\* A stored task was given by a registered dispatcher for a grid its officer has
\* been responsible for, and only that dispatcher confirms a missed sign-in
\* (internal/service/dispatch.go:25-46, internal/domain/patrol.go:60-72).
THEOREM AssignmentsWithinRegistry == Spec => []AssignedWithinRegistry
<1>1. Init => RegistryInv
  BY DEF Init, RegistryInv
<1>2. RegistryInv => AssignedWithinRegistry
  BY DEF RegistryInv, WithinRegistry, AssignedWithinRegistry
<1> QED
  BY <1>1, <1>2, TypeCorrect, RegistryNext, PTL DEF Spec

-----------------------------------------------------------------------------
(* A completion without interference is final.                             *)

LEMMA CompletedStays ==
  ASSUME NEW t \in TaskIds, TypeOK, status[t] = "completed" /\ Quiet(t), [Next]_vars
  PROVE  (status[t] = "completed" /\ Quiet(t))'
<1> USE DEF Quiet, TypeOK, VarsTyped
<1>1. status'[t] = "completed"
  BY DEF Next, Clients, Proceed, RegisterGrid, RegisterDispatcher, RegisterOfficer,
     AssignTask, SaveTask, Begin, SignIn, ConfirmMissedSignIn, StartPatrol,
     AddTrajectory, CompleteTask, SignInStatus, SignInStamp, PatrolStatus, AppendLoad,
     AppendStore, AppendStarts, AppendEnds, CompleteStatus, SetStatus, vars
<1>2. ASSUME NEW p \in Procs PROVE arg'[p] # t
  BY PatrolAssumption DEF Next, Clients, Proceed, RegisterGrid, RegisterDispatcher,
     RegisterOfficer, AssignTask, SaveTask, Begin, SignIn, ConfirmMissedSignIn,
     StartPatrol, AddTrajectory, CompleteTask, SignInStatus, SignInStamp, PatrolStatus,
     AppendLoad, AppendStore, AppendStarts, AppendEnds, CompleteStatus, Return,
     callVars, vars
<1> QED
  BY <1>1, <1>2

\* A completed task with no call at work on it stays completed for ever
\* (internal/domain/patrol.go:98).
THEOREM CompletionIsKept == Spec => CompletionHolds
<1> SUFFICES ASSUME NEW t \in TaskIds
    PROVE  Spec => [](status[t] = "completed" /\ Quiet(t) => [](status[t] = "completed"))
  BY DEF CompletionHolds
<1>1. TypeOK /\ (status[t] = "completed" /\ Quiet(t)) /\ [Next]_vars
        => (status[t] = "completed" /\ Quiet(t))'
  BY CompletedStays
<1> QED
  BY <1>1, TypeCorrect, PTL DEF Spec
=============================================================================
