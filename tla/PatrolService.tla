---------------------------- MODULE PatrolService ----------------------------
(***************************************************************************)
(* Patrol tasks and the actors they are assigned between: that part of the *)
(* DispatchService (internal/service/dispatch.go), the PatrolTask          *)
(* aggregate (internal/domain/patrol.go), and the actor and task maps of   *)
(* internal/store/store.go.                                                *)
(*                                                                         *)
(* No lock spans an operation: it looks up the *PatrolTask, checks its     *)
(* status and writes it later, next to the other calls (Procs).            *)
(***************************************************************************)
EXTENDS Integers, FiniteSets

CONSTANTS
  Procs,                 \* goroutines serving API calls
  TaskIds,               \* IDs newID will hand out
  Officers, DispatcherIds, GridIds,   \* IDs clients register and post
  MaxPoints,             \* bound on the length of a trajectory
  None

ASSUME PatrolAssumption ==
  /\ MaxPoints \in Nat
  /\ None \notin TaskIds \cup Officers \cup DispatcherIds \cup GridIds

VARIABLES
  grids, dispatchers,    \* store.grids, store.dispatchers: the registered IDs
  officers,              \* store.officers: officer -> grid
  served,                \* history: the grids an officer has been registered to
  pc, arg, by, form, seen,   \* a call's control point, task, confirming dispatcher,
                         \* task to be saved, and the trajectory length it loaded
  task,                  \* GridID, OfficerID and DispatcherID of a stored task
  status, signedInAt, confirmedBy, points, completedAt   \* its fields that change
                         \* (SignedInAt and CompletedAt: set or not)

registry == <<grids, dispatchers, officers, served>>
callVars == <<pc, arg, by, form, seen>>
stampVars == <<signedInAt, confirmedBy, points, completedAt>>
vars == <<grids, dispatchers, officers, served, pc, arg, by, form, seen,
          task, status, signedInAt, confirmedBy, points, completedAt>>

Statuses == {"none", "assigned", "signed_in", "patrolling", "completed"}
ControlPoints == {"idle", "assign", "signIn", "signInAt", "confirm", "confirmAt",
                  "start", "append", "appending", "appended", "patrol", "complete"}
Assignments == [grid : GridIds, officer : Officers, dispatcher : DispatcherIds]

Init ==
  /\ grids = {} /\ dispatchers = {}
  /\ officers = [o \in Officers |-> None]
  /\ served = [o \in Officers |-> {}]
  /\ pc = [p \in Procs |-> "idle"]
  /\ arg = [p \in Procs |-> None]
  /\ by = [p \in Procs |-> None]
  /\ form = [p \in Procs |-> None]
  /\ seen = [p \in Procs |-> 0]
  /\ task = [t \in TaskIds |-> None]
  /\ status = [t \in TaskIds |-> "none"]
  /\ signedInAt = [t \in TaskIds |-> FALSE]
  /\ confirmedBy = [t \in TaskIds |-> None]
  /\ points = [t \in TaskIds |-> 0]
  /\ completedAt = [t \in TaskIds |-> FALSE]

-----------------------------------------------------------------------------
(* Actors.  Nothing is ever unregistered; an officer may move.             *)

RegisterGrid(g) ==
  /\ grids' = grids \cup {g}
  /\ UNCHANGED <<dispatchers, officers, served, callVars, task, status, stampVars>>

RegisterDispatcher(d) ==
  /\ dispatchers' = dispatchers \cup {d}
  /\ UNCHANGED <<grids, officers, served, callVars, task, status, stampVars>>

RegisterOfficer(o, g) ==
  /\ g \in grids
  /\ officers' = [officers EXCEPT ![o] = g]
  /\ served' = [served EXCEPT ![o] = @ \cup {g}]
  /\ UNCHANGED <<grids, dispatchers, callVars, task, status, stampVars>>

-----------------------------------------------------------------------------
(* AssignTask.                                                             *)

ResponsibleAnywhere(o, g) == officers[o] # None
Responsible(o, g) == officers[o] = g

\* The dispatcher is registered and the officer is responsible for the grid.
AssignTask(p, d, o, g) ==
  /\ pc[p] = "idle"
  /\ d \in dispatchers
  /\ officers[o] # None
  /\ Responsible(o, g)
  /\ pc' = [pc EXCEPT ![p] = "assign"]
  /\ form' = [form EXCEPT ![p] = [grid |-> g, officer |-> o, dispatcher |-> d]]
  /\ UNCHANGED <<registry, arg, by, seen, task, status, stampVars>>

Return(p) ==
  /\ pc' = [pc EXCEPT ![p] = "idle"]
  /\ arg' = [arg EXCEPT ![p] = None]
  /\ by' = [by EXCEPT ![p] = None]
  /\ form' = [form EXCEPT ![p] = None]
  /\ seen' = [seen EXCEPT ![p] = 0]

\* SaveTask, under a fresh ID.
SaveTask(p, t) ==
  /\ pc[p] = "assign"
  /\ status[t] = "none"
  /\ task' = [task EXCEPT ![t] = form[p]]
  /\ status' = [status EXCEPT ![t] = "assigned"]
  /\ Return(p)
  /\ UNCHANGED <<registry, stampVars>>

-----------------------------------------------------------------------------
(* The operations on a task: check, then write.                            *)

\* GetTask finds the task and its status is one of `from'.
Begin(p, t, from, op, d) ==
  /\ pc[p] = "idle"
  /\ status[t] \in from
  /\ pc' = [pc EXCEPT ![p] = op]
  /\ arg' = [arg EXCEPT ![p] = t]
  /\ by' = [by EXCEPT ![p] = d]
  /\ UNCHANGED <<registry, form, seen, task, status, stampVars>>

SignIn(p, t, o, g) ==
  /\ Begin(p, t, {"assigned"}, "signIn", None)
  /\ task[t].officer = o
  /\ task[t].grid = g

ConfirmMissedSignIn(p, t, d) ==
  /\ Begin(p, t, {"assigned"}, "confirm", d)
  /\ task[t].dispatcher = d

StartRepeated(p, t) == Begin(p, t, {"signed_in", "patrolling", "completed"}, "start", None)
StartPatrol(p, t) == Begin(p, t, {"signed_in"}, "start", None)

AddEarlyTrajectory(p, t) ==
  Begin(p, t, {"assigned", "patrolling", "signed_in"}, "append", None)
AddTrajectory(p, t) == Begin(p, t, {"patrolling", "signed_in"}, "append", None)

CompleteUnknownTask(p, t) ==
  Begin(p, t, {"none", "patrolling", "signed_in"}, "complete", None)
CompleteTask(p, t) == Begin(p, t, {"patrolling", "signed_in"}, "complete", None)

Go(p, next) == pc' = [pc EXCEPT ![p] = next]
SetStatus(p, s) == status' = [status EXCEPT ![arg[p]] = s]

\* The status comes first, the time of the sign-in second.
SignInStatus(p) ==
  /\ pc[p] \in {"signIn", "confirm"}
  /\ SetStatus(p, "signed_in")
  /\ Go(p, IF pc[p] = "signIn" THEN "signInAt" ELSE "confirmAt")
  /\ UNCHANGED <<registry, arg, by, form, seen, task, stampVars>>

\* A confirmation also says that the sign-in was missed, and who confirmed it.
SignInStamp(p) ==
  /\ pc[p] \in {"signInAt", "confirmAt"}
  /\ signedInAt' = [signedInAt EXCEPT ![arg[p]] = TRUE]
  /\ confirmedBy' = IF pc[p] = "confirmAt"
       THEN [confirmedBy EXCEPT ![arg[p]] = by[p]] ELSE confirmedBy
  /\ Return(p)
  /\ UNCHANGED <<registry, task, status, points, completedAt>>

\* StartPatrol, and the end of an AddTrajectory that found the task signed in.
PatrolStatus(p) ==
  /\ pc[p] \in {"start", "patrol"}
  /\ SetStatus(p, "patrolling")
  /\ Return(p)
  /\ UNCHANGED <<registry, task, stampVars>>

\* t.Trajectory = append(t.Trajectory, point): the slice is read, then written.
AppendLoad(p) ==
  /\ pc[p] = "append"
  /\ points[arg[p]] < MaxPoints
  /\ seen' = [seen EXCEPT ![p] = points[arg[p]]]
  /\ Go(p, "appending")
  /\ UNCHANGED <<registry, arg, by, form, task, status, stampVars>>

AppendStore(p) ==
  /\ pc[p] = "appending"
  /\ points' = [points EXCEPT ![arg[p]] = seen[p] + 1]
  /\ Go(p, "appended")
  /\ UNCHANGED <<registry, arg, by, form, seen, task, status, signedInAt, confirmedBy,
                 completedAt>>

\* The first point starts the patrol: the status is read once more.
AppendStarts(p) ==
  /\ pc[p] = "appended"
  /\ status[arg[p]] = "signed_in"
  /\ Go(p, "patrol")
  /\ UNCHANGED <<registry, arg, by, form, seen, task, status, stampVars>>

AppendEnds(p) ==
  /\ pc[p] = "appended"
  /\ status[arg[p]] # "signed_in"
  /\ Return(p)
  /\ UNCHANGED <<registry, task, status, stampVars>>

CompleteStatus(p) ==
  /\ pc[p] = "complete"
  /\ SetStatus(p, "completed")
  /\ completedAt' = [completedAt EXCEPT ![arg[p]] = TRUE]
  /\ Return(p)
  /\ UNCHANGED <<registry, task, signedInAt, confirmedBy, points>>

-----------------------------------------------------------------------------
(* The service.                                                            *)

Proceed(p) ==
  \/ \E t \in TaskIds : SaveTask(p, t)
  \/ SignInStatus(p) \/ SignInStamp(p) \/ PatrolStatus(p)
  \/ AppendLoad(p) \/ AppendStore(p) \/ AppendStarts(p) \/ AppendEnds(p)
  \/ CompleteStatus(p)

Clients ==
  \/ \E g \in GridIds : RegisterGrid(g)
  \/ \E d \in DispatcherIds : RegisterDispatcher(d)
  \/ \E o \in Officers, g \in GridIds : RegisterOfficer(o, g)
  \/ \E p \in Procs, d \in DispatcherIds, o \in Officers, g \in GridIds :
       AssignTask(p, d, o, g)
  \/ \E p \in Procs, t \in TaskIds :
       \/ \E o \in Officers, g \in GridIds : SignIn(p, t, o, g)
       \/ \E d \in DispatcherIds : ConfirmMissedSignIn(p, t, d)
       \/ StartPatrol(p, t) \/ AddTrajectory(p, t) \/ CompleteTask(p, t)

Next == Clients \/ \E p \in Procs : Proceed(p)

Spec == Init /\ [][Next]_vars

-----------------------------------------------------------------------------
(* Properties.                                                             *)

VarsTyped ==
  /\ grids \subseteq GridIds /\ dispatchers \subseteq DispatcherIds
  /\ officers \in [Officers -> GridIds \cup {None}]
  /\ served \in [Officers -> SUBSET GridIds]
  /\ pc \in [Procs -> ControlPoints]
  /\ arg \in [Procs -> TaskIds \cup {None}]
  /\ by \in [Procs -> DispatcherIds \cup {None}]
  /\ form \in [Procs -> Assignments \cup {None}]
  /\ seen \in [Procs -> 0..MaxPoints]
  /\ task \in [TaskIds -> Assignments \cup {None}]
  /\ status \in [TaskIds -> Statuses]
  /\ signedInAt \in [TaskIds -> BOOLEAN]
  /\ confirmedBy \in [TaskIds -> DispatcherIds \cup {None}]
  /\ points \in [TaskIds -> 0..MaxPoints]
  /\ completedAt \in [TaskIds -> BOOLEAN]

CallTyped(p) ==
  /\ pc[p] = "assign" => form[p] \in Assignments
  /\ pc[p] \notin {"idle", "assign"} => arg[p] \in TaskIds /\ status[arg[p]] # "none"
  /\ pc[p] = "appending" => seen[p] < MaxPoints

\* Every variable keeps its type, a stored task is complete, and a call past its
\* check works on a stored task.
TypeOK ==
  /\ VarsTyped
  /\ \A t \in TaskIds : status[t] # "none" => task[t] \in Assignments
  /\ \A p \in Procs : CallTyped(p)

\* A call is about to stamp the sign-in whose status it has written.
BeingStamped(t) == \E p \in Procs : pc[p] \in {"signInAt", "confirmAt"} /\ arg[p] = t

\* Nobody patrols, records a point or completes before the sign-in: whatever
\* late writes do to the status, field work on a task implies that it was signed
\* in (the time of the sign-in may still be about to be written).
WorkWasSignedIn ==
  \A t \in TaskIds :
    status[t] \in {"signed_in", "patrolling", "completed"} \/ points[t] > 0 \/ completedAt[t]
      => signedInAt[t] \/ BeingStamped(t)

\* A task was given by a registered dispatcher to an officer for a grid the
\* officer has been responsible for, although the officer may move before the
\* task is saved; and a missed sign-in is confirmed by that dispatcher only.
AssignedWithinRegistry ==
  \A t \in TaskIds : status[t] # "none" =>
    /\ task[t].dispatcher \in dispatchers
    /\ task[t].grid \in served[task[t].officer] \cap grids
    /\ confirmedBy[t] \in {None, task[t].dispatcher}

Quiet(t) == \A p \in Procs : arg[p] # t

\* Once a task is completed and no call is at work on it any more, it stays
\* completed (domain/patrol.go:98, "Complete finalises the patrol task"): every
\* later call is refused.  A call that passed its check before the completion may
\* still write its own status after it.
CompletionHolds ==
  \A t \in TaskIds :
    [](status[t] = "completed" /\ Quiet(t) => [](status[t] = "completed"))
=============================================================================
