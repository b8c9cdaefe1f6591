--------------------------- MODULE StorageTargets ---------------------------
(* The rows of the storage targets: StorageTargetService with its health    *)
(* monitor and the Google Drive authorisation, and their repositories.      *)
(*                                                                          *)
(* Requests and the monitor save whole rows they read before, so that each  *)
(* undoes what the other stored in between.  The configuration of a target  *)
(* is its secret, which the backend accepts or does not; what it accepts    *)
(* changes with the world outside (`working`).                              *)
EXTENDS Requests, FiniteSets

CONSTANTS
    TargetIds,    \* ids of rows, handed out in increasing order
    TargetAsks,   \* what requests ask for: [name, type, enabled, secret]
    Secrets,      \* configurations; None in a request is a masked one
    Sessions,     \* ids of authorisation sessions
    SessionTTL,   \* 10 minutes
    MaxChanges    \* bound: changes of the world outside

ASSUME TargetsAssumption ==
    TargetIds \subseteq Nat /\ None \notin Nat /\ SessionTTL \in Nat /\ MaxChanges \in Nat

VARIABLES
    targets,   \* [TargetIds -> row or None]
    lastTarget,\* the last id handed out
    sessions,  \* [Sessions -> row or None]
    monitor,   \* the rows the monitor has still to test, and the one it tested
    notified,  \* the targets whose failure it announced
    alerts,    \* history: what was announced last of each target
    working,   \* environment: the configurations the backends accept
    changes    \* changes of the world outside so far

targetRows == <<targets, lastTarget, sessions>>
monitorVars == <<monitor, notified, alerts>>
outside == <<working, changes>>
storageVars == <<requestsVars, targetRows, monitorVars, outside>>

TargetExists(t) == targets[t] # None
TargetNameFree(name, t) ==
    \A u \in TargetIds \ {t} : TargetExists(u) => targets[u].name # name
Drive == "google_drive"

(* MergeMaskedConfig: a masked or empty secret stands for the stored one.   *)
Merged(secret, stored) == IF secret = None THEN stored ELSE secret

(* buildStorageTarget: a new row of what was asked, with the test results   *)
(* of the row it replaces.                                                  *)
Built(old, ask) ==
    [name |-> ask.name, type |-> ask.type, enabled |-> ask.enabled,
     secret |-> IF old = None THEN ask.secret ELSE Merged(ask.secret, old.secret),
     tested |-> IF old = None THEN "unknown" ELSE old.tested]

Outcome(row) == IF row.secret \in working THEN "success" ELSE "failed"
InsertOf(row) == [op |-> "insertTarget", row |-> row]
SaveOf(t, row) == [op |-> "saveTarget", target |-> t, row |-> row]

-----------------------------------------------------------------------------
(* Requests.                                                                *)

(* The monitor between two ticks.                                           *)
Waiting == [left |-> {}, tested |-> None, outcome |-> None]

StorageInit ==
    /\ targets = [t \in TargetIds |-> None] /\ lastTarget = 0
    /\ sessions = [s \in Sessions |-> None]
    /\ monitor = Waiting
    /\ notified = {}
    /\ alerts = [t \in TargetIds |-> "none"]
    /\ working \in SUBSET Secrets /\ changes = 0

(* Create, up to the insertion: FindByName, and a configuration that is     *)
(* complete.                                                                *)
CanCreate(ask) == ask.secret # None /\ TargetNameFree(ask.name, None)

CreateTarget(c, ask) ==
    /\ CanCreate(ask)
    /\ Begin(c, InsertOf(Built(None, ask)))
    /\ UNCHANGED <<targetRows, monitorVars, outside>>

InsertTarget(c) ==
    /\ req[c].op = "insertTarget"
    /\ IF TargetNameFree(req[c].row.name, None)
       THEN /\ lastTarget + 1 \in TargetIds
            /\ lastTarget' = lastTarget + 1
            /\ targets' = [targets EXCEPT ![lastTarget'] = req[c].row]
       ELSE UNCHANGED <<targets, lastTarget>>
    /\ Done(c)
    /\ UNCHANGED <<sessions, monitorVars, outside>>

(* Update, up to the save: the type stays and the name is free.             *)
CanUpdate(t, ask) ==
    /\ TargetExists(t) /\ TargetNameFree(ask.name, t) /\ targets[t].type = ask.type

UpdateTarget(c, t, ask) ==
    /\ CanUpdate(t, ask)
    /\ Begin(c, SaveOf(t, Built(targets[t], ask)))
    /\ UNCHANGED <<targetRows, monitorVars, outside>>

(* ToggleStar: the star itself is left out.                                 *)
ToggleStar(c, t) ==
    /\ TargetExists(t)
    /\ Begin(c, SaveOf(t, targets[t]))
    /\ UNCHANGED <<targetRows, monitorVars, outside>>

(* TestConnection of a stored target as it is, or with an unsaved edit,     *)
(* which the result is then saved with.                                     *)
TestConnection(c, t, ask) ==
    /\ TargetExists(t)
    /\ LET row == IF ask = None THEN targets[t] ELSE Built(targets[t], ask) IN
         /\ ask # None => ask.type = targets[t].type
         /\ Begin(c, [op |-> "test", target |-> t, row |-> row])
    /\ UNCHANGED <<targetRows, monitorVars, outside>>

TestAnswered(c) ==
    /\ req[c].op = "test"
    /\ Then(c, SaveOf(req[c].target, [req[c].row EXCEPT !.tested = Outcome(req[c].row)]))
    /\ UNCHANGED <<targetRows, monitorVars, outside>>

(* gorm's Save: the whole row, inserted again when it is gone; it fails     *)
(* when another target has taken the name.                                  *)
Saved(t, row) ==
    IF TargetNameFree(row.name, t) THEN [targets EXCEPT ![t] = row] ELSE targets

SaveTarget(c) ==
    /\ req[c].op = "saveTarget"
    /\ targets' = Saved(req[c].target, req[c].row)
    /\ Done(c)
    /\ UNCHANGED <<lastTarget, sessions, monitorVars, outside>>

(* Delete: no task names the target when they are counted.                  *)
CheckDeleteTarget(c, t) ==
    /\ TargetExists(t)
    /\ Begin(c, [op |-> "deleteTarget", target |-> t])
    /\ UNCHANGED <<targetRows, monitorVars, outside>>

DeleteTarget(c) ==
    /\ req[c].op = "deleteTarget"
    /\ targets' = [targets EXCEPT ![req[c].target] = None]
    /\ Done(c)
    /\ UNCHANGED <<lastTarget, sessions, monitorVars, outside>>

-----------------------------------------------------------------------------
(* The Google Drive authorisation.                                          *)

(* A session with the draft of a new or an existing target.                 *)
Draft(t, name) ==
    [target |-> t, name |-> name, used |-> FALSE, expires |-> clock + SessionTTL]

(* StartGoogleDriveOAuth                                                    *)
StartOAuth(c, s, t, name) ==
    /\ sessions[s] = None
    /\ t # None => TargetExists(t) /\ targets[t].type = Drive
    /\ Begin(c, [op |-> "startOAuth", session |-> s, row |-> Draft(t, name)])
    /\ UNCHANGED <<targetRows, monitorVars, outside>>

StoreSession(c) ==
    /\ req[c].op = "startOAuth"
    /\ sessions' = [sessions EXCEPT ![req[c].session] = req[c].row]
    /\ Done(c)
    /\ UNCHANGED <<targets, lastTarget, monitorVars, outside>>

(* CompleteGoogleDriveOAuth: the session is read, marked used, the code is  *)
(* exchanged, and the target is created or updated.                         *)
CompleteOAuth(c, s) ==
    /\ sessions[s] # None /\ ~sessions[s].used /\ clock <= sessions[s].expires
    /\ Begin(c, [op |-> "markOAuth", session |-> s, row |-> sessions[s]])
    /\ UNCHANGED <<targetRows, monitorVars, outside>>

MarkSession(c) ==
    /\ req[c].op = "markOAuth"
    /\ sessions' = [sessions EXCEPT ![req[c].session] = [req[c].row EXCEPT !.used = TRUE]]
    /\ Then(c, [req[c] EXCEPT !.op = "exchange"])
    /\ UNCHANGED <<targets, lastTarget, monitorVars, outside>>

Exchange(c, secret) ==
    /\ req[c].op = "exchange"
    /\ LET draft == req[c].row
           t == draft.target
           ask == [name |-> draft.name, type |-> Drive, enabled |-> TRUE, secret |-> secret]
       IN \/ t = None /\ CanCreate(ask) /\ Then(c, InsertOf(Built(None, ask)))
          \/ t = None /\ ~CanCreate(ask) /\ Done(c)
          \/ t # None /\ CanUpdate(t, ask) /\ Then(c, SaveOf(t, Built(targets[t], ask)))
          \/ t # None /\ ~CanUpdate(t, ask) /\ Done(c)
    /\ UNCHANGED <<targetRows, monitorVars, outside>>

-----------------------------------------------------------------------------
(* The monitor.  One goroutine: a round lists the rows and tests those that *)
(* are enabled one after another.                                           *)

MonitorList ==
    /\ monitor = Waiting
    /\ monitor' = [monitor EXCEPT !.left =
         {[id |-> t, row |-> targets[t]] :
            t \in {u \in TargetIds : TargetExists(u) /\ targets[u].enabled}}]
    /\ UNCHANGED <<requestsVars, targetRows, notified, alerts, outside>>

(* The connection of the row that was listed is tested.                     *)
Probe(item) ==
    /\ monitor.tested = None
    /\ monitor' = [left |-> monitor.left \ {item}, tested |-> item, outcome |-> Outcome(item.row)]
    /\ UNCHANGED <<requestsVars, targetRows, notified, alerts, outside>>

(* Mutant: only failures are written down. *)
AppliedFailure(t, row, outcome) ==
    IF outcome = "failed" THEN Saved(t, [row EXCEPT !.tested = outcome]) ELSE targets

(* applyHealthResult saves the row that was listed with its result ...      *)
Applied(t, row, outcome) == Saved(t, [row EXCEPT !.tested = outcome])

(* ... whether or not the save succeeds, and notifyUnhealthyTransition      *)
(* announces a failure it has not announced; a success clears the memory.   *)
Report(stored) ==
    /\ monitor.tested # None
    /\ LET t == monitor.tested.id IN
         /\ targets' = IF stored THEN Applied(t, monitor.tested.row, monitor.outcome) ELSE targets
         /\ IF monitor.outcome = "success"
            THEN notified' = notified \ {t} /\ alerts' = [alerts EXCEPT ![t] = "healthy"]
            ELSE /\ notified' = notified \cup {t}
                 /\ alerts' = IF t \in notified THEN alerts ELSE [alerts EXCEPT ![t] = "failed"]
    /\ monitor' = [Waiting EXCEPT !.left = monitor.left]
    /\ UNCHANGED <<requestsVars, lastTarget, sessions, working>>

-----------------------------------------------------------------------------
(* The world outside, and a restart, which forgets what was announced.      *)

Changes == changes < MaxChanges /\ changes' = changes + 1

Outside ==
    /\ Changes
    /\ \E k \in Secrets : working' = IF k \in working THEN working \ {k} ELSE working \cup {k}
    /\ UNCHANGED <<requestsVars, targetRows, monitorVars>>

RestartStorage ==
    /\ Changes
    /\ DropRequests
    /\ monitor' = Waiting
    /\ notified' = {} /\ alerts' = [t \in TargetIds |-> "none"]
    /\ UNCHANGED <<targetRows, working>>

MonitorStep ==
    \/ MonitorList
    \/ Report(TRUE) /\ UNCHANGED changes
    \/ Report(FALSE) /\ Changes
    \/ \E item \in monitor.left : Probe(item)

StorageRequest(c) ==
    \/ \E ask \in TargetAsks : CreateTarget(c, ask)
    \/ \E t \in TargetIds, ask \in TargetAsks : UpdateTarget(c, t, ask) \/ TestConnection(c, t, ask)
    \/ \E t \in TargetIds : TestConnection(c, t, None) \/ ToggleStar(c, t) \/ CheckDeleteTarget(c, t)
    \/ \E s \in Sessions, t \in TargetIds \cup {None}, name \in {ask.name : ask \in TargetAsks} : StartOAuth(c, s, t, name)
    \/ \E s \in Sessions : CompleteOAuth(c, s)
    \/ InsertTarget(c) \/ SaveTarget(c) \/ TestAnswered(c) \/ DeleteTarget(c)
    \/ StoreSession(c) \/ MarkSession(c)
    \/ \E k \in Secrets : Exchange(c, k)
    \/ Abandon(c) /\ UNCHANGED <<targetRows, monitorVars, outside>>

StorageNext ==
    \/ \E c \in Clients : StorageRequest(c)
    \/ MonitorStep \/ Outside \/ RestartStorage
    \/ Tick /\ UNCHANGED <<targetRows, monitorVars, outside>>

(* The monitor's goroutine goes on; a request may stop at any statement.    *)
StorageSpec ==
    RequestsInit /\ StorageInit /\ [][StorageNext]_storageVars /\ WF_storageVars(MonitorStep)

-----------------------------------------------------------------------------
(* Whatever requests, failed saves and restarts do to the rows, and whatever *)
(* the monitor saves of rows it listed too early: a target that stays       *)
(* enabled and reachable is shown as tested with success in the end and for *)
(* good, and one that stays unreachable as failed, with an announcement     *)
(* that is not taken back (runHealthCheckOnce, "健康→故障"边沿触发告警).     *)
HealthSettles ==
    \A t \in TargetIds :
      LET On == TargetExists(t) /\ targets[t].enabled
          Works == targets[t].secret \in working
      IN /\ <>[](On /\ Works) => <>[](On /\ targets[t].tested = "success" /\ t \notin notified)
         /\ <>[](On /\ ~Works) =>
              <>[](On /\ targets[t].tested = "failed" /\ t \in notified /\ alerts[t] = "failed")
=============================================================================
