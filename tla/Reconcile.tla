----------------------------- MODULE Reconcile -----------------------------
(***************************************************************************)
(* `paas reconcile [--prune] [--redeploy]` (deployments/reconcile.ts and   *)
(* commands/reconcile.ts up to its ingress push) beside processes that     *)
(* deploy and stop, on the database and the engine of DeployEngine.        *)
(*                                                                         *)
(* A reconcile lists the containers, reads the rows, fails the rows that   *)
(* disagree, prunes the containers no row owns, and deploys again the apps *)
(* that are down.  Everything it decides on may have changed by the time   *)
(* it acts: the list is older than the rows, and the plan older than both. *)
(* A dry run and the warning of `paas status` stop after the plan and      *)
(* change nothing.                                                         *)
(***************************************************************************)
EXTENDS DeployEngine

CONSTANTS Janitors,         \* the processes that run `paas reconcile`
          Options           \* the sets of options they pass

ASSUME ReconcileAssumption ==
    Janitors \subseteq Procs /\ Options \subseteq SUBSET {"prune", "redeploy"}

VARIABLES
    stale,   \* in-flight rows whose last status change is over ten minutes old
    ran,     \* rows with a running event in deployment_events
    rpc,     \* rpc[j]: the phase janitor j is in
    plan,    \* plan[j]: what it has seen and decided
    calm     \* janitors nobody else has disturbed since they began (history)

allVars == <<vars, stale, ran, rpc, plan, calm>>

Phases == {"idle", "list", "states", "scan", "mark", "prune", "redeploy"}

Plans == [options : SUBSET {"prune", "redeploy"},
          names : SUBSET Ids,   \* containers the engine listed
          up : SUBSET Ids,      \* those it reported running
          left : SUBSET AppNames,   \* apps still to scan, then to redeploy
          lost : SUBSET Ids,    \* running rows whose container is not running
          stuck : SUBSET Ids,   \* in-flight rows that are stuck
          kept : SUBSET Ids,    \* containers of rows that stay
          unmarked : SUBSET Ids,   \* rows whose outcome is "failed": setDeploymentStatus threw
          todo : SUBSET Ids]    \* containers still to inspect, rows to fail, or containers to prune

NoPlan == [options |-> {}, names |-> {}, up |-> {}, left |-> {},
           lost |-> {}, stuck |-> {}, kept |-> {}, unmarked |-> {}, todo |-> {}]

-----------------------------------------------------------------------------
(* What planReconcile decides about a row. *)

(* stuckSince, for the default of ten minutes. *)
SlipStuck(d) == status[d] \in {"pulling", "starting"} /\ d \in stale
Stuck(d) == status[d] \in InProgress /\ d \in stale

(* runningDeploymentError: its container was not listed as running.        *)
SlipLost(d, up) == status[d] = "running" /\ d \notin up /\ ctr[d] # "absent"
Lost(d, up) == status[d] = "running" /\ d \notin up

(* Rows that stay own the container whose id they have stored. *)
SlipKept(d, up) == d \in up /\ status[d] = "running"
Kept(d, up) == recorded[d] /\ Open(d) /\ ~Lost(d, up) /\ ~Stuck(d)

(* An orphan: listed and not owned. *)
Orphans(j) == plan[j].names \ plan[j].kept

(* The last write of a fail item; a row that is gone or final stays.       *)
SlipFailWord(d) == status' = IF Open(d) THEN [status EXCEPT ![d] = "stuck"] ELSE status
SlipFailRow(d) == status' = [status EXCEPT ![d] = "failed"]
FailRow(d) == status' = IF Open(d) THEN [status EXCEPT ![d] = "failed"] ELSE status

(* redeployItems: a running deployment that the plan did not fail.         *)
SlipRunningLeft(j, a) ==
    \E d \in Rows(a, {"running"}) : Newest(d, Rows(a, Statuses)) /\ d \notin plan[j].lost
RunningLeft(j, a) ==
    \E d \in Rows(a, {"running"}) : d \notin plan[j].lost \union plan[j].stuck

(* The latest deployment lost its container now, or failed after running.  *)
IsDown(j, a) ==
    \E d \in Rows(a, Statuses) :
        /\ Newest(d, Rows(a, Statuses))
        /\ d \in plan[j].lost \/ (status[d] = "failed" /\ d \in ran)

-----------------------------------------------------------------------------
(* Bookkeeping of the rows' events and their ages, and of who disturbs whom. *)

Events ==
    /\ stale' = {d \in stale : status'[d] = status[d]}
    /\ ran' = ran \union {d \in Ids : status'[d] = "running"}

(* Whoever changes rows or containers disturbs every other reconcile. *)
Disturb(quiet) ==
    calm' = IF UNCHANGED <<rows, ctr>> THEN calm ELSE calm \intersect quiet

(* A step of DeployEngine, beside every reconcile. *)
Elsewhere ==
    /\ Events
    /\ Disturb({})
    /\ UNCHANGED <<rpc, plan>>

(* A step of reconcile itself. *)
Enter(j, phase) == rpc' = [rpc EXCEPT ![j] = phase]

ReadOnly(j, phase) ==
    /\ Enter(j, phase)
    /\ UNCHANGED <<vars, stale, ran, calm>>

Finish(j) ==
    /\ rpc' = [rpc EXCEPT ![j] = "idle"]
    /\ plan' = [plan EXCEPT ![j] = NoPlan]
    /\ calm' = calm \ {j}
    /\ UNCHANGED <<vars, stale, ran>>

-----------------------------------------------------------------------------
ReconcileBegin(j, options) ==
    /\ rpc[j] = "idle"
    /\ plan' = [plan EXCEPT ![j].options = options]
    /\ Enter(j, "list")
    /\ calm' = calm \union {j}
    /\ UNCHANGED <<vars, stale, ran>>

(* listContainers of the Docker adapter: first the names ... *)
ListNames(j) ==
    /\ rpc[j] = "list"
    /\ plan' = [plan EXCEPT ![j].todo = {d \in Ids : ctr[d] # "absent"}]
    /\ ReadOnly(j, "states")

(* ... then an inspection of each, newest first, skipping what is gone.    *)
Inspect(j, d) ==
    /\ rpc[j] = "states"
    /\ Newest(d, plan[j].todo)
    /\ plan' = [plan EXCEPT ![j].todo = @ \ {d},
                            ![j].names = IF ctr[d] = "absent" THEN @ ELSE @ \union {d},
                            ![j].up = IF Up(d) THEN @ \union {d} ELSE @]
    /\ ReadOnly(j, "states")

Listed(j) ==
    /\ rpc[j] = "states"
    /\ plan[j].todo = {}
    /\ plan' = [plan EXCEPT ![j].left = apps]
    /\ ReadOnly(j, "scan")

(* The rows of one app, which are read together.  A running row whose      *)
(* container is listed as not running costs an inspection, at which other  *)
(* processes run and which may be refused; its answer changes only the     *)
(* wording of the error.                                                   *)
ScanApp(j, a) ==
    /\ rpc[j] = "scan"
    /\ a \in plan[j].left \intersect apps
    /\ plan' = [plan EXCEPT
                    ![j].left = @ \ {a},
                    ![j].lost = @ \union {d \in Ids : owner[d] = a /\ Lost(d, plan[j].up)},
                    ![j].stuck = @ \union {d \in Ids : owner[d] = a /\ Stuck(d)},
                    ![j].kept = @ \union {d \in Ids : owner[d] = a /\ Kept(d, plan[j].up)}]
    /\ ReadOnly(j, "scan")

(* An inspection that is refused, or an app deleted since the apps were    *)
(* listed (deploymentHistory throws), ends the command before it acts.     *)
ScanFails(j, a) ==
    /\ rpc[j] = "scan"
    /\ a \in plan[j].left
    /\ \/ a \notin apps
       \/ /\ "callError" \in Faults
          /\ \E d \in Rows(a, {"running"}) : d \in plan[j].names \ plan[j].up
    /\ Finish(j)

Planned(j) ==
    /\ rpc[j] = "scan"
    /\ plan[j].left = {}
    /\ plan' = [plan EXCEPT ![j].todo = plan[j].lost \union plan[j].stuck]
    /\ ReadOnly(j, "mark")

(* applyReconcile: the fail items come first.  An outcome is kept of each: *)
(* "failed" when the row was gone or final, or when a statement threw,     *)
(* before the update or after it.                                          *)
Mark(j, d) ==
    /\ rpc[j] = "mark"
    /\ d \in plan[j].todo
    /\ UNCHANGED <<apps, owner, recorded, seq, ctr, procVars, rpc>>
    /\ \/ /\ FailRow(d)
          /\ plan' = [plan EXCEPT ![j].todo = @ \ {d},
                                  ![j].unmarked = IF Open(d) THEN @ ELSE @ \union {d}]
          /\ Disturb({j})
       \/ /\ "storeError" \in Faults
          /\ plan' = [plan EXCEPT ![j].todo = @ \ {d}, ![j].unmarked = @ \union {d}]
          /\ \/ UNCHANGED status /\ calm' = calm \ {j}
             \/ Open(d) /\ FailRow(d) /\ calm' = {}
    /\ Events

Marked(j) ==
    /\ rpc[j] = "mark"
    /\ plan[j].todo = {}
    /\ plan' = [plan EXCEPT ![j].todo = IF "prune" \in plan[j].options THEN Orphans(j) ELSE {}]
    /\ ReadOnly(j, "prune")

(* A removal that fails does not stop the rest. *)
Prune(j, d) ==
    /\ rpc[j] = "prune"
    /\ d \in plan[j].todo
    /\ plan' = [plan EXCEPT ![j].todo = @ \ {d}]
    /\ UNCHANGED <<rows, procVars, stale, ran, rpc>>
    /\ \/ SetContainer(d, "absent") /\ Disturb({j})
       \/ "removeError" \in Faults /\ UNCHANGED ctr /\ calm' = calm \ {j}

(* Then the apps that are down, if they are to be deployed again.  What    *)
(* was listed is known to planReconcile alone, and forgotten by now.       *)
Pruned(j) ==
    /\ rpc[j] = "prune"
    /\ plan[j].todo = {}
    /\ plan' = [plan EXCEPT ![j].left = IF "redeploy" \in plan[j].options THEN apps ELSE {},
                            ![j].names = {}, ![j].up = {}, ![j].kept = {}]
    /\ ReadOnly(j, "redeploy")

(* An app is looked at when the deploy before it has ended. *)
Due(j, a) ==
    /\ rpc[j] = "redeploy"
    /\ pc[j] = "idle"
    /\ a \in plan[j].left \intersect apps
    /\ plan' = [plan EXCEPT ![j].left = @ \ {a}]
    /\ UNCHANGED rpc

Skip(j, a) ==
    /\ Due(j, a)
    /\ \/ RunningLeft(j, a)
       \/ ~IsDown(j, a)
       \/ Blocking(a) # {}    \* deploy rejects, and that is reported
    /\ UNCHANGED <<vars, stale, ran, calm>>

Redeploy(j, a) ==
    /\ Due(j, a)
    /\ ~RunningLeft(j, a)
    /\ IsDown(j, a)
    /\ DeployBegin(j, a)
    /\ UNCHANGED <<stale, ran, calm>>

(* The history of an app that is gone throws past the report: the apps     *)
(* that are left, and the push, go undone.                                 *)
RedeployFails(j, a) ==
    /\ rpc[j] = "redeploy"
    /\ pc[j] = "idle"
    /\ a \in plan[j].left \ apps
    /\ Finish(j)

Done(j) ==
    /\ rpc[j] = "redeploy"
    /\ pc[j] = "idle"
    /\ plan[j].left = {}
    /\ Finish(j)

(* A refused listing ends the command, and a killed process ends anywhere. *)
Abort(j) ==
    /\ \/ "callError" \in Faults /\ rpc[j] \in {"list", "states"}
       \/ "crash" \in Faults /\ rpc[j] # "idle" /\ pc[j] = "idle"
    /\ Finish(j)

-----------------------------------------------------------------------------
(* Ten minutes go by without a change of the row's status.  A deployment   *)
(* whose process is alive may be that slow too: a pull can be.             *)
Age(d) ==
    /\ status[d] \in InProgress
    /\ d \notin stale
    /\ stale' = stale \union {d}
    /\ calm' = {}
    /\ UNCHANGED <<vars, ran, rpc, plan>>

ReconcileInit ==
    /\ Init
    /\ stale = {}
    /\ ran = {}
    /\ rpc = [j \in Janitors |-> "idle"]
    /\ plan = [j \in Janitors |-> NoPlan]
    /\ calm = {}

(* The deploys of a reconcile pass no onRunning hook. *)
EngineStep(p) ==
    /\ Step(p)
    /\ p \in Janitors => pc'[p] # "hook"

(* A janitor killed in the middle of a deploy. *)
CrashRedeploy(j) ==
    /\ Crash(j)
    /\ rpc' = [rpc EXCEPT ![j] = "idle"]
    /\ plan' = [plan EXCEPT ![j] = NoPlan]
    /\ calm' = calm \ {j}
    /\ UNCHANGED <<stale, ran>>

JanitorNext(j) ==
    \/ \E options \in Options : ReconcileBegin(j, options)
    \/ ListNames(j) \/ Listed(j) \/ Planned(j) \/ Marked(j) \/ Pruned(j)
    \/ Done(j) \/ Abort(j) \/ CrashRedeploy(j)
    \/ \E a \in AppNames : ScanApp(j, a) \/ ScanFails(j, a) \/ Skip(j, a) \/ Redeploy(j, a)
                             \/ RedeployFails(j, a)
    \/ \E d \in Ids : Inspect(j, d) \/ Mark(j, d) \/ Prune(j, d)

UserNext ==
    \/ \E a \in AppNames : CreateApp(a) \/ DeleteApp(a)
    \/ \E p \in Procs \ Janitors, a \in AppNames : DeployBegin(p, a) \/ StopBegin(p, a)
    \/ \E p \in Procs : EngineStep(p) \/ Misbehave(p)
    \/ \E p \in Procs \ Janitors : Crash(p)
    \/ \E d \in Ids : OutOfBand(d)

ReconcileNext ==
    \/ UserNext /\ Elsewhere
    \/ \E d \in Ids : Age(d)
    \/ \E j \in Janitors : JanitorNext(j)

ReconcileSpec == ReconcileInit /\ [][ReconcileNext]_allVars

-----------------------------------------------------------------------------
(* Properties *)

ReconcileTypeOK ==
    /\ TypeOK
    /\ stale \subseteq Ids
    /\ ran \subseteq Ids
    /\ rpc \in [Janitors -> Phases]
    /\ plan \in [Janitors -> Plans]
    /\ calm \subseteq Janitors

(* A reconcile is nothing new to the engine: all it does to rows and       *)
(* containers is to fail open rows, to remove containers and to deploy.    *)
(* So what DeployEngine shows of the records under "mark" and "outOfBand"  *)
(* holds beside reconciles.                                                *)
Engine == INSTANCE DeployEngine WITH Faults <- Faults \union {"mark", "outOfBand"}

ImplementsEngine == Engine!Spec

(* Left alone, a reconcile brings state and engine into agreement from     *)
(* whatever wreckage crashes and faults have left: running rows run,       *)
(* nothing is stuck, and with pruning every container is of an open row    *)
(* (spec deployments:146, "state and engine agree").                       *)
Repairs ==
    \A j \in Janitors :
        rpc[j] = "redeploy" /\ j \in calm
            => /\ \A d \in Ids : status[d] = "running" => Up(d)
               /\ \A d \in stale : status[d] \notin InProgress
               /\ "prune" \in plan[j].options => \A d \in Ids : ctr[d] # "absent" => Open(d)

(* Left alone, it fails no deployment that is well and prunes no container *)
(* whose id an open row has stored (spec deployments:186, "stays running,  *)
(* or stays in flight without being stuck").                               *)
TouchesOnlyBroken ==
    [][\A j \in Janitors, d \in Ids :
        j \in calm =>
            /\ Mark(j, d) => Stuck(d) \/ ~Up(d)
            /\ Prune(j, d) => ~(recorded[d] /\ Open(d))]_allVars

(* However old its plan, and whoever has stopped or deployed the app since *)
(* it was made, a reconcile deploys an app again only when none of its     *)
(* deployments is running, or those that are it has tried to fail and says *)
(* it could not: redeployItems takes every row the plan names as failed,   *)
(* whatever became of the write.                                           *)
RedeploysOnlyWhenDown ==
    [][\A j \in Janitors, a \in AppNames :
        Redeploy(j, a) => Rows(a, {"running"}) \subseteq plan[j].unmarked]_allVars

(* "Deploy again ... every app with no running deployment left whose       *)
(* latest deployment reached running and was then marked failed" (spec     *)
(* cli:350).                                                               *)
RedeploysOnlyFailed ==
    [][\A j \in Janitors, a \in AppNames :
        Redeploy(j, a) =>
            \A d \in Ids : Newest(d, Rows(a, Statuses)) => status[d] = "failed"]_allVars

(* A container is no orphan while its deployment stays running, or stays   *)
(* in flight without being stuck (spec deployments:186).                   *)
PrunesNoLiveDeployment ==
    [][\A j \in Janitors, d \in Ids : Prune(j, d) /\ ctr'[d] # ctr[d] => ~Open(d)]_allVars

(* "--redeploy only redeploys apps that the same run failed"               *)
(* (docs/manual-testing.md:144).                                           *)
RedeploysOnlyThisRun ==
    [][\A j \in Janitors, a \in AppNames :
        Redeploy(j, a) => \E d \in plan[j].lost \union plan[j].stuck : owner[d] = a]_allVars
=============================================================================
