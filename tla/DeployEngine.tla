--------------------------- MODULE DeployEngine ---------------------------
(***************************************************************************)
(* The deployment engine of paas: deploy (deployments/engine.ts), stop     *)
(* (deployments/stop.ts) and the health check (deployments/health.ts), run *)
(* by any number of `paas` processes over one state database and one       *)
(* container engine.                                                       *)
(*                                                                         *)
(* A process runs JavaScript: between two awaits nothing of the same       *)
(* process interleaves, and at every await any other process may.  So one  *)
(* action is one engine call taking effect, or one stretch of code between *)
(* two awaits; only the beginning of a deploy is opened up, because its    *)
(* check, its insert and its first update are what keeps two deploys of    *)
(* an app apart.  The SELECT and the UPDATE of setDeploymentStatus, and    *)
(* those of deleteApp, are one step here: StateStore takes them apart.     *)
(*                                                                         *)
(* A container is named after its deployment and carries its id in a       *)
(* label, so containers are indexed by deployment.                         *)
(***************************************************************************)
EXTENDS Naturals

CONSTANTS Procs,            \* processes that run `paas deploy` and `paas stop`
          AppNames,         \* names an app can have
          NoApp,            \* owner of an id that was never used
          MaxDeployments,   \* bound on the deployments of a behaviour
          Faults            \* what may go wrong, a subset of FaultKinds

FaultKinds ==
    {"crash",        \* a process is killed at an await
     "callError",    \* an engine call of the deployment itself is refused
     "removeError",  \* a stop or a removal is refused
     "lostReply",    \* a container is created and the reply is lost
     "hookError",    \* the onRunning hook rejects
     "earlyExit",    \* a container exits while its health is watched
     "restart",      \* the engine restarts it while its health is watched
     "storeError",   \* a statement of the database throws: it is busy
     "outOfBand",    \* a container is stopped or removed behind paas's back
     "mark"}         \* a reconcile in another process fails an open row

ASSUME EngineAssumption ==
    /\ MaxDeployments \in Nat
    /\ NoApp \notin AppNames
    /\ Faults \subseteq FaultKinds

Ids == 1..MaxDeployments

InProgress == {"pending", "pulling", "starting"}
Final      == {"failed", "stopped", "replaced"}
Statuses   == InProgress \union {"running"} \union Final

VARIABLES
    apps,      \* the rows of table apps
    owner,     \* owner[d]: the app column of deployment d
    status,    \* status[d]: its status; "none" before the row, "deleted" after
    recorded,  \* recorded[d]: its container_id is set
    seq,       \* the next deployment id
    ctr,       \* ctr[d]: the container made for d, as the engine sees it
    pc,        \* pc[p]: the await process p is at
    work,      \* work[p]: the deployment it works on, 0 for none
    todo,      \* todo[p]: deployments its replacePrevious has still to take down
    wants      \* wants[p]: the app whose rows its deploy has checked, NoApp after

rows     == <<apps, owner, status, recorded, seq>>
procVars == <<pc, work, todo, wants>>
vars     == <<apps, owner, status, recorded, seq, ctr, pc, work, todo, wants>>

(* Where the catch block of deploy has no container to remove, and where   *)
(* it has one.                                                             *)
Bare   == {"pending", "pull", "create"}
Holding == {"created", "start", "probe", "window", "healthy", "reap", "reaped"}
(* deploy after its row is running, and stopApp.                           *)
Replacing == {"stopPrevious", "removePrevious", "replaced"}
Stopping  == {"stop", "remove", "stopped"}

Pcs == {"idle", "insert"} \union Bare \union Holding \union {"forceRemove", "giveUp", "hook"}
          \union Replacing \union Stopping

CtrStates == {"absent", "created", "running", "restarted", "exited"}

-----------------------------------------------------------------------------
(* The store, as the engine reads it.  A definition named Slip... is what *)
(* the next one would be after a plausible slip in the code; no action     *)
(* uses it.  It is there to show that the properties tell the two apart.   *)

Rows(a, S) == {d \in Ids : owner[d] = a /\ status[d] \in S}

(* deploymentHistory lists the newest first: what a `find` returns. *)
Newest(d, S) == d \in S /\ \A e \in S : e <= d

(* The deployment that keeps another deploy of the app from starting. *)
SlipBlocking(a) == Rows(a, InProgress \ {"pending"})
Blocking(a) == Rows(a, InProgress)

(* setDeploymentStatus accepts a row that exists and is not final. *)
SlipOpen(d) == status[d] \in Statuses
Open(d) == status[d] \in InProgress \union {"running"}

(* What replacePrevious takes down once d is running. *)
SlipPreviousSelf(d) == Rows(owner[d], {"running"})
SlipPreviousStarting(d) == Rows(owner[d], {"running", "starting"}) \ {d}
PreviousOf(d) == Rows(owner[d], {"running"}) \ {d}

(* deleteApp refuses an app with a running deployment. *)
SlipDeletable(a) == \A d \in Ids : Newest(d, Rows(a, Statuses)) => status[d] # "running"
Deletable(a) == Rows(a, {"running"}) = {}

(* The inspections of checkHealth. *)
Up(d) == ctr[d] \in {"running", "restarted"}
Steady(d) == ctr[d] = "running"

SlipSetStatus(d, s) == status' = [status EXCEPT ![d] = IF s = "failed" THEN "error" ELSE s]
SetStatus(d, s) == status' = [status EXCEPT ![d] = s]

(* The container id goes into the row with the status starting. *)
SlipStoreId(d) == UNCHANGED recorded
StoreId(d) == recorded' = [recorded EXCEPT ![d] = TRUE]

(* The last write of deploy's catch block; a row that is gone or final     *)
(* stays and the write throws.                                             *)
SlipMarkFailed(d) == status' = IF status[d] = "starting" THEN [status EXCEPT ![d] = "failed"] ELSE status
MarkFailed(d) == status' = IF Open(d) THEN [status EXCEPT ![d] = "failed"] ELSE status

SetContainer(d, s) == ctr' = [ctr EXCEPT ![d] = s]

Goto(p, where) ==
    /\ pc' = [pc EXCEPT ![p] = where]
    /\ UNCHANGED <<work, todo, wants>>

(* The command ends, by a return or by a throw the caller sees. *)
Return(p) ==
    /\ pc' = [pc EXCEPT ![p] = "idle"]
    /\ work' = [work EXCEPT ![p] = 0]
    /\ todo' = [todo EXCEPT ![p] = {}]
    /\ wants' = [wants EXCEPT ![p] = NoApp]

(* The catch block of deploy: remove the container if there is one, then   *)
(* mark the deployment failed.                                             *)
SlipCatchAt(where) == IF where \in Holding \ {"window"} THEN "forceRemove" ELSE "giveUp"
CatchAt(where) == IF where \in Holding THEN "forceRemove" ELSE "giveUp"

-----------------------------------------------------------------------------
(* Apps come and go in commands that never await. *)

CreateApp(a) ==
    /\ a \notin apps
    /\ apps' = apps \union {a}
    /\ UNCHANGED <<owner, status, recorded, seq, ctr, procVars>>

(* The rows of the app go with it (ON DELETE CASCADE), in flight or not. *)
DeleteApp(a) ==
    /\ a \in apps
    /\ Deletable(a)
    /\ apps' = apps \ {a}
    /\ status' = [d \in Ids |-> IF owner[d] = a THEN "deleted" ELSE status[d]]
    /\ UNCHANGED <<owner, recorded, seq, ctr, procVars>>

-----------------------------------------------------------------------------
(* deploy *)

(* The check: an app, and no deployment of it in flight. *)
DeployBegin(p, a) ==
    /\ pc[p] = "idle"
    /\ a \in apps
    /\ Blocking(a) = {}
    /\ pc' = [pc EXCEPT ![p] = "insert"]
    /\ wants' = [wants EXCEPT ![p] = a]
    /\ UNCHANGED <<rows, ctr, work, todo>>

AddRow(a) ==
    /\ owner' = [owner EXCEPT ![seq] = a]
    /\ status' = [status EXCEPT ![seq] = "pending"]
    /\ seq' = seq + 1
    /\ UNCHANGED <<apps, recorded>>

(* createDeployment, whatever others have inserted since the check.  When  *)
(* its event cannot be inserted the row stays, and nobody works on it.     *)
Insert(p) ==
    /\ pc[p] = "insert"
    /\ wants[p] \in apps
    /\ seq \in Ids
    /\ AddRow(wants[p])
    /\ UNCHANGED ctr
    /\ \/ /\ pc' = [pc EXCEPT ![p] = "pending"]
          /\ work' = [work EXCEPT ![p] = seq]
          /\ wants' = [wants EXCEPT ![p] = NoApp]
          /\ UNCHANGED todo
       \/ "storeError" \in Faults /\ Return(p)

(* The app is gone, the database is busy, or the bound is reached. *)
NotInserted(p) ==
    /\ pc[p] = "insert"
    /\ wants[p] \notin apps \/ seq \notin Ids \/ "storeError" \in Faults
    /\ Return(p)
    /\ UNCHANGED <<rows, ctr>>

(* The first statement of the try block. *)
SetPulling(p) ==
    /\ pc[p] = "pending"
    /\ UNCHANGED <<apps, owner, recorded, seq, ctr>>
    /\ \/ Open(work[p]) /\ SetStatus(work[p], "pulling") /\ Goto(p, "pull")
       \/ ~Open(work[p]) /\ Goto(p, CatchAt("pending")) /\ UNCHANGED status

(* pullImage and ensureNetwork. *)
Pulled(p) ==
    /\ pc[p] = "pull"
    /\ Goto(p, "create")
    /\ UNCHANGED <<rows, ctr>>

(* createContainer, whose reply may be lost: then deploy holds no id. *)
Created(p) ==
    /\ pc[p] = "create"
    /\ SetContainer(work[p], "created")
    /\ \/ Goto(p, "created")
       \/ "lostReply" \in Faults /\ Goto(p, "giveUp")
    /\ UNCHANGED rows

(* The container id is stored; a row that is gone or final throws. *)
RecordStarting(p) ==
    /\ pc[p] = "created"
    /\ \/ /\ Open(work[p])
          /\ SetStatus(work[p], "starting")
          /\ StoreId(work[p])
          /\ Goto(p, "start")
          /\ UNCHANGED <<apps, owner, seq, ctr>>
       \/ /\ ~Open(work[p])
          /\ Goto(p, CatchAt("created"))
          /\ UNCHANGED <<rows, ctr>>

(* startContainer; one that was removed meanwhile is refused. *)
Started(p) ==
    /\ pc[p] = "start"
    /\ ctr[work[p]] # "absent"
    /\ SetContainer(work[p], "running")
    /\ Goto(p, "probe")
    /\ UNCHANGED rows

(* First inspection: anything but running is unhealthy at once. *)
Probe(p) ==
    /\ pc[p] = "probe"
    /\ ctr[work[p]] # "absent"
    /\ Goto(p, IF Up(work[p]) THEN "window" ELSE "reap")
    /\ UNCHANGED <<rows, ctr>>

(* Second inspection, at the end of the health window. *)
Verdict(p) ==
    /\ pc[p] = "window"
    /\ ctr[work[p]] # "absent"
    /\ Goto(p, IF Steady(work[p]) THEN "healthy" ELSE "reap")
    /\ UNCHANGED <<rows, ctr>>

(* An unhealthy container: logs, removal, and then the row. *)
Reap(p) ==
    /\ pc[p] = "reap"
    /\ ctr[work[p]] # "absent"
    /\ SetContainer(work[p], "absent")
    /\ Goto(p, "reaped")
    /\ UNCHANGED rows

Reaped(p) ==
    /\ pc[p] = "reaped"
    /\ UNCHANGED <<apps, owner, recorded, seq, ctr>>
    /\ \/ Open(work[p]) /\ SetStatus(work[p], "failed") /\ Return(p)
       \/ ~Open(work[p]) /\ Goto(p, CatchAt("reaped")) /\ UNCHANGED status

(* Any call on a container that is gone is refused. *)
NotFound(p) ==
    /\ pc[p] \in {"start", "probe", "window", "reap"}
    /\ ctr[work[p]] = "absent"
    /\ Goto(p, CatchAt(pc[p]))
    /\ UNCHANGED <<rows, ctr>>

(* A call is refused for another reason.  The container of a start that    *)
(* was refused may be running all the same.                                *)
CallFails(p) ==
    /\ "callError" \in Faults
    /\ pc[p] \in {"pull", "create", "start", "probe", "window", "reap"}
    /\ Goto(p, CatchAt(pc[p]))
    /\ \/ UNCHANGED ctr
       \/ pc[p] = "start" /\ ctr[work[p]] = "created" /\ SetContainer(work[p], "running")
    /\ UNCHANGED rows

(* What setDeploymentStatus is to write at each of its calls. *)
Written ==
    [pending |-> "pulling", created |-> "starting", reaped |-> "failed",
     healthy |-> "running", giveUp |-> "failed", replaced |-> "replaced", stopped |-> "stopped"]

(* One of its statements throws.  When that is the insert of the event the *)
(* row has been updated before.                                            *)
WriteFails(p) ==
    /\ "storeError" \in Faults
    /\ pc[p] \in DOMAIN Written
    /\ IF pc[p] \in Bare \union Holding THEN Goto(p, CatchAt(pc[p])) ELSE Return(p)
    /\ UNCHANGED <<apps, owner, seq, ctr>>
    /\ \/ UNCHANGED <<status, recorded>>
       \/ \E d \in Ids :
            /\ IF pc[p] = "replaced" THEN Newest(d, todo[p]) ELSE d = work[p]
            /\ Open(d)
            /\ SetStatus(d, Written[pc[p]])
            /\ IF pc[p] = "created" THEN StoreId(d) ELSE UNCHANGED recorded

(* The catch block ignores a removal that fails. *)
ForceRemove(p) ==
    /\ pc[p] = "forceRemove"
    /\ \/ SetContainer(work[p], "absent")
       \/ "removeError" \in Faults /\ UNCHANGED ctr
    /\ Goto(p, "giveUp")
    /\ UNCHANGED rows

(* It marks the row failed, and rejects when the row is gone or final. *)
GiveUp(p) ==
    /\ pc[p] = "giveUp"
    /\ MarkFailed(work[p])
    /\ Return(p)
    /\ UNCHANGED <<apps, owner, recorded, seq, ctr>>

-----------------------------------------------------------------------------
(* replacePrevious, from the state of the rows it reads when it starts. *)

StartReplacing(p, previous) ==
    IF previous = {}
    THEN Return(p)
    ELSE /\ pc' = [pc EXCEPT ![p] = "stopPrevious"]
         /\ todo' = [todo EXCEPT ![p] = previous]
         /\ UNCHANGED <<work, wants>>

(* The deployment is running; a caller's hook comes before the others go. *)
Promote(p) ==
    /\ pc[p] = "healthy"
    /\ UNCHANGED <<apps, owner, recorded, seq, ctr>>
    /\ \/ /\ Open(work[p])
          /\ SetStatus(work[p], "running")
          /\ Goto(p, "hook") \/ StartReplacing(p, PreviousOf(work[p]))
       \/ /\ ~Open(work[p])
          /\ Goto(p, CatchAt("healthy"))
          /\ UNCHANGED status

HookDone(p) ==
    /\ pc[p] = "hook"
    /\ StartReplacing(p, PreviousOf(work[p]))
    /\ UNCHANGED <<rows, ctr>>

(* The hook rejects, or the rows cannot be read after it. *)
HookFails(p) ==
    /\ Faults \intersect {"hookError", "storeError"} # {}
    /\ pc[p] = "hook"
    /\ Return(p)
    /\ UNCHANGED <<rows, ctr>>

(* Taking down the newest of todo.  A missing container counts as removed, *)
(* any other refusal leaves it behind and is only reported.                *)
StopPrevious(p) ==
    /\ pc[p] = "stopPrevious"
    /\ UNCHANGED rows
    /\ \E d \in todo[p] :
        /\ Newest(d, todo[p])
        /\ \/ ctr[d] # "absent" /\ SetContainer(d, "exited") /\ Goto(p, "removePrevious")
           \/ ctr[d] = "absent" /\ UNCHANGED ctr /\ Goto(p, "replaced")
           \/ "removeError" \in Faults /\ UNCHANGED ctr /\ Goto(p, "replaced")

RemovePrevious(p) ==
    /\ pc[p] = "removePrevious"
    /\ UNCHANGED rows
    /\ Goto(p, "replaced")
    /\ \E d \in todo[p] :
        /\ Newest(d, todo[p])
        /\ \/ SetContainer(d, "absent")
           \/ "removeError" \in Faults /\ UNCHANGED ctr

(* The row is replaced; one that is final by now throws out of the loop.   *)
Replaced(p) ==
    /\ pc[p] = "replaced"
    /\ UNCHANGED <<apps, owner, recorded, seq, ctr>>
    /\ \E d \in todo[p] :
        /\ Newest(d, todo[p])
        /\ \/ /\ Open(d)
              /\ SetStatus(d, "replaced")
              /\ StartReplacing(p, todo[p] \ {d})
           \/ /\ ~Open(d)
              /\ Return(p)
              /\ UNCHANGED status

-----------------------------------------------------------------------------
(* stopApp: the newest running deployment of the app, and only that one. *)

StopBegin(p, a) ==
    /\ pc[p] = "idle"
    /\ a \in apps
    /\ \E d \in Rows(a, {"running"}) :
        /\ Newest(d, Rows(a, {"running"}))
        /\ work' = [work EXCEPT ![p] = d]
    /\ pc' = [pc EXCEPT ![p] = "stop"]
    /\ UNCHANGED <<rows, ctr, todo, wants>>

StopContainer(p) ==
    /\ pc[p] = "stop"
    /\ UNCHANGED rows
    /\ \/ /\ ctr' = [ctr EXCEPT ![work[p]] = IF @ = "absent" THEN @ ELSE "exited"]
          /\ Goto(p, "remove")
       \/ "removeError" \in Faults /\ Return(p) /\ UNCHANGED ctr

RemoveContainer(p) ==
    /\ pc[p] = "remove"
    /\ UNCHANGED rows
    /\ \/ SetContainer(work[p], "absent") /\ Goto(p, "stopped")
       \/ "removeError" \in Faults /\ Return(p) /\ UNCHANGED ctr

Stopped(p) ==
    /\ pc[p] = "stopped"
    /\ status' = IF Open(work[p]) THEN [status EXCEPT ![work[p]] = "stopped"] ELSE status
    /\ Return(p)
    /\ UNCHANGED <<apps, owner, recorded, seq, ctr>>

-----------------------------------------------------------------------------
(* The world around the processes. *)

(* Killed at an await: the call in progress may already have had its       *)
(* effect, which is the state before the next action of the process.       *)
Crash(p) ==
    /\ "crash" \in Faults
    /\ pc[p] # "idle"
    /\ Return(p)
    /\ UNCHANGED <<rows, ctr>>

(* The container under watch exits, or is restarted by its restart policy. *)
Misbehave(p) ==
    /\ pc[p] \in {"probe", "window"}
    /\ Up(work[p])
    /\ \/ "earlyExit" \in Faults /\ SetContainer(work[p], "exited")
       \/ "restart" \in Faults /\ SetContainer(work[p], "restarted")
    /\ UNCHANGED <<rows, procVars>>

(* Somebody else stops or removes a container: `docker rm`, a container    *)
(* that gives up, or a prune of reconcile.                                 *)
OutOfBand(d) ==
    /\ "outOfBand" \in Faults
    /\ ctr[d] # "absent"
    /\ SetContainer(d, "exited") \/ SetContainer(d, "absent")
    /\ UNCHANGED <<rows, procVars>>

(* A reconcile elsewhere marks an open deployment failed: it looks stuck,  *)
(* or its container looks gone.  Reconcile says when it does.              *)
ReconcileMark(d) ==
    /\ "mark" \in Faults
    /\ Open(d)
    /\ SetStatus(d, "failed")
    /\ UNCHANGED <<apps, owner, recorded, seq, ctr, procVars>>

-----------------------------------------------------------------------------
Init ==
    /\ apps = {}
    /\ owner = [d \in Ids |-> NoApp]
    /\ status = [d \in Ids |-> "none"]
    /\ recorded = [d \in Ids |-> FALSE]
    /\ seq = 1
    /\ ctr = [d \in Ids |-> "absent"]
    /\ pc = [p \in Procs |-> "idle"]
    /\ work = [p \in Procs |-> 0]
    /\ todo = [p \in Procs |-> {}]
    /\ wants = [p \in Procs |-> NoApp]

(* What a process does on its own once its command has begun. *)
Step(p) ==
    \/ Insert(p) \/ NotInserted(p) \/ SetPulling(p)
    \/ Pulled(p) \/ Created(p) \/ RecordStarting(p) \/ Started(p)
    \/ Probe(p) \/ Verdict(p) \/ Reap(p) \/ Reaped(p)
    \/ NotFound(p) \/ CallFails(p) \/ WriteFails(p) \/ ForceRemove(p) \/ GiveUp(p)
    \/ Promote(p) \/ HookDone(p) \/ HookFails(p)
    \/ StopPrevious(p) \/ RemovePrevious(p) \/ Replaced(p)
    \/ StopContainer(p) \/ RemoveContainer(p) \/ Stopped(p)

Next ==
    \/ \E a \in AppNames : CreateApp(a) \/ DeleteApp(a)
    \/ \E p \in Procs, a \in AppNames : DeployBegin(p, a) \/ StopBegin(p, a)
    \/ \E p \in Procs : Step(p) \/ Crash(p) \/ Misbehave(p)
    \/ \E d \in Ids : OutOfBand(d) \/ ReconcileMark(d)

Spec == Init /\ [][Next]_vars

(* Every engine call and every hook is answered in the end, and a process  *)
(* that is not killed goes on.  No command is ever obliged to be run.      *)
FairSpec == Spec /\ \A p \in Procs : WF_vars(Step(p))

-----------------------------------------------------------------------------
(* Properties *)

TypeOK ==
    /\ apps \subseteq AppNames
    /\ owner \in [Ids -> AppNames \union {NoApp}]
    /\ status \in [Ids -> Statuses \union {"none", "deleted"}]
    /\ recorded \in [Ids -> BOOLEAN]
    /\ seq \in 1..(MaxDeployments + 1)
    /\ ctr \in [Ids -> CtrStates]
    /\ pc \in [Procs -> Pcs]
    /\ work \in [Procs -> Ids \union {0}]
    /\ todo \in [Procs -> SUBSET Ids]
    /\ wants \in [Procs -> AppNames \union {NoApp}]

(* At most one deployment of an app is in flight: "a second deploy of an   *)
(* app while one is in progress is refused" (openspec/queue.md:168).  Two  *)
(* deploys that check before either inserts are both let through.          *)
OneInFlight ==
    \A d, e \in Ids :
        owner[d] = owner[e] /\ status[d] \in InProgress /\ status[e] \in InProgress
            => d = e

(* That crossing of two checks is the only way to a second one: a deploy   *)
(* that is killed or throws, at whatever statement, leaves none.           *)
OneChecking ==
    \A p, q \in Procs :
        p # q /\ pc[p] = "insert" /\ pc[q] = "insert" => wants[p] # wants[q]

OneInFlightUnlessCrossed == []OneChecking => []OneInFlight

(* A running deployment knows its container, so that stop, replacement and *)
(* routing can reach it, whatever interrupted the deploy that made it      *)
(* (the `containerId !== null` branches of engine.ts and stop.ts are never *)
(* skipped).                                                               *)
RunningHasContainer ==
    \A d \in Ids : status[d] = "running" => recorded[d]

(* The walk a deployment's status makes.  setDeploymentStatus refuses only *)
(* to leave a final status: that nothing is skipped and that a row is      *)
(* never taken back is the work of deploy, stop and their interleaving at  *)
(* awaits.  (Between the SELECT and the UPDATE of one write another        *)
(* process can finish the row, which the UPDATE revives: FinalStays in     *)
(* StateStore.)                                                            *)
Walk ==
    [none |-> {"pending"},
     pending |-> {"pulling", "failed", "deleted"},
     pulling |-> {"starting", "failed", "deleted"},
     starting |-> {"running", "failed", "deleted"},
     running |-> {"failed", "stopped", "replaced"},
     failed |-> {"deleted"}, stopped |-> {"deleted"}, replaced |-> {"deleted"},
     deleted |-> {}]

StatusPath == [][\A d \in Ids : status'[d] # status[d] => status'[d] \in Walk[status[d]]]_vars

(* While a deployment is in flight, only the process that deploys it       *)
(* touches its container: a deploy that is still waiting for its hook, a   *)
(* stop or a replacement by another process leaves it alone.  (Somebody    *)
(* else than paas may do as he likes.)                                     *)
Watches(p, d) == work[p] = d /\ pc[p] \in Bare \union Holding \union {"forceRemove"}

HandsOff ==
    [][\A d \in Ids :
        status[d] \in InProgress /\ ctr'[d] # ctr[d]
            => OutOfBand(d) \/ \E p \in Procs : Watches(p, d)]_vars

(* No container is left behind: each one belongs to a running deployment   *)
(* or is in the hands of the process that deploys it.  Meant for runs      *)
(* without the faults that leave one to reconcile: a killed process, a     *)
(* lost reply, a removal that fails, a row failed by somebody else.        *)
NoLeak ==
    \A d \in Ids :
        ctr[d] # "absent" => status[d] = "running" \/ \E p \in Procs : Watches(p, d)

(* An app is served while one of its running deployments has its container *)
(* up.  A deploy, wherever it fails or is killed, never ends that: only a  *)
(* stop of the app does (README.md: redeploys without downtime).           *)
Served(a)   == \E d \in Rows(a, {"running"}) : Up(d)
Stops(p, a) == pc[p] \in Stopping /\ owner[work[p]] = a

NoDowntime ==
    [][\A a \in AppNames :
        Served(a) /\ ~Served(a)' => \E p \in Procs : Stops(p, a)]_vars

(* A deployment in flight gets out of it, whatever call fails: the catch   *)
(* block of deploy leaves no row behind that would block every later one.  *)
InFlightEnds ==
    \A d \in Ids : (status[d] \in InProgress) ~> (status[d] \notin InProgress)

(* deploy rejects only when the app is unknown, another deploy is in       *)
(* progress or its hook rejects (engine.ts, the comment above deploy): so  *)
(* the writes outside its try block, the last one of the catch block and   *)
(* those of replacePrevious, find their row open, unless the app was       *)
(* deleted.                                                                *)
RejectsOnlyAsDocumented ==
    \A p \in Procs :
        /\ pc[p] = "giveUp" /\ status[work[p]] # "deleted" => Open(work[p])
        /\ pc[p] = "replaced" =>
             \A d \in todo[p] : Newest(d, todo[p]) /\ status[d] # "deleted" => Open(d)

(* When a stop has stopped an app it is stopped: no deployment of it is    *)
(* running (commands/stop.ts: "<app> is stopped").                         *)
StoppedMeansDown ==
    [][\A p \in Procs, a \in AppNames :
        Stopped(p) /\ work[p] \in Rows(a, {"running"}) => Rows(a, {"running"})' = {}]_vars

-----------------------------------------------------------------------------
(* The engine implements the life of a deployment. *)

StageOf(d) ==
    IF status[d] \in InProgress THEN "inFlight"
    ELSE IF status[d] \in Final THEN "finished"
    ELSE status[d]

Life == INSTANCE DeploymentLife WITH life <- [d \in Ids |-> StageOf(d)]

(* Every step of the engine, of its faults and of the world around it is a *)
(* step of DeploymentLife or leaves the records as they are.               *)
ImplementsLife == Life!Spec
=============================================================================
