---------------------------- MODULE StateStore ----------------------------
(***************************************************************************)
(* The state database under paas (state/apps.ts, state/deployments.ts),    *)
(* statement by statement.  Every function of the repositories is a run of *)
(* SELECTs followed by a write, each a transaction of its own: node:sqlite *)
(* commits every statement, and no BEGIN surrounds them.  Two `paas`       *)
(* processes therefore interleave between the statements, where            *)
(* DeployEngine takes a stretch of code as one step.                       *)
(*                                                                         *)
(* Of an app's columns the model keeps the hostname, which is unique, and  *)
(* the environment, which `apps set` merges; image and port are written    *)
(* like the environment, without the merge.                                *)
(***************************************************************************)
EXTENDS Naturals, FiniteSets, Sequences

CONSTANTS Clients,          \* paas processes
          AppNames,         \* names an app can have
          Hosts,            \* hostnames
          Keys,             \* environment variables
          NoApp, NoHost, Keep, NoRow,
          MaxDeployments,   \* bound on the deployments of a behaviour
          Kinds,            \* the operations the processes use
          Faults            \* a subset of {"crash", "sqlError"}

AppRows == [host : Hosts \union {NoHost}, env : SUBSET Keys]

ASSUME StoreAssumption ==
    /\ MaxDeployments \in Nat
    /\ IsFiniteSet(Clients)
    /\ NoApp \notin AppNames
    /\ NoRow \notin AppRows
    /\ Faults \subseteq {"crash", "sqlError"}
    /\ Kinds \subseteq {"create", "set", "delete", "deploy"}

Ids == 1..MaxDeployments

InProgress == {"pending", "pulling", "starting"}
Final      == {"failed", "stopped", "replaced"}
Statuses   == InProgress \union {"running"} \union Final

VARIABLES
    app,      \* app[a]: the row of table apps
    owner,    \* owner[d]: the app column of deployment d
    status,   \* status[d]: its status; "none" before the row, "deleted" after
    log,      \* log[d]: its rows in deployment_events
    seq,      \* the next deployment id
    op,       \* op[c]: the operation client c is in
    pc,       \* pc[c]: the statement it executes next
    row,      \* row[c]: the app row it is going to write
    held      \* held[c]: the deployment it works on, and what it may do next

tables  == <<app, owner, status, log, seq>>
clients == <<op, pc, row, held>>
storeVars == <<app, owner, status, log, seq, op, pc, row, held>>

NoAppRow == [host |-> NoHost, env |-> {}]

Ops == [kind : {"none", "create", "set", "delete", "deploy", "status"},
        app : AppNames \union {NoApp},
        host : Hosts \union {NoHost, Keep},   \* the hostname given, if any
        add : SUBSET Keys, drop : SUBSET Keys,   \* --env and --unset-env
        status : Statuses \union {"none"}]

NoOp == [kind |-> "none", app |-> NoApp, host |-> Keep, add |-> {}, drop |-> {},
         status |-> "none"]

Works == [id : 0..MaxDeployments, next : SUBSET Statuses, mine : BOOLEAN]

NoWork == [id |-> 0, next |-> {}, mine |-> FALSE]

Statements == {"idle", "findForEnv", "findApp", "hostnameOwner", "insertApp", "updateApp",
               "findRunning", "deleteRow", "findInFlight", "insertRow", "insertPending",
               "getRow", "updateRow", "insertEvent"}

-----------------------------------------------------------------------------
(* What the database enforces by itself.  (Definitions named Slip... are    *)
(* slips the properties tell from the code, as in DeployEngine.)           *)

Exists(a) == app[a] # NoRow

(* hostname TEXT UNIQUE; a NULL equals nothing. *)
SlipTaken(a, h) == FALSE
Taken(a, h) == h # NoHost /\ \E b \in AppNames \ {a} : Exists(b) /\ app[b].host = h

(* ON DELETE CASCADE, from apps to deployments to their events. *)
SlipCascade(a) ==
    /\ status' = [d \in Ids |-> IF owner[d] = a THEN "deleted" ELSE status[d]]
    /\ UNCHANGED log
Cascade(a) ==
    /\ status' = [d \in Ids |-> IF owner[d] = a THEN "deleted" ELSE status[d]]
    /\ log' = [d \in Ids |-> IF owner[d] = a THEN <<>> ELSE log[d]]

HasRow(d) == status[d] \in Statuses

(* recordEvent: the foreign key refuses the event of a row that is gone.   *)
Record(d, s) == log' = [log EXCEPT ![d] = IF HasRow(d) THEN Append(@, s) ELSE @]

Of(a, S) == {d \in Ids : owner[d] = a /\ status[d] \in S}

-----------------------------------------------------------------------------
(* Statements and operations. *)

Goto(c, statement) ==
    /\ pc' = [pc EXCEPT ![c] = statement]
    /\ UNCHANGED <<op, row>>

GotoWith(c, statement, r) ==
    /\ pc' = [pc EXCEPT ![c] = statement]
    /\ row' = [row EXCEPT ![c] = r]
    /\ UNCHANGED op

(* The operation ends, by its return or by a throw. *)
End(c) ==
    /\ pc' = [pc EXCEPT ![c] = "idle"]
    /\ op' = [op EXCEPT ![c] = NoOp]
    /\ row' = [row EXCEPT ![c] = NoAppRow]

Read(c, statement) ==
    /\ pc[c] = statement
    /\ UNCHANGED tables

Begin(c, o, statement) ==
    /\ pc[c] = "idle"
    /\ op' = [op EXCEPT ![c] = o]
    /\ pc' = [pc EXCEPT ![c] = statement]
    /\ UNCHANGED <<tables, row>>

(* `paas apps create`, and createApp. *)
Create(c, a, h, env) ==
    /\ "create" \in Kinds
    /\ held[c] = NoWork
    /\ Begin(c, [NoOp EXCEPT !.kind = "create", !.app = a, !.host = h, !.add = env], "findApp")
    /\ UNCHANGED held

(* `paas apps set`, which reads the app for its environment before         *)
(* updateApp reads it again.                                               *)
Set(c, a, h, add, drop) ==
    /\ "set" \in Kinds
    /\ held[c] = NoWork
    /\ add \intersect drop = {}
    /\ h # Keep \/ add \union drop # {}
    /\ Begin(c, [NoOp EXCEPT !.kind = "set", !.app = a, !.host = h, !.add = add,
                             !.drop = drop], "findForEnv")
    /\ UNCHANGED held

Delete(c, a) ==
    /\ "delete" \in Kinds
    /\ held[c] = NoWork
    /\ Begin(c, [NoOp EXCEPT !.kind = "delete", !.app = a], "findApp")
    /\ UNCHANGED held

NamesEnv(c) == op[c].add \union op[c].drop # {}

FindForEnv(c) ==
    /\ Read(c, "findForEnv")
    /\ LET current == app[op[c].app]
       IN  IF current = NoRow
           THEN End(c)
           ELSE GotoWith(c, "findApp", [NoAppRow EXCEPT
                                          !.env = (current.env \union op[c].add) \ op[c].drop])
    /\ UNCHANGED held

(* The row updateApp writes: what the changes name, the rest as read.      *)
SlipUndefined(c, current) ==
    [host |-> CASE op[c].host = Keep   -> current.host
                [] op[c].host = NoHost -> Keep
                [] OTHER               -> op[c].host,
     env  |-> IF NamesEnv(c) THEN row[c].env ELSE current.env]
SlipMerged(c, current) ==
    [host |-> IF op[c].host = Keep THEN current.host ELSE op[c].host,
     env  |-> IF NamesEnv(c) THEN row[c].env ELSE {}]
Merged(c, current) ==
    [host |-> IF op[c].host = Keep THEN current.host ELSE op[c].host,
     env  |-> IF NamesEnv(c) THEN row[c].env ELSE current.env]

AfterFind(c, write, r) ==
    GotoWith(c, IF r.host = NoHost THEN write ELSE "hostnameOwner", r)

FindApp(c) ==
    /\ Read(c, "findApp")
    /\ LET current == app[op[c].app]
           kind    == op[c].kind
       IN  \/ /\ (kind = "create") # (current = NoRow)   \* AppExistsError, AppNotFoundError
              /\ End(c)
           \/ /\ kind = "create" /\ current = NoRow
              /\ AfterFind(c, "insertApp", [host |-> op[c].host, env |-> op[c].add])
           \/ /\ kind = "set" /\ current # NoRow
              /\ AfterFind(c, "updateApp", Merged(c, current))
           \/ /\ kind = "delete" /\ current # NoRow
              /\ Goto(c, "findRunning")
    /\ UNCHANGED held

HostnameOwner(c) ==
    /\ Read(c, "hostnameOwner")
    /\ LET owners == {b \in AppNames : Exists(b) /\ app[b].host = row[c].host}
       IN  IF op[c].kind = "create"
           THEN IF owners = {} THEN Goto(c, "insertApp") ELSE End(c)
           ELSE IF owners \subseteq {op[c].app} THEN Goto(c, "updateApp") ELSE End(c)
    /\ UNCHANGED held

(* A constraint that fails makes the statement throw. *)
InsertApp(c) ==
    /\ pc[c] = "insertApp"
    /\ LET a == op[c].app
       IN  app' = IF Exists(a) \/ Taken(a, row[c].host) THEN app ELSE [app EXCEPT ![a] = row[c]]
    /\ End(c)
    /\ UNCHANGED <<owner, status, log, seq, held>>

(* An UPDATE of a row that is gone changes nothing and does not throw.     *)
UpdateApp(c) ==
    /\ pc[c] = "updateApp"
    /\ LET a == op[c].app
       IN  app' = IF Exists(a) /\ ~Taken(a, row[c].host) THEN [app EXCEPT ![a] = row[c]] ELSE app
    /\ End(c)
    /\ UNCHANGED <<owner, status, log, seq, held>>

Running(a) == Of(a, {"running"})

FindRunning(c) ==
    /\ Read(c, "findRunning")
    /\ IF Running(op[c].app) = {} THEN Goto(c, "deleteRow") ELSE End(c)
    /\ UNCHANGED held

DeleteRow(c) ==
    /\ pc[c] = "deleteRow"
    /\ app' = [app EXCEPT ![op[c].app] = NoRow]
    /\ Cascade(op[c].app)
    /\ End(c)
    /\ UNCHANGED <<owner, seq, held>>

-----------------------------------------------------------------------------
(* The start of a deploy, up to its first await: the check of the history, *)
(* createDeployment, and the status pulling.  Its three reads of the app   *)
(* only tell whether the app exists; the insert finds that out again.      *)

(* The bound: deploys only start while there are ids for all of them.      *)
IdsLeft ==
    seq + Cardinality({c \in Clients : pc[c] \in {"findInFlight", "insertRow"}}) \in Ids

Deploy(c, a) ==
    /\ "deploy" \in Kinds
    /\ held[c] = NoWork
    /\ IdsLeft
    /\ Begin(c, [NoOp EXCEPT !.kind = "deploy", !.app = a], "findInFlight")
    /\ UNCHANGED held

FindInFlight(c) ==
    /\ Read(c, "findInFlight")
    /\ IF Exists(op[c].app) /\ Of(op[c].app, InProgress) = {} THEN Goto(c, "insertRow") ELSE End(c)
    /\ UNCHANGED held

InsertRow(c) ==
    /\ pc[c] = "insertRow"
    /\ IF Exists(op[c].app)
       THEN /\ owner' = [owner EXCEPT ![seq] = op[c].app]
            /\ status' = [status EXCEPT ![seq] = "pending"]
            /\ seq' = seq + 1
            /\ held' = [held EXCEPT ![c] = [id |-> seq, next |-> {}, mine |-> TRUE]]
            /\ Goto(c, "insertPending")
       ELSE /\ End(c)
            /\ UNCHANGED <<owner, status, seq, held>>
    /\ UNCHANGED <<app, log>>

(* createDeployment returns, or throws because the row is gone; then deploy *)
(* goes on to setDeploymentStatus, or rejects.                             *)
InsertPending(c) ==
    /\ pc[c] = "insertPending"
    /\ LET d == held[c].id
       IN  /\ Record(d, "pending")
           /\ IF HasRow(d)
              THEN /\ op' = [op EXCEPT ![c].kind = "status", ![c].status = "pulling"]
                   /\ pc' = [pc EXCEPT ![c] = "getRow"]
                   /\ UNCHANGED <<row, held>>
              ELSE /\ End(c)
                   /\ held' = [held EXCEPT ![c] = NoWork]
    /\ UNCHANGED <<app, owner, status, seq>>

(* What deploy sets next when setDeploymentStatus returned, and what when  *)
(* it threw: the catch block sets failed, also when it was the failed of   *)
(* the health check (engine.ts:202) that threw.  What the catch block's    *)
(* own attempt throws leaves deploy.                                       *)
Follow(s) ==
    CASE s = "pulling"  -> {"starting", "failed"}
      [] s = "starting" -> {"running", "failed"}
      [] OTHER          -> {}

Proceed(c) ==
    held' = [held EXCEPT ![c] = IF @.mine /\ Follow(op[c].status) # {}
                                THEN [@ EXCEPT !.next = Follow(op[c].status)] ELSE NoWork]

Throw(c) ==
    LET mine == held[c].mine /\ op[c].kind = "status"
    IN  \/ /\ mine
           /\ op[c].status = "failed" => "running" \in held[c].next
           /\ held' = [held EXCEPT ![c].next = {"failed"}]
        \/ /\ mine => op[c].status = "failed"
           /\ held' = [held EXCEPT ![c] = NoWork]

(* Stop, a replacement and reconcile read a row, await, and set its        *)
(* status.  Reconcile fails an open row, if it has an event to tell its    *)
(* age by or if it is running.                                             *)
SlipStuck(d) == status[d] \in InProgress
Stuck(d) == status[d] \in InProgress /\ log[d] # <<>>

Look(c, d) ==
    /\ "deploy" \in Kinds
    /\ pc[c] = "idle" /\ held[c] = NoWork
    /\ \/ /\ status[d] = "running"
          /\ \E s \in Final : held' = [held EXCEPT ![c] = [id |-> d, next |-> {s}, mine |-> FALSE]]
       \/ /\ Stuck(d)
          /\ held' = [held EXCEPT ![c] = [id |-> d, next |-> {"failed"}, mine |-> FALSE]]
    /\ UNCHANGED <<tables, op, pc, row>>

(* setDeploymentStatus. *)
SetDeploymentStatus(c, s) ==
    /\ s \in held[c].next
    /\ Begin(c, [NoOp EXCEPT !.kind = "status", !.status = s], "getRow")
    /\ UNCHANGED held

SlipOpen(d) == HasRow(d)
MayChange(d) == HasRow(d) /\ status[d] \notin Final

GetRow(c) ==
    /\ Read(c, "getRow")
    /\ IF MayChange(held[c].id)
       THEN Goto(c, "updateRow") /\ UNCHANGED held
       ELSE End(c) /\ Throw(c)

UpdateRow(c) ==
    /\ pc[c] = "updateRow"
    /\ LET d == held[c].id
       IN  status' = IF HasRow(d) THEN [status EXCEPT ![d] = op[c].status] ELSE status
    /\ Goto(c, "insertEvent")
    /\ UNCHANGED <<app, owner, log, seq, held>>

InsertEvent(c) ==
    /\ pc[c] = "insertEvent"
    /\ Record(held[c].id, op[c].status)
    /\ IF HasRow(held[c].id) THEN Proceed(c) ELSE Throw(c)
    /\ End(c)
    /\ UNCHANGED <<app, owner, status, seq>>

-----------------------------------------------------------------------------
(* A statement throws: another process holds the lock, for which           *)
(* node:sqlite does not wait, or the disk is full.                         *)
SqlError(c) ==
    /\ "sqlError" \in Faults
    /\ pc[c] # "idle"
    /\ End(c)
    /\ Throw(c)
    /\ UNCHANGED tables

Crash(c) ==
    /\ "crash" \in Faults
    /\ pc[c] # "idle" \/ held[c] # NoWork
    /\ End(c)
    /\ held' = [held EXCEPT ![c] = NoWork]
    /\ UNCHANGED tables

StoreInit ==
    /\ app = [a \in AppNames |-> NoRow]
    /\ owner = [d \in Ids |-> NoApp]
    /\ status = [d \in Ids |-> "none"]
    /\ log = [d \in Ids |-> <<>>]
    /\ seq = 1
    /\ op = [c \in Clients |-> NoOp]
    /\ pc = [c \in Clients |-> "idle"]
    /\ row = [c \in Clients |-> NoAppRow]
    /\ held = [c \in Clients |-> NoWork]

Statement(c) ==
    \/ FindForEnv(c) \/ FindApp(c) \/ HostnameOwner(c) \/ InsertApp(c) \/ UpdateApp(c)
    \/ FindRunning(c) \/ DeleteRow(c)
    \/ FindInFlight(c) \/ InsertRow(c) \/ InsertPending(c)
    \/ GetRow(c) \/ UpdateRow(c) \/ InsertEvent(c)

StoreNext ==
    \E c \in Clients :
        \/ \E a \in AppNames :
              \/ Delete(c, a) \/ Deploy(c, a)
              \/ \E h \in Hosts \union {NoHost}, env \in SUBSET Keys : Create(c, a, h, env)
              \/ \E h \in Hosts \union {NoHost, Keep}, add \in SUBSET Keys, drop \in SUBSET Keys :
                    Set(c, a, h, add, drop)
        \/ \E d \in Ids : Look(c, d)
        \/ \E s \in Statuses : SetDeploymentStatus(c, s)
        \/ Statement(c)
        \/ SqlError(c) \/ Crash(c)

StoreSpec == StoreInit /\ [][StoreNext]_storeVars

(* The crossings that break what the repositories promise: two processes   *)
(* between a check and the write it is for.  Two deploys of an app are     *)
(* both at their INSERT, which checked for one in flight.                  *)
OneInserter ==
    \A c, x \in Clients :
        pc[c] = "insertRow" /\ pc[x] = "insertRow" /\ op[c].app = op[x].app => c = x

(* Two processes are at the UPDATE of the same deployment. *)
OneUpdater ==
    \A c, x \in Clients :
        pc[c] = "updateRow" /\ pc[x] = "updateRow" /\ held[c].id = held[x].id => c = x

(* One is at the DELETE of an app, and another at the UPDATE by which a    *)
(* deployment of it becomes running.                                       *)
DeletesBelow ==
    \A c, x \in Clients :
        pc[c] = "deleteRow" /\ pc[x] = "updateRow" /\ op[x].status = "running" =>
            owner[held[x].id] # op[c].app

(* One has read the app it sets, and another is at a write of that app.    *)
SetsAlone ==
    \A c, x \in Clients :
        /\ op[c].kind = "set" /\ pc[c] \in {"findApp", "hostnameOwner", "updateApp"}
        /\ pc[x] \in {"insertApp", "updateApp", "deleteRow"}
        /\ op[c].app = op[x].app
        => c = x

Uncrossed == OneUpdater /\ DeletesBelow /\ SetsAlone

(* Every interleaving but the last three, with failing statements and      *)
(* kills.                                                                  *)
UncrossedSpec == StoreInit /\ [][StoreNext /\ Uncrossed']_storeVars

-----------------------------------------------------------------------------
(* Properties *)

StoreTypeOK ==
    /\ app \in [AppNames -> AppRows \union {NoRow}]
    /\ owner \in [Ids -> AppNames \union {NoApp}]
    /\ status \in [Ids -> Statuses \union {"none", "deleted"}]
    /\ log \in [Ids -> Seq(Statuses)]
    /\ seq \in 1..(MaxDeployments + 1)
    /\ op \in [Clients -> Ops]
    /\ pc \in [Clients -> Statements]
    /\ row \in [Clients -> AppRows]
    /\ held \in [Clients -> Works]

(* No two apps have the same hostname, whoever creates, renames and        *)
(* deletes at once (spec app-state:95): the checks in createApp and        *)
(* updateApp race, and the UNIQUE column decides.                          *)
HostnamesUnique ==
    \A a, b \in AppNames :
        a # b /\ Exists(a) /\ Exists(b) /\ app[a].host = app[b].host => app[a].host = NoHost

(* No deployment of an app that is gone and no event of a deployment that  *)
(* is gone stays behind, even when the app is deleted between the          *)
(* statements of a deploy (spec app-state:111).                            *)
NoOrphans ==
    \A d \in Ids :
        /\ HasRow(d) => Exists(owner[d])
        /\ log[d] # <<>> => HasRow(d)

(* The history of a deployment begins with pending (spec app-state:131),   *)
(* whoever else fails the deployment between the two inserts.              *)
LogBeginsPending ==
    \A d \in Ids : log[d] # <<>> => Head(log[d]) = "pending"

(* Unless operations cross in one of these ways the repositories keep      *)
(* what DeploymentLife promises, through every other interleaving, failed  *)
(* statements and kills between two statements: this is what DeployEngine  *)
(* takes a stretch of code for.                                            *)
StageOf(d) ==
    IF status[d] \in InProgress THEN "inFlight"
    ELSE IF status[d] \in Final THEN "finished"
    ELSE status[d]

Life == INSTANCE DeploymentLife WITH
            apps <- {a \in AppNames : Exists(a)},
            life <- [d \in Ids |-> StageOf(d)]

StoreImplementsLife == Life!Spec

(* "An update SHALL change only the fields it names" (spec app-state:99).  *)
UpdatesOnlyNamed ==
    [][\A c \in Clients :
        LET a == op[c].app
            old == app[a]
            new == app'[a]
        IN  UpdateApp(c) /\ new # old =>
                /\ op[c].host = Keep => new.host = old.host
                /\ \A k \in Keys \ (op[c].add \union op[c].drop) :
                      k \in new.env <=> k \in old.env]_storeVars

(* "deploy SHALL refuse ... when the app has a deployment in pending,      *)
(* pulling or starting" (spec deployments:86).                             *)
StoreOneInFlight ==
    \A d, e \in Ids :
        owner[d] = owner[e] /\ status[d] \in InProgress /\ status[e] \in InProgress => d = e

(* "A deployment in failed, stopped or replaced SHALL refuse any further   *)
(* status change" (spec app-state:131).                                    *)
FinalStays ==
    [][\A d \in Ids : status[d] \in Final => status'[d] \in {status[d], "deleted"}]_storeVars

(* "Deleting an app SHALL fail ... while any of its deployments has status *)
(* running" (spec app-state:111).                                          *)
RunningNotDeleted ==
    [][\A d \in Ids : status[d] = "running" => status'[d] # "deleted"]_storeVars

(* "The repository SHALL record every status change of a deployment ...    *)
(* including the initial pending" (spec app-state:131).  A row without any *)
(* event has no age: reconcile never finds it stuck, and it blocks every   *)
(* later deploy of the app.                                                *)
InFlightHasEvent ==
    \A d \in Ids :
        status[d] \in InProgress /\ (\A c \in Clients : held[c].id # d) => log[d] # <<>>
=============================================================================
