# A verification project for paas

`paas` (repository `ts-paas`) is a small single-machine platform: a command line tool that deploys
container images as apps through Docker or Podman, routes each app's hostname to its container
through a Caddy it manages, replaces a running deployment by a new one, and repairs its records
after crashes. There is no daemon. Every command is a process of its own that opens the SQLite
state database, talks to the container engine over its socket, and exits; two commands may run at
once, a command may be killed at any point, and the engine may refuse any call. What holds the
system together is therefore how the *rows* of the database and the *containers* of the engine are
kept in step by processes that know nothing of each other. That is what this project models.

Source paths below are relative to `src/src/` unless they begin with `src/`.

## The system

| Component | State | Operations | Talks to |
|---|---|---|---|
| Deployment engine (`deployments/engine.ts`, `health.ts`, `stop.ts`) | none of its own | `deploy`, `checkHealth`, `replacePrevious`, `removePreviousContainer`, `forceRemove`, `stopApp` | state store, container runtime, the caller's `onRunning` hook |
| Reconcile (`deployments/reconcile.ts`, `commands/reconcile.ts`) | the plan of one command | `planReconcile`, `applyReconcile`, `redeployItems` | runtime listing and removal, state store, `deploy`, ingress |
| Apps and deployments (`state/apps.ts`, `state/deployments.ts`) | tables `apps`, `deployments`, `deployment_events` | create, update, delete an app; create a deployment, set its status, read its history | SQLite, one statement at a time |
| Ingress settings (`state/settings.ts`) | table `settings` | `getIngressSettings`, `setIngressSettings` | SQLite, in a write transaction |
| Opening and migrations (`state/db.ts`) | table `schema_migrations` and the schema | `openStore` | SQLite |
| Socket resolution (`runtime/socket.ts`) and command context (`commands/context.ts`) | none | `resolveSocket`, `withStore`, `withEngine` | file system, engine, state store |
| Ingress lifecycle (`ingress/caddy.ts`, `admin.ts`) | the Caddy container and its loaded config | `ingressUp`, `ingressDown`, `syncIngress`, `pushConfig` | runtime, Caddy's admin API, state store |
| Ingress config (`ingress/config.ts`) | none | `desiredRoutes`, building and reading back a config | |
| Docker adapter (`runtime/docker.ts`) | none | the calls of the runtime interface, and the error each answer of the engine becomes | the engine's HTTP API |
| Log stream (`runtime/docker-logs.ts`, `commands/logs.ts`) | bytes of unfinished frames and lines | demux, decode, filter | |
| Commands (`commands/*.ts`, `program.ts`) | a process | one command | all of the above |

How they meet:

- **every command** that needs the engine resolves its socket and pings it, opens the database and brings
  its schema up to date, does its work, and closes the database however it ends.
- **deploy** inserts a row `pending`, moves it to `pulling`, pulls the image, creates the container,
  stores its id with `starting`, starts it, watches its health, moves the row to `running`, awaits
  the `onRunning` hook (for `paas deploy` the hook pushes the routes), and then stops, removes and
  marks `replaced` every other running deployment of the app. A failure before `running` removes
  the container and marks the row `failed`; a hook that rejects leaves both deployments running.
- **stop** stops and removes the container of the newest running deployment and marks it `stopped`.
- **delete** refuses while a deployment runs; otherwise the app's rows go with it.
- **reconcile** lists the containers, inspects each, compares them with the rows, marks rows failed
  whose container is gone or which have been in flight for more than ten minutes, removes the
  containers nobody owns (`--prune`) and deploys again what is down (`--redeploy`).
- **ingress up** stores the settings, inspects Caddy's container by name, creates it, recreates it if
  its ports differ, or starts it, and then sends a config, computed once, until the admin API takes it
  or forty retries are used up. **sync** sends one config, once, if Caddy runs: it is the hook of
  `paas deploy`, and follows a stop and a reconcile. A config replaces the one before it as a whole.
- A row's status is written by a `SELECT` that refuses final rows and an `UPDATE` that follows it,
  each committed by itself.

What is hard here: every await of one command is a place where any other command may act, so what a
command read is old when it uses it; between two SQL statements another process may write; a kill
leaves a row or a container without its counterpart; a reply may be lost after the call took effect;
a container may exit or be restarted while its health is watched; and the hook may take any time.
`PROJECT.json` lists these hazards at the lines where they bite, with the properties that cover them.

## What makes each component correct

- *Deployment engine*: one deployment of an app in flight, as far as two deploys that begin together let it; a
  status only moves forward; a running row knows its container; no container is left behind by a deploy that
  fails; a deploy never takes an app out of service; nobody touches the container of somebody else's deployment
  in flight; a deployment in flight ends.
- *Reconcile*: an undisturbed reconcile brings rows and containers into agreement, and touches
  nothing that is well; a redeploy starts only for an app of which nothing runs that the reconcile has not
  tried to fail; and nothing it does breaks what the deployment engine guarantees.
- *State store*: what the repositories promise of one operation holds of several processes too;
  where it does not (there are several such places), the runs say so, and the theorems which crossings do it.
- *Ingress settings*: the values of one command are stored together or not at all.
- *Ingress lifecycle*: an `ingress up` that succeeds leaves Caddy running with what is stored,
  whatever was there before; one that fails takes away no Caddy that was as stored; and every one ends,
  unless Caddy accepts its config and never answers.
- *Opening*: the schema is that of the first migrations, whole and in order, whatever processes collide or
  die; a command works only on a schema that has what it needs; the newest schema is reached in the end.
- *Docker adapter*: whichever engine answers, the caller gets the error that says what is wrong; a list is
  true of what happened while it was made; that another process was faster is no error; an operation that
  returns has had its effect; a log is returned whole, line by line, from however it was framed.
- *Routes*: a config routes to containers that are up, and an app that is reached through Caddy stays
  reached through every redeploy of it, successful or not.

## The modules

### `DeploymentLife`: the promise

The abstract specification: apps come and go, a deployment is started for an app, becomes running,
finishes for good, or disappears with its app, which takes an app of which none is running. No
containers, processes or calls. That an app has one deployment in flight is no part of it: two deploys
that begin together have two.

### `DeployEngine`: deploy, health, stop

Any number of processes run deploys and stops over one database and one engine. JavaScript runs a stretch of
code between two awaits without interleaving within the process, so an action is one engine call taking effect,
or one stretch of code between two awaits. Only the beginning of `deploy` is finer, since its check and its
insert are what keeps two deploys of an app apart, and no transaction holds them together: `DeployBegin` is the
check, `insert` (with the app in `wants[p]`) the moment before `createDeployment`, `pending` the one before
`pulling` is written. That grain hides from `DeployEngine` what other processes do between the `SELECT` and the
`UPDATE` of `setDeploymentStatus` and of `deleteApp`; `StateStore` has those. `pc[p]` names the await a process
is at: `pull`, `create`, `created`, `start`, `probe`, `window`, `healthy`, `reap`, `reaped` are the awaits of
`deploy`'s `try` block and of `checkHealth`; `forceRemove` and `giveUp` its `catch` block; `hook` the await of
`onRunning`; `stopPrevious`, `removePrevious`, `replaced` the loop of `replacePrevious`; `stop`, `remove`,
`stopped` the calls of `stopApp`.

A container is named after its deployment, so `ctr[d]` is the container made for deployment `d`:
absent, created, running, restarted (running, with a restart since it was started), or exited.
`status[d]` is the row's status, `recorded[d]` whether it has a container id. A *Slip* definition
before another one is that definition after a plausible mistake in the code; no action uses it; it
shows that a property tells the two apart.

What may go wrong is the constant `Faults`: a process killed at an await (`crash`; a kill after a
call took effect and before its answer is the state after the action), an engine call refused
(`callError`; a refused start may have started the container), a refused removal (`removeError`), a
creation whose reply is lost (`lostReply`), a rejecting hook (`hookError`), a statement of the database that
throws because it is busy, before it or when the row is written and its event is not (`storeError`), a container that exits
or is restarted while it is watched (`earlyExit`, `restart`), one that is stopped or removed by
somebody else (`outOfBand`), and a reconcile in another process that fails an open row (`mark`).
The last two are open: at any time, to any container, to any open row. They stand for every other
client of engine and database, reconcile among them.

### `Reconcile`: on the same state

`EXTENDS DeployEngine` and adds processes (`Janitors`) that list, inspect, scan, mark, prune and
redeploy beside processes that deploy and stop. `stale` is the set of rows whose status has not
changed for ten minutes: there is no clock, a row in flight becomes stale at any time, which covers
dead deploys and slow ones. `ran` is the set of rows with a `running` event. `plan[j]` is what a
janitor has seen and decided; it is never refreshed, as in the code. `calm` is history: the janitors
nobody has disturbed since they began. Its write of `failed` may throw: then the item's outcome is `failed`,
the row stays as it was or is failed without an event, and the plan is none the wiser (`unmarked` keeps
which rows these are). `DeployEngine` instantiated with the faults `mark` and
`outOfBand` added is what it is shown to implement, so that those two faults are known to cover it.

### `StateStore`: statement by statement

The repositories at the grain of SQL statements, for processes that create, change, delete and
deploy apps and set statuses. `pc[c]` is the statement a client executes next, `row[c]` the app row
it has read and is going to write, `held[c]` the deployment it works on. The schema is present as
what it enforces: UNIQUE hostnames, foreign keys, ON DELETE CASCADE. Any statement may throw and any
process may be killed between two of them.

What the repositories promise of one operation can be broken by four crossings, of two processes between
a check and the write it is for, and the module names each as what a state without it looks like:
`OneInserter` (no two deploys of an app are both at their INSERT), `OneUpdater` (no two processes at the
UPDATE of one deployment), `DeletesBelow` (none at the DELETE of an app while another is at the UPDATE
that makes a deployment of it running) and `SetsAlone` (none at a write of an app another has read to
change). `UncrossedSpec` is the module without the last three: every other interleaving, kill and failing
statement is in it, and there the repositories implement `DeploymentLife`. That is what `DeployEngine`
takes a stretch of code for.

### `Settings`

`setIngressSettings` read by read and write by write: reading and validation before
`BEGIN IMMEDIATE`, one upsert per value, commit or rollback; and `ingressUp` using what it returned.

### `Ingress`: the Caddy container, on top of `Settings`

`EXTENDS Settings`: `ingressUp` first runs `setIngressSettings` (`pc[c]`, as there; `use` is where it
has returned) and then the calls `at[c]`: `removeOld`, `create`, `startNew`, `cleanup`, `startOld`,
`push`. `done` is the moment before it returns its success. `stop` and `remove` are `ingressDown`,
`sync` and `load` are `syncIngress`. `caddy` is the container of the name `paas-caddy`: who created it
(which stands for its id: only the call that created a container knows its id, all others go by the
name), its state, the ports of its labels, the TLS mode of the config it has loaded (`none` after every
start, since Caddy's image does not resume a pushed config) and whether its admin API answers yet.
`tries` counts the attempts of `pushConfig`. `waiting` is a load that Caddy has accepted and not answered, which
only a connection that breaks ends, since the request has no timeout. `calm` is history: the commands nobody
has disturbed. What may go wrong is `Faults` (of the database, and kills) and `Outages`: a call that is refused
or loses its answer after it had its effect (`Effect`, for every call), a load that is not answered, a cleanup
that is refused, and a Caddy that exits or starts over.

### `Routing`: what Caddy routes to, on top of `DeployEngine`

`EXTENDS DeployEngine`: the hook of a deploy is a push (`push[p]`: `inspect`, `load`, `over`), a push
follows a stop, and any process may push at any time, which is what a reconcile and an `ingress up`
do. `config[p]` is the config on its way, computed when the inspection was answered; `routes` is what
Caddy has loaded, and all of it is lost when Caddy goes. A deploy without a hook happens in a reconcile
only, for an app that is down, so a deploy that has something to replace always has its push. Statements
do not throw here: what that does to rows is `DeployEngine`'s and `Reconcile`'s matter.

### `Startup`: what a command does first

`withEngine` and `withStore` with `resolveSocket` and `openStore`, statement by statement, for processes of
several releases: `Knows[p]` is how many of the `Migrations` p's release has. `tables` and `versions` are
what is committed of the schema and of `schema_migrations`; SQLite has one writer, `lock`, whose
transaction `txn` sees its own statements. `node:sqlite` has no busy timeout here, so `BEGIN IMMEDIATE`
and the first `CREATE TABLE` throw when another process holds the lock. `at[p]` is the version read at the
beginning, plus what p has applied since: the code never reads it again. A set variable is one with a
value `explicitSocket` takes (a `DOCKER_HOST` beginning with `unix://`). `Breaks` is everything that ends a
command between two statements: a kill, a full disk, a file that is busy for a moment. `Write` stands for
the transactions commands make when they have the store, which hold the lock another process needs.

### `LogStream` and `DockerAdapter`: the engine's API

`DockerAdapter` has one action per request an adapter call sends, so that the engine and other clients,
paas processes among them, act between two of them (`Meanwhile`: anything may happen to anything).
`boxes[id]` is the container of an id, by which `list` and `removeLabelled` go; everything else goes by
a name. `pulled` and `things` are the image, the network and the volume. `Answers` is what Docker and
Podman say when something is wrong, as the repository's code and tests have it, and `MapError` what the
caller gets. A request may fail (`RequestFails`), or have its effect and lose its reply (`Replied`), and a sweep
may be refused a network or a volume that a container uses (`SweepRefused`).
`met` and `during` are history: what was there when a call began, and all that was the case at some
moment of it.

`LogStream` is a module of operators. A log is a sequence of lines with streams and times; a line is two
pieces, a head with the timestamp and the rest; `Framings` are all the ways to mix the two streams and to
cut them into frames, `Wires` also those that end early or without a newline. `ReadLogs` is the code:
frames to lines (`Demux`), a stable sort by time, `since`, `tail`. `Sound` and `Complete` are the reference
it is held to. The property `LogsFaithful` of `DockerAdapter` asks it, whenever a log is read, of *every*
log, option and framing up to the bounds rather than of one log in the state: what is read does not depend
on the rest of the state, and TLC evaluates it once.

### MC modules

`MCDeployEngine`, `MCReconcile`, `MCStateStore`, `MCSettings`, `MCIngress`, `MCRouting`, `MCStartup`,
`MCDockerAdapter` define the small sets the configurations use. Processes and apps are interchangeable
in the engine (no action compares them), so the safety runs of the engine and of the store use their
symmetry; the liveness runs do not. In `Reconcile` the two processes have different roles and no
symmetry is used.

## The runs

| Run | Instance | What it shows |
|---|---|---|
| `engine_records` | 2 processes, 1 app, 3 deployments, every fault but those of containers left alone | types, `RunningHasContainer`, `StatusPath`, `HandsOff`, and that the engine implements `DeploymentLife` |
| `engine_containers` | 2 processes, 1 app, 3 deployments, refused calls and hooks, containers that exit, restart or are taken away; fairness | `NoLeak`: every container is of a running row or in the hands of its deploy; `OneInFlightUnlessCrossed`: it takes two deploys between check and insert to have two deployments of an app in flight; `InFlightEnds`: a deployment in flight ends |
| `reconcile_repairs` | a deployer and a janitor, 1 app, 2 deployments; kills, lost replies, failing removals and hooks, statements that throw | `Repairs`, `TouchesOnlyBroken`, `RedeploysOnlyWhenDown`, and `ImplementsEngine` |
| `store_races` | 2 processes, 2 apps, 1 hostname, 1 deployment, statement by statement, failing statements and kills | `HostnamesUnique`, `NoOrphans`, `LogBeginsPending` |
| `store_uncrossed` | 2 processes, 1 app, 1 variable, 2 deployments, statement by statement without three crossings (`UncrossedSpec`), failing statements and kills | `StoreImplementsLife`, `UpdatesOnlyNamed` |
| `ingress_up` | 2 processes, 4 requests (one invalid), 2 attempts per push; failing statements, refused calls, lost and missing answers, kills, a Caddy that exits; fairness | `AllOrNothing`, `UpDelivers`, `UpKeepsCaddy`, `UpEnds` |
| `routing_alone` | 1 process at a time, 2 apps (1 with a hostname), 3 deployments; kills, refused calls and pushes, a Caddy that comes and goes | `NoDowntime`: once served, only a stop ends it; `LoadsOnlyLive`, `StaysReached` |
| `startup` | 3 processes (2 of this release, 1 that knows the first migration only), 2 variables, 1 default socket, 1 death or engine that comes or goes; fairness | `SchemaWhole`, `OpenIsCurrent`, `OldKeepsOut`, `ExplicitIsFinal`, `SchemaReached` |
| `adapter` | 1 client that makes every call, other clients that do anything meanwhile, 2 containers (1 with a TTY), 1 failing request; logs of 3 lines | `RightError`, `ListSandwich`, `RacesAreNoErrors`, `OkMeansDone`, `LogsFaithful` |
| `engine_deploys` | 2 processes, 2 deployments, no fault | `OneInFlight` is **violated** |
| `engine_outage` | 2 processes, 2 deployments, no fault | `NoDowntime` is **violated** |
| `reconcile_prune` | 1 app, 1 janitor pruning beside deploys | `PrunesNoLiveDeployment` is **violated** |

Each run that must hold takes less than four minutes on two cores.

### Why the bounds are enough

Two processes give every pair of interleaved commands; a third process could only add a third writer of the same
rows, and the theorems below cover any number. Three deployments of one app are what it takes to have an old
running deployment, a newer running one (the hook of the first was still waiting, or rejected) and one in
flight, which is what it takes to violate `NoLeak` or `HandsOff`. For `RedeploysOnlyWhenDown` two are enough:
one that the plan has failed and one that runs. The faults of containers are left to `engine_containers`:
`engine_records` is about rows, to which they are one more refused call; and what somebody leaves who takes a
container away behind paas's back, a running row without it, a stop or a replacement leaves as well that is
killed between its calls, so that `reconcile_repairs` has it. The theorems have these faults. Apps interact
through nothing but the id counter, so most runs have one; `routing_alone` has two, so that a replacement or a
config could hit the wrong app, and the store runs have two for the hostname. A bound on ids (`MaxDeployments`)
ends behaviours when it is used up: nothing new starts, processes finish, and apps may still be created and
deleted, so no run stops.

`routing_alone` has one process because two deploys of one app do take it down (`engine_outage`) and two
pushes do cross (`routing_cross`); what it allows to go wrong is everything a process can meet, but
nobody else takes containers away. Its properties except a *lost* row, one whose container a killed or
refused stop has taken: only a reconcile sees that. `ingress_up` has the default ports and one other,
enough for ports that differ, that swap roles and that collide; two attempts stand for forty-one, as
nothing depends on their number but that they end. `store_races` has one deployment: two, statement by
statement, with both apps' operations, are out of reach, and two deployments are what `store_uncrossed` and
`store_deploys` have.

`startup` has the repository's two migrations, which the first release can know one of; three processes
are two that collide and one that is older. One fault is one death at any statement of any process: the
database it leaves is all that is left of it, so more deaths only repeat that (with
two, `MaxFaults = 2`, everything holds as well, in three minutes). In `adapter` one client
is enough, because `Meanwhile` does to the engine whatever another client could, and one failing
request, because a call ends with it and calls share nothing. Two containers are what a list needs to be
disturbed between two inspections, and to have one removed and made again. Three lines of two pieces
make up to six pieces, which can be mixed in twenty ways and cut anywhere; a fourth line adds no new
neighbour. Two milliseconds to a second and three times put lines before, in and after the second that
`since` is rounded down to.

### Fairness

`FairSpec` assumes weak fairness of each process's own steps (`Step(p)`): every engine call and hook
is answered in the end, and a process that is not killed goes on. The first is what the code relies
on (its calls carry no timeouts); the second is the event loop. No command is obliged to be run, and
nothing obliges a fault. `InFlightEnds` is checked without kills and without statements that throw: a deploy
that is killed, or whose last write of `failed` finds the database busy, stays in flight until a reconcile
fails its row, which is what `Repairs` is about. `IngressFairSpec` assumes of the steps of `ingress up` that
the engine answers, and of Caddy nothing: it may never come up, and a load it accepts in silence (`waiting`)
is obliged to nothing. So `UpEnds` says that an `ingress up` ends or waits for such an answer; no more is true
of the code, which has no timeout there (`ingress/admin.ts:90`). The same goes for a deploy whose hook waits
for Caddy: that hooks are answered is an assumption of `InFlightEnds`, which speaks of rows a hook does not hold up.
`FairStartup` assumes weak fairness of the steps of a command that has begun, and strong fairness of
beginning commands that need only the database: users keep running commands. No single open is obliged to
succeed; after the last fault somebody's must: that the schema is reached rests on users who try again.

## What is proved

Every safety and action property of the passing runs is a theorem, for every value of the constants that satisfies
the assumptions of the modules: any number of processes, apps, deployments, releases, clients, log lines,
any set of faults but what the last column names. The proofs are in the modules `*Proofs`, each of which
extends the module it is about. A theorem says what the code does at the grain of its module: those of
`DeployEngine` and of the modules on top of it at the grain of awaits, with the check and the insert of a deploy
apart; those of `StateStore` at the grain of statements. `StatusPath` and `EngineImplementsLife` are therefore no
claims about the single `SELECT` and `UPDATE` of a status, where a late `UPDATE` can take a finished deployment
back (`store_final.cfg`): what holds there, and which crossing ends it, is what the `*Uncrossed` theorems say.

| Theorems | Say that | Needs |
|---|---|---|
| `TypeCorrect`, `RunningHasContainerAlways`, `HandsOffAlways`, `StatusPathAlways` | the engine's invariants and what no step of it does | |
| `OneInFlightUnlessCrossedAlways` | nothing but two deploys of one app between check and insert makes two in flight | (the property says it: `[]OneChecking`) |
| `EngineImplementsLife` | `DeployEngine` implements `DeploymentLife` | |
| `NoLeakWhenClean` | no container is left behind | `Clean` |
| `NoDowntimeUnlessOvertaken` | any number of commands at once keep an app that is served up | `NoMeddling`, `[]OneChecking`, `[]NotOvertaken`, `[]NotStopped` |
| `StoppedMeansDownOneAtATime` | a stop leaves nothing of the app running | `DeploysGoThrough`, `[]OnePerApp` |
| `RejectsAsDocumentedUnlessTakenTwice` | a deploy rejects only as `engine.ts:129` says | `mark`, `storeError` not in `Faults`, `[]Apart` |
| `ReconcileTypeCorrect`, `RepairsAlways`, `TouchesOnlyBrokenAlways`, `RedeploysOnlyWhenDownAlways` | what a reconcile achieves and what it does not touch | |
| `ReconcileImplementsEngine` | deploys, stops and reconciles together are a `DeployEngine` with the faults `mark` and `outOfBand` | |
| `OneInFlightBesideReconciles` | the same of deployments in flight, beside reconciles and their redeploys | (`[]OneChecking`) |
| `PrunesNoLiveOnceStored` | a reconcile removes no container of an open deployment | `[]ListedAreStored`, `[]MarksHold` |
| `RedeploysOnlyFailedUnlessEnded` | only an app whose latest deployment failed is deployed again | `[]NobodyElseEnds`, `[]MarksHold` |
| `StoreTypeCorrect`, `HostnamesUniqueAlways`, `NoOrphansAlways`, `LogBeginsPendingAlways` | the tables, statement by statement | |
| `StoreImplementsLifeUncrossed` | the repositories implement `DeploymentLife` | `[]OneUpdater`, `[]DeletesBelow` |
| `UpdatesOnlyNamedUncrossed` | an update changes what it names | `[]SetsAlone` |
| `StoreOneInFlightUncrossed` | an app has one deployment in flight | `[]OneInserter`, `[]OneUpdater` |
| `FinalStaysUncrossed` | what is finished stays so | `[]OneUpdater` |
| `RunningNotDeletedUncrossed` | no app is deleted while a deployment of it runs | `[]DeletesBelow` |
| `InFlightHasEventUncut` | nothing in flight that nobody works on is without an age | `[][InsertsWhole]_storeVars` |
| `IngressTypeCorrect`, `StoredTogether`, `UpDeliversAlways`, `UpKeepsCaddyAlways` | settings and Caddy's container | |
| `StoredPortsDifferOneWriting` | the two stored ports differ | `[]OneWriting` |
| `PortsSettleOneUp` | when nobody is at work, Caddy has the ports that are stored | `UpsGoThrough`, `[]OneUp` |
| `RoutingTypeCorrect`, `RoutingImplementsEngine` | pushes and Caddy leave the engine what it is | |
| `NoDowntimeOneProcess`, `LoadsOnlyLiveOneProcess`, `StaysReachedOneProcess` | an app that is served stays so, and reached | `OneProcess` |
| `StaysReachedUnlessCrossed` | any number of commands at once keep an app that is reached so | `NoMeddling`, `[]OneChecking`, `[]NotOvertaken`, `[]NotStopped`, `[][FreshLoads]_allVars` |
| `StartupTypeCorrect`, `SchemaWholeAlways`, `OpenIsCurrentAlways`, `OldKeepsOutAlways`, `ExplicitIsFinalAlways` | opening the database, finding the socket | |
| `OldNeverOnNewerUnlessOutrun` | a release does not work on a newer schema | `[]NotOutrun` |
| `AdapterTypeCorrect`, `RightErrorAlways`, `ListSandwichAlways`, `RacesAreNoErrorsAlways`, `OkMeansDoneAlways` | the calls of the adapter | |
| `ReadsRight`, `LogsFaithfulAlways` | what a read of a log returns | `~WideChars` |

The hypotheses are ones the properties cannot do without:

- `Clean` (`Faults` has no `crash`, `removeError`, `lostReply` or `mark`) leaves out exactly what makes a
  container a reconcile's business: a process that dies, a removal that is refused, a creation nobody
  hears of, and a row that somebody else fails under its deploy. Refused calls, hooks that reject, statements
  that throw and containers that exit, restart or are taken away remain.
- The four crossings of the store, each of which a run of its own shows to break the property that is proved
  without it: `OneInserter` (`store_deploys.cfg`), `OneUpdater` (`store_final.cfg`), `DeletesBelow`
  (`store_delete.cfg`), `SetsAlone` (`store_update.cfg`). A theorem has only those that matter to it: one in flight
  needs `OneUpdater` too, since a late write can make a failed deployment `pulling` again. Everything else
  crosses freely, statement by statement, and any statement may throw and any process die at any place.
- `[][InsertsWhole]_storeVars` for `InFlightHasEvent`: nobody dies and nothing throws at one statement, the insert of
  the `pending` event after that of its row (`store_event.cfg`). At every other statement they may.
- `[]OneChecking`: no two deploys of one app are between `engine.ts:141` and the insert at once, as in
  `engine_deploys`. Deploys of different apps are, and deploys of one app everywhere else.
- `OneProcess`: one command at a time. With two, `NoDowntime` is violated in `engine_outage` and
  `StaysReached` in `routing_cross.cfg`, without any fault. Kills, refused calls and pushes, containers that
  exit and a Caddy that comes and goes remain, for any number of apps and deployments.
- `NoMeddling` (`Faults` has no `outOfBand`, no `mark` and no `storeError`), and of the behaviour
  `[]NotOvertaken`, that no newer deployment is promoted while a hook runs, and `[]NotStopped`, that no stop
  takes down what a deploy that has not finished has promoted. Somebody who removes containers behind paas's
  back ends an app, one whose row somebody fails may be replaced by one that is down, and a stop or a
  replacement whose write throws leaves a row that says `running` and has no container. Either of the last two
  ends an app by `replacePrevious` (`engine.ts:100`): TLC finds it down when either is dropped. Deploys still
  start while others wait, fail anywhere, are refused and are killed: so the outage of `engine_outage` is the
  one that deploys bring about by themselves, unless they cross at the insert.
- `[][FreshLoads]_allVars` for `StaysReached` with many commands, beside those three: what Caddy takes and
  changes anything is what the rows ask for at that moment, so pushes do not cross. TLC finds requests lost
  when any of `FreshLoads`, `NotOvertaken` and `NotStopped` is dropped (two processes, three deployments, every
  fault of `routing_alone`). Stale configs may be on their
  way and be refused or killed, pushes overlap, Caddy come and go.
- `DeploysGoThrough` (`Faults` has no `hookError`, no `crash` and no `storeError`) and `[]OnePerApp`, that no
  two commands are at work on one app, for `StoppedMeansDown`, which says of `stop.ts:32` what its output says.
  Drop any of them and there is a second deployment running: behind a hook that rejected (`engine_stop.cfg`),
  behind a deploy killed or thrown out before it replaced anything, or beside a deploy at work. Commands on
  other apps cross as they like, and reconciles close rows anywhere.
- For `RejectsOnlyAsDocumented`, that nobody fails a row under its deploy, that no statement throws, and
  `[]Apart`: what one command is about to replace no other is taking down. Each is a way for `setDeploymentStatus` to
  throw where the comment at `engine.ts:129` has nothing: in the catch block, on a row that a reconcile has
  failed (`engine_rejects.cfg`), at any write, and in `replacePrevious`, on a row that another deploy or a stop
  finished first (`engine.ts:118`). Two deploys of one app may be at work, and be killed, refused and deleted under.
- `[]ListedAreStored`, that when a reconcile reads the rows, the open ones among the containers it has listed
  have stored their ids. A container between its `create` and `engine.ts:171` breaks it, and that is what
  `reconcile_prune` is about. Deploys, stops and other reconciles cross as they like, and every fault is allowed.
- `[]NobodyElseEnds`, that what a reconcile has found without its container, and not failed yet, nobody else
  is about to write off as stopped or replaced. `reconcile_stopped.cfg` is the behaviour it leaves out; other
  deployments and apps are stopped, replaced and deleted at any time.
- `[]MarksHold`, for these two: what a reconcile has tried to mark failed is closed, or its write threw and somebody
  else has closed it. A `setDeploymentStatus` that throws is reported and the plan goes on as if it had not
  (`reconcile.ts:180`, `commands/reconcile.ts:183`): the container of a row still open may go, and its app be deployed.
- `[]NotOutrun`, that nobody commits a migration which a process that has read the version, and is still at
  work, does not know. Without it, `startup_old.cfg`. Newer releases still run before, after and beside.
- `[]OneWriting`: no two commands are between the read of the settings and the commit. Without it two commands
  store one port twice (`settings_race.cfg`); any number of commands may fail and be killed.
- `[]OneUp`: no two processes bring ingress up at once, though any number take it down and sync it (without it,
  `ingress_race.cfg`), and `UpsGoThrough`: no kill and no refused call cuts an up off between what it stores
  and Caddy. With either of them TLC finds Caddy with ports that are not stored, with one up at a time as well.
  Statements still fail, a config is accepted in silence, and Caddy exits and starts over.
- `~WideChars`: no frame ends within a character. With it `LogsFaithful` is violated (`adapter_wide.cfg`).
  Frames may still split and join lines and end early, and a stream may lack its last newline.

The assumptions on constants are named in the modules that declare them, evaluated in every run, and say
no more than what the constants are: bounds are natural numbers, `NoApp`, `NoRow` and the like are apart
from what they stand beside, faults and operations are of the kinds that exist (in `Routing` without
`storeError`, `RoutingAssumption`), clients are finitely many
(`StoreAssumption`), releases know a first part of the migrations, no table is made by two of them and
none is `schema_migrations` (`StartupAssumption`: so it is in `state/db.ts`).

### The arguments

None of the properties is inductive. What each of them needs is what a process *knows* at each await or
statement although others have moved since; the invariants say that, and TLC has checked every one of them
as an invariant of the run of its module before it was proved.

*Engine.* A row's status is written by a process that last looked at it before an await, so the invariant
`IInv` says which statuses the row of a process can have at each await: `InStep` gives
for every `pc` the statuses the row can have (where the process left it, or closed by somebody else, or
`running` without its event, `Unlogged`);
`Alone` that no two processes are in the try block for the same deployment; `HasRun` that what is left
to be replaced was running; `Busy` and `Numbered` that ids are handed out once, in order; `Stored` that
from `starting` on the container id is in the row, which gives `RunningHasContainer`. The proof that a
step keeps `IInv` goes by the kinds of step a process makes (`OneStepKeeps`: the process moves and at most
its own row changes; `CloseRow`: somebody finishes a row; `InsertKeeps`: a row is inserted; `DeleteMove`:
an app goes), and `StepOne` shows that every step of deploy and stop but the insert is of the first kind.
`StatusPath`, `HandsOff` and the refinement follow from `IInv` by a case per action. `OneInFlight` is no
consequence of it: `Cleared` adds that who is about to insert for an app has none in flight there, which only
another insert for the same app could change, and that is what `OneChecking` keeps out. `CInv` adds for `NoLeak` where a
process has made sure of its container: `Gone` and `GoneFirst`, that a row is only closed when its
container is absent, and `Untouched`, that what one process takes down no other is still deploying.

*Downtime.* `RunMove` says what a step of a process may do to rows that run and containers that are up: a
row that stops running has been taken down by the process, and a container goes down only with its row. `DInv`
adds to `IInv` what makes that harmless: `RunningOlder`, that what runs of an app is older than what is in
flight, so that a promotion makes the newest; and `Succeeding(p)`, that from its promotion until it is
done a deployment runs and is up, and what is left to be replaced is older than it. `NotOvertaken` is what
`RunningOlder` cannot give for a deployment already promoted. `Outlives` then says that whatever step takes down
what serves an app, one as new or newer serves it after the step, unless the step is a stop's.

*Stop.* `Lone` says where a second running deployment of an app can be: only while a deploy that has been
promoted is at work, where from its hook on (`Replaces`) there is one besides its own, and from the reading of
the rows on that one is what it is about to replace. `Fewer` covers the steps after which nothing runs that
did not before; the rest begin or end a replacement. `OnePerApp` puts a stop outside all of them.

*Rejections.* The catch block's last write throws on a row that is finished, and so do the writes of
`replacePrevious`. `Unfinished` says that the row of a process in its try block is not finished, and `StillRuns`
that what is left to replace runs, which with `Apart` only its own process can end. What is in flight is
finished only by the process that deploys it, in its last step (`FinishesOwn`), for replacing and stopping take
rows that run; and `Alone` keeps any other process out of the try block.

*Reconcile.* `RInv` keeps `IInv` and says two things of the plan of a janitor. `Broken`: what it has found
broken has been a row, and is closed once it has been marked, whoever disturbs. `Calm`: as long as nobody
disturbs, what it has listed (`Listing`, `Listed2`), sorted (`SortedRows`), has left to mark (`Marking`) and to
prune (`Pruning`) is still so, phase by phase; the last phase of it (`Mended`) is `Repairs`.
`ReconcileImplementsEngine` is a case per action: marking is the engine's `ReconcileMark`, pruning its removal
behind paas's back, a redeploy a `DeployBegin`, and all the rest stutters. `Broken` has the rows whose mark
threw as an exception (`unmarked`), which `RedeploysOnlyWhenDown` names and `MarksHold` rules out. The two
theorems with a hypothesis on the behaviour hold for reconciles that *are* disturbed, so they carry what no
disturbance can end. `Sees`: a listed container's row, which is there because a container is made for a row
(`Made`), is closed, or kept, or about to be failed, or of an app still to be read; so what is left to prune is
closed for good. `Own` and `LostFailed`: a janitor deploys nothing before it has failed what it lost, and what
it has found without its container still runs until then or has failed, which makes the plan true.

*Store.* `Tables` is about the database: rows beyond the last id are empty, and a row without an event
(`Silent`) is still pending. `Client` is about what one process holds; the hard part is that a silent row
is in nobody's hands but its creator's, which makes the first event `pending` although anybody may
fail any row. `Room` counts the processes that may still insert against the bound. `DInv` adds, whatever crosses,
`Drives` with `Apart`, how far a deploy can have taken its deployment and that nobody else takes it anywhere
but to its end; `StatusWrites` reads off it the three ways a status changes. What a process has read is still
true when it writes only without a crossing, and there is one invariant for each: `AllUnfinished` (a status about
to be written is not final) from `OneUpdater`, `AllNoneRun` (nothing runs of an app about to be deleted) from
`DeletesBelow`, `AllNoneInFlight` (nothing is in flight of an app about to get a deployment) from `OneInserter` and
`OneUpdater`, `AllKnowApps` (the row read, with its variables, is the one in the table) from `SetsAlone`. From
these follow the statements about statuses and updates, and the refinement by a case per kind of statement.
`Created` says that who inserted a row without an event is about to record one.

*Ingress.* `UpDelivers` is about the last state of a command and says nothing of the way there. The invariant
adds what each process knows at each call: `Written`, that an open transaction holds the table with the values
upserted so far, which makes the commit store a valid row; and for a process nobody has disturbed `Promise`,
that the settings it works with are the stored ones merged with its request, and after the commit the stored
ones, and that from the start of the container on its ports are those. That the two ports differ is no invariant
of what is stored, but it is one of what a process works with, since it validated them together. `OthersKeep`
carries the invariant for everybody but the process that moves: whoever changes the database or Caddy disturbs
the others. What remains is one lemma per call. `UpKeepsCaddy` reads off `Promise` that a container with the
stored ports is never one that an undisturbed up takes for different: it goes straight to its start or its push.
The two theorems with a hypothesis on the behaviour carry a part of `Promise` for commands that *are* disturbed:
`Validated`, that the commit will make of the table what was validated, which only another commit can end; and
`AtWork`, that a container that is there has the stored ports, and is the up's own after its `create`, since
downs, syncs and Caddy itself make no container.

*Routing.* `RoutingIsEngine` shows that every step is one of the engine or none, so `IInv` is there for
free. `RouteInv` adds `Standing(p)`: from the promotion on, the deployment of a process runs, is up and is
the newest that runs, and what is taken down is an older one of the same app; `Pushing(p)`: a config on
its way is what the rows say now, and when the hook's push is over Caddy routes to the new deployment or
has no route for the app, so that what is taken down is not what Caddy routes to; and `RoutesStand`: a
route leads to what was running, and if that is up it still runs. The three theorems read off `RunMove`.

With many processes most of this is false, and `AheadInv` has what is left when pushes do not cross. `DInv` comes
from the engine; `Ahead(p)` says that from the end of the hook's push until the previous deployments are gone
Caddy routes to the deployment of `p` or a newer one, or has no route, which `DesiredLeads` reads off the rows;
`Cleared`, that nobody brings up what a stop has removed. What both invariants share is `Agree` and `Unrouted`,
from which `StepStaysReached` follows for both.

*Startup.* `Schema` names the version that `SchemaWhole` only says to exist. `InStep` says what a process
knows at each statement: the version it has read may be old, but what was applied stays applied, and who
holds the lock sees in its transaction the database and its own statements, up to the migration it is
in. `OthersKeep` carries it for everybody but the process that moves. `ExplicitIsFinal` is about
`Resolve`, a function of the environment and the sockets; `LeastNatural` finds the first that is set.
`StillKnown`, that a process which has read the version still knows it, is what the check gives and only a
`Commit` can end; `CommitVersion` says that a commit makes its own migration the version, which is
where `NotOutrun` comes in.

*Adapter.* `Answered`: a result is of the class its cause calls for, and there is one only when the call is
over. `Visiting`: of the containers a list or a sweep met when it began, those that still stand are done
with or still to visit, and none stands once a sweep has gone on to the network.

*Logs.* `ReadRight` is about constants, and its proof an induction over data, which has to do without the
library's induction rule: `UpTo` is the rule for a set of numbers, from `LeastNatural`, and `Recursion`
says that a recursive function has the values its definition gives. The decoder is followed from piece to
piece. The pieces that came are a set D that has a beginning of each stream (`Closed`); `Shown` says that
after them the entries are the lines both of whose pieces are in D, once each, and the buffers hold the
heads whose rest is still to come. `PieceShows`, `FrameShows` and `DecodedShows` carry it over a piece, a
frame and all frames; `CutDelivers`, `AllDelivers` and `UnendedFlushes` are the three ways for the data to
end, and come to `Delivers`. `RankedEnumerates` is what a sort owes (used for frames, for entries by time
and for what a filter keeps), and `SoundOut` and `CompleteOut` read `Sound` and `Complete` off `Delivers`:
a line that the engine's whole second or its tail left out is one nobody asked for.

Only model-checked: `InFlightEnds`, `UpEnds` and `SchemaReached`, since liveness under fairness is out of
the prover's reach. The violations are TLC's, those of the three runs and those of the
table below.

## Where the code and its documents part

The three runs expected to find a violation:

- `engine_deploys`. `deploy` looks for a deployment in flight (`deployments/engine.ts:141`) and inserts its own
  row in a later statement, with no transaction around them: of two processes that both pass the check, both
  deploy. Spec `deployments`:86 and `openspec/queue.md:168` have the second one refused.
- `engine_outage`. `replacePrevious` takes down every other running deployment, newer ones included
  (`deployments/engine.ts:100`). A deploy that waits in its hook no longer counts as in progress, so
  a second deploy may become running; each then removes the other's container, and the app is down
  although both deploys succeeded. `src/README.md:3`: "redeploys without downtime".
- `reconcile_prune`. A container that was created while the engine was being listed and whose id is
  not stored yet is an orphan to `planReconcile` (`deployments/reconcile.ts:135`), and `--prune`
  removes it under its deploy.

Further statements of the documents that the models violate are kept as definitions with a
configuration each, to be run by hand (`tlc -config <cfg> <module>` ends with a counterexample):

| Configuration | Module | Statement | What happens |
|---|---|---|---|
| `engine_rejects.cfg` | `MCDeployEngine` | `RejectsOnlyAsDocumented` (comment at `deployments/engine.ts:129`) | a reconcile fails the row of a slow deploy whose call is then refused: the catch block's own write throws |
| `engine_stop.cfg` | `MCDeployEngine` | `StoppedMeansDown` (`commands/stop.ts:36`) | after a hook that rejected, stop takes down one of two running deployments |
| `reconcile_stopped.cfg` | `MCReconcile` | `RedeploysOnlyFailed` (spec `cli`:350) | an app stopped by its user between plan and apply is deployed again |
| `reconcile_docs.cfg` | `MCReconcile` | `RedeploysOnlyThisRun` (`docs/manual-testing.md:144`) | `--redeploy` also deploys what an earlier run failed |
| `store_deploys.cfg` | `MCStateStore` | `StoreOneInFlight` (spec `deployments`:86) | the check for a deployment in flight and the insert are separate statements (`deployments/engine.ts:141`): two processes both pass the check |
| `store_update.cfg` | `MCStateStore` | `UpdatesOnlyNamed` (spec `app-state`:99) | a second `apps set` writes back columns it read before the first |
| `store_final.cfg` | `MCStateStore` | `FinalStays` (spec `app-state`:131) | the finality check and the update are separate statements |
| `store_delete.cfg` | `MCStateStore` | `RunningNotDeleted` (spec `app-state`:111) | a deployment becomes running between check and delete |
| `store_event.cfg` | `MCStateStore` | `InFlightHasEvent` (spec `app-state`:131) | killed between the two inserts: a row without an event is never found stuck |
| `settings_race.cfg` | `MCSettings` | `StoredPortsDiffer` (spec `app-state`:173) | two processes validate before either writes |
| `routing_cross.cfg` | `MCRouting` | `StaysReached` (`src/README.md:3`, "routes each app's hostname to it through a managed Caddy, redeploys without downtime") | a config is computed from the rows and loaded an await later, whole (`ingress/caddy.ts:236`): of two commands that push at once, the older config may arrive last, and the app just deployed has no route until the next push |
| `startup_collide.cfg` | `MCStartup` | `OneGetsThrough` (spec `app-state`:26, the database is created when it does not exist) | two processes open a new database: one has committed the first migration, the other takes the lock between its two, finds the table there and throws, and the first finds the lock taken and throws |
| `startup_old.cfg` | `MCStartup` | `OldNeverOnNewer` (spec `app-state`:26) | the version is read once: an older release goes on while a newer one migrates |
| `adapter_finished.cfg` | `MCDockerAdapter` | `FinishedOnlyExited` (spec `container-runtime`:46, "`null` unless `exited`") | the engine's last finish time is passed on for a container that runs again (`runtime/docker.ts:139`) |
| `adapter_wide.cfg` | `MCDockerAdapter` | `LogsFaithful` (spec `container-runtime`:196) | every frame is decoded by itself (`runtime/docker-logs.ts:71`): a character that two frames share is garbled |
| `ingress_race.cfg` | `MCIngress` | `PortsSettle` (spec `ingress`:30) | of two `ingress up`, one stores its ports last and the other creates Caddy last: it has ports that are not stored |

`settings_alone.cfg` and `ingress_alone.cfg` show that with one process `StoredPortsDiffer` and
`PortsSettle` hold (the theorems ask for less), and `engine_live.cfg` checks `InFlightEnds` of two
deployments with every fault but kills and statements that throw. (Specs are the files `src/openspec/specs/<name>/spec.md`.)

## What is not modelled

- *`routesFromConfig` and the JSON of a config*: reading and writing a document, without state.
- *Read-only commands*: `status` and `doctor` read and print; the drift warning of `status` is a reconcile
  that ends after its plan.
- *Names, formats, wording, argument parsing, exit codes and the engine's HTTP encoding*, among them the
  body of a creation and the patterns that find an address in a message: no property here depends on
  them; a command's end is a process going idle.
- *Clock*: the health window ends at some time, and a row is or is not ten minutes old.
- *Test doubles* (`runtime/fake.ts`, `ingress/fake-admin.ts`): they are not part of the program.
- *Image and port columns* of an app: written the same way as the environment, without its merge.
- *Two engine calls of one process at once*: the code awaits each.

## Plan

1. Ingress on deployments: `Ingress` and `Routing` meet in Caddy's container, so that a config's routes
   and the restarts of Caddy are in one model.
