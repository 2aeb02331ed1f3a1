------------------------------ MODULE Routing ------------------------------
(***************************************************************************)
(* What Caddy routes to, beside the deployments (ingress/config.ts, the    *)
(* pushes of ingress/caddy.ts and the commands that make them): the        *)
(* onRunning hook of `paas deploy` is a push, `paas stop` pushes after the *)
(* app is stopped, and `reconcile` and `ingress up` push at any time.  A   *)
(* config is computed from the rows and loaded an await later.             *)
(*                                                                         *)
(* How Caddy's container comes and goes is Ingress; here it runs or not.   *)
(* What a statement of the database that throws does to a command is       *)
(* DeployEngine's matter; here none does.                                  *)
(***************************************************************************)
EXTENDS DeployEngine

CONSTANTS Hosted   \* the apps that have a hostname

ASSUME RoutingAssumption ==
    /\ Hosted \subseteq AppNames
    /\ "storeError" \notin Faults

VARIABLES
    caddyRuns,  \* paas-caddy runs, and its admin API answers
    routes,     \* routes[a]: the deployment Caddy sends requests for a to, or 0
    push,       \* push[p]: the await of syncIngress or pushConfig p is at
    config      \* config[p]: the routes of the config p is sending

routingVars == <<caddyRuns, routes, push, config>>
allVars     == <<apps, owner, status, recorded, seq, ctr, pc, work, todo, wants,
                 caddyRuns, routes, push, config>>

NoRoutes == [a \in AppNames |-> 0]

(* desiredRoutes: the newest running deployment of each app with a         *)
(* hostname.                                                               *)
NewestOf(S) == IF S = {} THEN 0 ELSE CHOOSE d \in S : Newest(d, S)

SlipOldestRoute(a) == LET S == Rows(a, {"running"}) IN IF S = {} THEN 0 ELSE CHOOSE d \in S : \A e \in S : d <= e
SlipLatestRoute(a) == NewestOf(Rows(a, Statuses))
RouteOf(a) == NewestOf(Rows(a, {"running"}))

DesiredRoutes == [a \in AppNames |-> IF a \in apps \intersect Hosted THEN RouteOf(a) ELSE 0]

SetPush(p, where) == push' = [push EXCEPT ![p] = where]

-----------------------------------------------------------------------------
(* A command, up to the push it makes. *)

Begin(p, a) ==
    /\ push[p] = "none"
    /\ DeployBegin(p, a) \/ StopBegin(p, a)
    /\ UNCHANGED routingVars

(* The hook begins with its push; a stop that has thrown makes none.  Only *)
(* a reconcile deploys without a hook, and only an app that is down (see   *)
(* RedeploysOnlyWhenDown in Reconcile).                                    *)
Hooked(p) ==
    pc[p] = "healthy" /\ Open(work[p]) /\ PreviousOf(work[p]) # {} => pc'[p] = "hook"

EngineStep(p) ==
    /\ push[p] = "none"
    /\ pc[p] # "hook"
    /\ Step(p)
    /\ Hooked(p)
    /\ SetPush(p, IF pc'[p] = "hook" \/ (pc[p] = "stopped" /\ Open(work[p])) THEN "inspect" ELSE "none")
    /\ UNCHANGED <<caddyRuns, routes, config>>

(* The push at the end of a reconcile, and the one of `ingress up`, whose  *)
(* retries make the load late.                                             *)
PushBegin(p) ==
    /\ pc[p] = "idle"
    /\ push[p] = "none"
    /\ SetPush(p, "inspect")
    /\ UNCHANGED <<vars, caddyRuns, routes, config>>

-----------------------------------------------------------------------------
(* syncIngress.  The rows are read when the inspection has been answered.  *)
Inspect(p) ==
    /\ push[p] = "inspect"
    /\ \/ ~caddyRuns /\ SetPush(p, "over") /\ UNCHANGED config
       \/ caddyRuns /\ SetPush(p, "load") /\ config' = [config EXCEPT ![p] = DesiredRoutes]
    /\ UNCHANGED <<vars, caddyRuns, routes>>

Load(p) ==
    /\ push[p] = "load"
    /\ caddyRuns
    /\ routes' = config[p]
    /\ SetPush(p, "over")
    /\ config' = [config EXCEPT ![p] = NoRoutes]
    /\ UNCHANGED <<vars, caddyRuns>>

(* The hook returns, and the deploy goes on to the previous deployments.   *)
PushOver(p) ==
    /\ push[p] = "over"
    /\ IF pc[p] = "hook" THEN HookDone(p) ELSE UNCHANGED vars
    /\ SetPush(p, "none")
    /\ UNCHANGED <<caddyRuns, routes, config>>

(* The load is refused, or its answer is lost.  In a hook that rejects the *)
(* deploy; after a stop, or by itself, it is reported and nothing more.    *)
PushFails(p) ==
    /\ "hookError" \in Faults
    /\ push[p] \in {"inspect", "load"}
    /\ IF pc[p] = "hook" THEN HookFails(p) ELSE UNCHANGED vars
    /\ SetPush(p, "none")
    /\ config' = [config EXCEPT ![p] = NoRoutes]
    /\ \/ UNCHANGED routes
       \/ push[p] = "load" /\ caddyRuns /\ routes' = config[p]
    /\ UNCHANGED caddyRuns

-----------------------------------------------------------------------------
Kill(p) ==
    /\ "crash" \in Faults
    /\ pc[p] # "idle" \/ push[p] # "none"
    /\ IF pc[p] # "idle" THEN Crash(p) ELSE UNCHANGED vars
    /\ SetPush(p, "none")
    /\ config' = [config EXCEPT ![p] = NoRoutes]
    /\ UNCHANGED <<caddyRuns, routes>>

(* Caddy starts without any route, and loses them when it stops. *)
CaddyComesOrGoes ==
    /\ caddyRuns' = ~caddyRuns
    /\ routes' = NoRoutes
    /\ UNCHANGED <<vars, push, config>>

RoutingInit ==
    /\ Init
    /\ caddyRuns = FALSE
    /\ routes = NoRoutes
    /\ push = [p \in Procs |-> "none"]
    /\ config = [p \in Procs |-> NoRoutes]

(* Nobody but paas takes a container away here; that is Reconcile's matter. *)
World ==
    \/ \E a \in AppNames : CreateApp(a) \/ DeleteApp(a)
    \/ \E p \in Procs : Misbehave(p)

RoutingNext ==
    \/ \E p \in Procs :
        \/ \E a \in AppNames : Begin(p, a)
        \/ EngineStep(p) \/ PushBegin(p)
        \/ Inspect(p) \/ Load(p) \/ PushOver(p) \/ PushFails(p) \/ Kill(p)
    \/ World /\ UNCHANGED routingVars
    \/ CaddyComesOrGoes

RoutingSpec == RoutingInit /\ [][RoutingNext]_allVars

-----------------------------------------------------------------------------
(* Properties *)

RoutingTypeOK ==
    /\ TypeOK
    /\ caddyRuns \in BOOLEAN
    /\ routes \in [AppNames -> Ids \union {0}]
    /\ push \in [Procs -> {"none", "inspect", "load", "over"}]
    /\ config \in [Procs -> [AppNames -> Ids \union {0}]]
    /\ \A p \in Procs : pc[p] = "hook" => push[p] # "none"

(* A row that runs without its container: a stop was refused or killed     *)
(* half way.  Nothing but a reconcile sees that.                           *)
Lost(d) == status[d] = "running" /\ ~Up(d)

(* Every config Caddy takes routes only to containers that are up at that  *)
(* moment, or to a lost one (spec cli:310).                                *)
LoadsOnlyLive ==
    [][\A a \in AppNames :
        routes'[a] # routes[a] /\ routes'[a] # 0 => Up(routes'[a]) \/ Lost(routes'[a])]_allVars

(* Once requests for an app reach a container that is up, no deploy ends   *)
(* that, whether it succeeds, fails or is killed: only a stop of it, Caddy *)
(* going away, or a push that finds a newer deployment lost (README.md:    *)
(* redeploys without downtime).                                            *)
Reached(a) == routes[a] # 0 /\ Up(routes[a])

StaysReached ==
    [][\A a \in AppNames :
        Reached(a) /\ ~Reached(a)' =>
            \/ ~caddyRuns'
            \/ \E p \in Procs : Stops(p, a)
            \/ routes'[a] > routes[a] /\ Lost(routes'[a])]_allVars
=============================================================================
