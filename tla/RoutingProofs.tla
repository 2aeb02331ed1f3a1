--------------------------- MODULE RoutingProofs ---------------------------
(***************************************************************************)
(* Proofs about Routing.  That its steps are steps of the engine, and its  *)
(* types, hold for any number of processes; that nothing interrupts the    *)
(* requests of an app is a promise about one command at a time, proved of  *)
(* one process, whatever fails, and then of many whose pushes do not cross.*)
(***************************************************************************)
EXTENDS Routing, DeployEngineProofs, WellFoundedInduction

USE DEF Ids

-----------------------------------------------------------------------------
(* The largest of some deployments. *)

LEMMA LeastNatural ==
    ASSUME NEW S, S \subseteq Nat, S # {}
    PROVE  \E m \in S : \A n \in S : m <= n
<1>1. PICK m \in S : \A n \in S : <<n, m>> \notin OpToRel(<, Nat)
  BY WFMin, NatLessThanWellFounded, Zenon
<1>2. \A n \in S : ~(n < m) BY <1>1, Zenon DEF OpToRel
<1>3. m \in Nat /\ \A n \in S : n \in Nat OBVIOUS
<1> HIDE <1>1
<1> QED BY <1>2, <1>3

(* desiredRoutes finds the newest of an app's deployments if it has one.   *)
LEMMA NewestOfIs ==
    ASSUME NEW S \in SUBSET Ids
    PROVE  \/ S = {} /\ NewestOf(S) = 0
           \/ NewestOf(S) \in S /\ \A e \in S : e <= NewestOf(S)
<1>1. CASE S = {} BY <1>1 DEF NewestOf
<1>2. CASE S # {}
  <2> DEFINE T == {MaxDeployments - d : d \in S}
  <2>1. MaxDeployments \in Nat BY EngineAssumption
  <2>2. \A d \in S : d \in Nat /\ d <= MaxDeployments BY <2>1
  <2>3. \A d \in S : MaxDeployments - d \in Nat BY <2>1, <2>2
  <2>4. T \subseteq Nat /\ T # {} BY <1>2, <2>3
  <2>5. PICK m \in T : \A n \in T : m <= n BY <2>4, LeastNatural
  <2>6. PICK d \in S : m = MaxDeployments - d BY <2>5
  <2>7. ASSUME NEW e \in S PROVE e <= d
    <3>1. MaxDeployments - d <= MaxDeployments - e BY <2>5, <2>6
    <3>2. d \in Nat /\ e \in Nat BY <2>2
    <3> HIDE DEF T
    <3> QED BY <2>1, <3>1, <3>2
  <2>8. Newest(d, S) BY <2>7 DEF Newest
  <2> QED BY <1>2, <2>8 DEF NewestOf, Newest
<1> QED BY <1>1, <1>2

LEMMA RouteOfIs ==
    ASSUME NEW a \in AppNames
    PROVE  \/ Rows(a, {"running"}) = {} /\ RouteOf(a) = 0
           \/ /\ RouteOf(a) \in Rows(a, {"running"})
              /\ \A e \in Rows(a, {"running"}) : e <= RouteOf(a)
<1>1. Rows(a, {"running"}) \in SUBSET Ids BY DEF Rows
<1> QED BY <1>1, NewestOfIs DEF RouteOf

LEMMA DesiredType == DesiredRoutes \in [AppNames -> Ids \union {0}]
<1>1. \A a \in AppNames : RouteOf(a) \in Ids \union {0} BY RouteOfIs DEF Rows
<1> QED BY <1>1 DEF DesiredRoutes

LEMMA NoRoutesType == NoRoutes \in [AppNames -> Ids \union {0}]
BY DEF NoRoutes

-----------------------------------------------------------------------------
(* Every step beside Caddy is a step of the engine or none. *)

LEMMA RoutingIsEngine ==
    ASSUME [RoutingNext]_allVars
    PROVE  [Next]_vars
<1>1. ASSUME NEW p \in Procs,
             \/ PushBegin(p) \/ Inspect(p) \/ Load(p) \/ CaddyComesOrGoes
      PROVE  UNCHANGED vars
  BY <1>1 DEF PushBegin, Inspect, Load, CaddyComesOrGoes
<1>2. ASSUME NEW p \in Procs, PushOver(p) \/ PushFails(p) \/ EngineStep(p)
      PROVE  Step(p) \/ UNCHANGED vars
  BY <1>2 DEF PushOver, PushFails, EngineStep, Step
<1>3. ASSUME NEW p \in Procs, Kill(p) PROVE Crash(p) \/ UNCHANGED vars
  BY <1>3 DEF Kill
<1>4. ASSUME NEW p \in Procs, NEW a \in AppNames, Begin(p, a)
      PROVE  DeployBegin(p, a) \/ StopBegin(p, a)
  BY <1>4 DEF Begin
<1>5. CASE World BY <1>5 DEF World, Next
<1>6. CASE UNCHANGED allVars BY <1>6 DEF allVars, vars
<1>7. CASE CaddyComesOrGoes BY <1>7 DEF CaddyComesOrGoes
<1> QED BY <1>1, <1>2, <1>3, <1>4, <1>5, <1>6, <1>7 DEF RoutingNext, Next

(* Whatever Caddy, the pushes and the hooks that wait for them do, the     *)
(* engine behaves as it does alone: what is proved of it holds here too.   *)
THEOREM RoutingImplementsEngine == RoutingSpec => Spec
<1>1. RoutingInit => Init BY DEF RoutingInit
<1>2. [RoutingNext]_allVars => [Next]_vars BY RoutingIsEngine
<1> QED BY <1>1, <1>2, PTL DEF RoutingSpec, Spec

LEMMA AlwaysIInv == RoutingSpec => []IInv
BY RoutingImplementsEngine, Invariant, PTL

-----------------------------------------------------------------------------
(* The types. *)

PushPlaces == {"none", "inspect", "load", "over"}

LEMMA SetPushType ==
    ASSUME push \in [Procs -> PushPlaces], NEW p \in Procs, NEW where \in PushPlaces, SetPush(p, where)
    PROVE  /\ push' \in [Procs -> PushPlaces]
           /\ push'[p] = where
           /\ \A q \in Procs : q # p => push'[q] = push[q]
BY DEF SetPush

(* Who is in a hook is in its push. *)
LEMMA InHook ==
    ASSUME IInv, RoutingTypeOK, [RoutingNext]_allVars, NEW q \in Procs, pc'[q] = "hook"
    PROVE  push'[q] # "none"
<1>t. TypeOK /\ push \in [Procs -> PushPlaces] BY DEF IInv, RoutingTypeOK, PushPlaces
<1>h. pc[q] = "hook" => push[q] # "none" BY DEF RoutingTypeOK
<1>1. ASSUME NEW p \in Procs, Step(p), p # q PROVE pc'[q] = pc[q]
  BY <1>1, StepOne, InsertRow DEF OneStep, Others, IInv
<1>2. ASSUME NEW p \in Procs, EngineStep(p) PROVE push'[q] # "none"
  <2>1. SetPush(p, IF pc'[p] = "hook" \/ (pc[p] = "stopped" /\ Open(work[p])) THEN "inspect" ELSE "none")
    BY <1>2 DEF EngineStep
  <2>2. CASE p = q
    <3>1. SetPush(q, "inspect") BY <2>1, <2>2
    <3> QED BY <3>1, <1>t, SetPushType DEF PushPlaces
  <2>3. CASE p # q
    <3>1. pc'[q] = pc[q] BY <2>3, <1>1, <1>2 DEF EngineStep
    <3>2. push'[q] = push[q] BY <2>1, <2>3, <1>t DEF SetPush
    <3> QED BY <3>1, <3>2, <1>h
  <2> QED BY <2>2, <2>3
<1>3. ASSUME NEW p \in Procs, PushOver(p) \/ PushFails(p) PROVE push'[q] # "none"
  <2>1. SetPush(p, "none") BY <1>3 DEF PushOver, PushFails
  <2>2. CASE pc[p] = "hook"
    <3>1. HookDone(p) \/ HookFails(p) BY <1>3, <2>2 DEF PushOver, PushFails
    <3>2. pc'[p] # "hook" BY <3>1, <1>t DEF HookDone, HookFails, StartReplacing, Return, TypeOK
    <3>3. pc'[q] = pc[q] BY <3>1, <3>2, <1>1 DEF Step
    <3> QED BY <2>1, <3>2, <3>3, <1>h, <1>t DEF SetPush
  <2>3. CASE pc[p] # "hook"
    <3>1. pc' = pc BY <1>3, <2>3 DEF PushOver, PushFails, vars
    <3> QED BY <2>1, <2>3, <3>1, <1>h, <1>t DEF SetPush
  <2> QED BY <2>2, <2>3
<1>4. ASSUME NEW p \in Procs, Kill(p) PROVE push'[q] # "none"
  <2>1. pc'[p] = "idle" /\ (p # q => pc'[q] = pc[q])
    BY <1>4, <1>t DEF Kill, Crash, Return, TypeOK, vars
  <2> QED BY <1>4, <2>1, <1>h, <1>t DEF Kill, SetPush
<1>5. ASSUME NEW p \in Procs, NEW a \in AppNames, Begin(p, a) PROVE push'[q] # "none"
  <2>1. push' = push BY <1>5 DEF Begin, routingVars
  <2>2. pc'[p] # "hook" /\ (p # q => pc'[q] = pc[q])
    BY <1>5, <1>t DEF Begin, DeployBegin, StopBegin, TypeOK
  <2> QED BY <2>1, <2>2, <1>h
<1>6. ASSUME NEW p \in Procs, PushBegin(p) \/ Inspect(p) \/ Load(p) PROVE push'[q] # "none"
  <2>1. pc' = pc BY <1>6 DEF PushBegin, Inspect, Load, vars
  <2> QED BY <1>6, <2>1, <1>h, <1>t DEF PushBegin, Inspect, Load, SetPush
<1>7. ASSUME (World /\ UNCHANGED routingVars) \/ CaddyComesOrGoes \/ UNCHANGED allVars
      PROVE  push'[q] # "none"
  <2>1. push' = push /\ pc' = pc
    BY <1>7 DEF World, CreateApp, DeleteApp, Misbehave, procVars, routingVars,
                CaddyComesOrGoes, vars, allVars
  <2> QED BY <2>1, <1>h
<1> QED BY <1>2, <1>3, <1>4, <1>5, <1>6, <1>7 DEF RoutingNext

LEMMA NextRoutingType ==
    ASSUME IInv, RoutingTypeOK, [RoutingNext]_allVars
    PROVE  RoutingTypeOK'
<1>t. /\ caddyRuns \in BOOLEAN
      /\ routes \in [AppNames -> Ids \union {0}]
      /\ push \in [Procs -> PushPlaces]
      /\ config \in [Procs -> [AppNames -> Ids \union {0}]]
  BY DEF RoutingTypeOK, PushPlaces
<1>1. TypeOK' BY RoutingIsEngine, NextType DEF IInv
<1>2. caddyRuns' \in BOOLEAN
  BY <1>t DEF RoutingNext, Begin, EngineStep, PushBegin, Inspect, Load, PushOver, PushFails, Kill,
              CaddyComesOrGoes, routingVars, allVars
<1>3. routes' \in [AppNames -> Ids \union {0}]
  BY <1>t, NoRoutesType
     DEF RoutingNext, Begin, EngineStep, PushBegin, Inspect, Load, PushOver, PushFails, Kill,
         CaddyComesOrGoes, routingVars, allVars
<1>4. config' \in [Procs -> [AppNames -> Ids \union {0}]]
  BY <1>t, NoRoutesType, DesiredType
     DEF RoutingNext, Begin, EngineStep, PushBegin, Inspect, Load, PushOver, PushFails, Kill,
         CaddyComesOrGoes, routingVars, allVars
<1>5. push' \in [Procs -> PushPlaces]
  <2>1. \/ push' = push
        \/ \E p \in Procs, where \in PushPlaces : SetPush(p, where)
    BY DEF RoutingNext, Begin, EngineStep, PushBegin, Inspect, Load, PushOver, PushFails, Kill,
           CaddyComesOrGoes, routingVars, allVars, PushPlaces
  <2> QED BY <2>1, <1>t, SetPushType
<1>6. \A q \in Procs : pc'[q] = "hook" => push'[q] # "none" BY InHook
<1> QED BY <1>1, <1>2, <1>3, <1>4, <1>5, <1>6 DEF RoutingTypeOK, PushPlaces

LEMMA InitRoutingType == RoutingInit => RoutingTypeOK
<1> SUFFICES ASSUME RoutingInit PROVE RoutingTypeOK
  OBVIOUS
<1>1. TypeOK BY InitType DEF RoutingInit
<1>2. /\ caddyRuns = FALSE /\ routes = NoRoutes
      /\ push = [p \in Procs |-> "none"] /\ config = [p \in Procs |-> NoRoutes]
  BY DEF RoutingInit
<1>3. pc = [p \in Procs |-> "idle"] BY DEF RoutingInit, Init
<1> QED BY <1>1, <1>2, <1>3, NoRoutesType DEF RoutingTypeOK

(* Every variable keeps its type, and a hook is always in its push.        *)
THEOREM RoutingTypeCorrect == RoutingSpec => []RoutingTypeOK
<1>1. IInv /\ RoutingTypeOK /\ [RoutingNext]_allVars => RoutingTypeOK' BY NextRoutingType
<1> QED BY <1>1, InitRoutingType, AlwaysIInv, PTL DEF RoutingSpec

-----------------------------------------------------------------------------
(* Where one process keeps the app it deploys. *)

OneProcess == \A p, q \in Procs : p = q

(* What is in progress or running belongs to an app that exists. *)
Owned ==
    \A d \in Ids : status[d] \in InProgress \union {"running"} => owner[d] \in apps

(* Until its command is over, the deployment of a process is the newest    *)
(* that runs or will; it is up before anything else is taken down, and     *)
(* what is taken down is an older one of the same app.                     *)
Standing(p) ==
    /\ pc[p] = "healthy" => Up(work[p])
    /\ pc[p] \in {"hook"} \union Replacing => status[work[p]] = "running" /\ Up(work[p])
    /\ pc[p] \in InTry \union {"hook"} \union Replacing =>
          \A d \in Ids : status[d] = "running" => d <= work[p]
    /\ \A d \in todo[p] : pc[p] \in Replacing /\ owner[d] = owner[work[p]] /\ d # work[p]
    /\ pc[p] = "stopped" => ctr[work[p]] = "absent"

(* Caddy routes to what was running, and what is up of that still is.      *)
RoutesStand ==
    /\ ~caddyRuns => routes = NoRoutes
    /\ \A a \in AppNames : routes[a] # 0 =>
          /\ a \in Hosted
          /\ owner[routes[a]] = a
          /\ status[routes[a]] \in {"running"} \union Closed
          /\ Up(routes[a]) => status[routes[a]] = "running"

(* A config under way is what the rows say; and when the previous ones go, *)
(* Caddy routes to the new one or has no route for the app.                *)
Pushing(p) ==
    /\ push[p] # "none" => pc[p] \in {"idle", "hook"}
    /\ push[p] = "load" => config[p] = DesiredRoutes
    /\ pc[p] \in InTry => \A a \in AppNames : routes[a] # work[p]
    /\ pc[p] \in Replacing \/ (pc[p] = "hook" /\ push[p] = "over") =>
          routes[owner[work[p]]] \in {0, work[p]}

RouteInv ==
    /\ IInv /\ RoutingTypeOK /\ Owned /\ RoutesStand
    /\ \A p \in Procs : Standing(p) /\ Pushing(p)

(* What one process and many have in common: Caddy routes to nothing that  *)
(* is still being tried, and nothing Caddy routes to is being replaced.    *)
Agree ==
    /\ IInv /\ RoutingTypeOK /\ Owned /\ RoutesStand
    /\ \A p \in Procs : pc[p] \in InTry => \A a \in AppNames : routes[a] # work[p]

Unrouted(p) ==
    /\ \A a \in AppNames : routes[a] # 0 => routes[a] \notin todo[p]
    /\ pc[p] = "stopped" => ~Up(work[p])

LEMMA RouteAgrees ==
    ASSUME RouteInv
    PROVE  Agree /\ \A p \in Procs : Unrouted(p)
<1>1. Agree BY DEF RouteInv, Agree, Pushing
<1>2. ASSUME NEW p \in Procs, NEW a \in AppNames, routes[a] # 0, routes[a] \in todo[p] PROVE FALSE
  <2>1. pc[p] \in Replacing /\ owner[work[p]] = a /\ routes[a] # work[p]
    BY <1>2 DEF RouteInv, Standing, RoutesStand
  <2> QED BY <1>2, <2>1 DEF RouteInv, Pushing
<1>3. \A p \in Procs : pc[p] = "stopped" => ~Up(work[p]) BY DEF RouteInv, Standing, Up
<1> QED BY <1>1, <1>2, <1>3 DEF Unrouted
-----------------------------------------------------------------------------
(* A process goes on standing on its deployment. *)

LEMMA NewestStays ==
    ASSUME IInv, NEW p \in Procs, Standing(p), RunMove(p), work'[p] = work[p],
           pc[p] \in InTry \union {"hook"} \union Replacing
    PROVE  \A d \in Ids : status'[d] = "running" => d <= work'[p]
<1>1. AtRow(p) BY DEF AtRow, InTry, Bare, Holding, Catching, Replacing
<1>2. work[p] \in Nat BY <1>1 DEF IInv, Busy
<1> QED BY <1>2 DEF Standing, RunMove

(* As long as it tries, it takes nothing else down. *)
LEMMA TryStands ==
    ASSUME IInv, NEW p \in Procs, Standing(p), Step(p), ~Insert(p), RunMove(p), pc[p] \in InTry,
           pc'[p] \in InTry \union {"idle"}, pc'[p] = "healthy" => Up(work[p])', todo'[p] \subseteq todo[p]
    PROVE  Standing(p)'
<1>1. pc[p] \notin Replacing \union {"hook", "stopped"} /\ pc'[p] \notin Replacing \union {"hook", "stopped"}
  BY DEF InTry, Bare, Holding, Catching, Replacing
<1>2. pc'[p] # "idle" => work'[p] = work[p] BY StepOne DEF OneStep, Onwards
<1>3. todo'[p] = {} BY <1>1 DEF Standing
<1>4. pc'[p] \in InTry => \A d \in Ids : status'[d] = "running" => d <= work'[p]
  BY <1>2, NewestStays DEF InTry, Bare, Holding, Catching
<1>5. pc'[p] = "healthy" => Up(work[p])' OBVIOUS
<1> QED BY <1>1, <1>3, <1>4, <1>5 DEF Standing

LEMMA TryingStands ==
    ASSUME IInv, NEW p \in Procs, Standing(p),
           \/ SetPulling(p) \/ Pulled(p) \/ Created(p) \/ RecordStarting(p) \/ Started(p) \/ Probe(p)
           \/ Verdict(p) \/ Reap(p) \/ Reaped(p) \/ NotFound(p) \/ CallFails(p) \/ ForceRemove(p)
           \/ GiveUp(p)
    PROVE  Standing(p)'
<1> USE DEF Goto, Return, TypeOK
<1>1. pc[p] \in InTry
  BY DEF SetPulling, Pulled, Created, RecordStarting, Started, Probe, Verdict, Reap, Reaped, NotFound, CallFails,
         ForceRemove, GiveUp, InTry, Bare, Holding, Catching
<1>0. Step(p) /\ ~Insert(p) BY <1>1 DEF Step, Insert, InTry, Bare, Holding, Catching
<1>t. TypeOK /\ RunMove(p) BY <1>0, StepRuns, RoutingAssumption DEF IInv
<1>2. CASE Verdict(p)
  <2>1. pc'[p] \in {"healthy", "reap"} /\ todo' = todo /\ work' = work
    BY <1>2, <1>t DEF Verdict
  <2>2. pc'[p] = "healthy" => Up(work[p])' BY <1>2, <1>t, <2>1 DEF Verdict, Steady, Up
  <2>3. pc'[p] \in InTry \union {"idle"} BY <2>1 DEF InTry, Holding
  <2> QED BY <1>1, <1>0, <1>t, <2>1, <2>2, <2>3, TryStands
<1>3. CASE \/ SetPulling(p) \/ Pulled(p) \/ Created(p) \/ RecordStarting(p) \/ Started(p) \/ Probe(p)
           \/ Reap(p) \/ NotFound(p) \/ CallFails(p) \/ ForceRemove(p)
  <2>1. pc'[p] \in InTry \ {"healthy"}
    BY <1>3, <1>t
       DEF SetPulling, Pulled, Created, RecordStarting, Started, Probe, Reap, NotFound, CallFails,
           ForceRemove, CatchAt, InTry, Bare, Holding, Catching
  <2>2. todo' = todo
    BY <1>3 DEF SetPulling, Pulled, Created, RecordStarting, Started, Probe, Reap, NotFound, CallFails,
                ForceRemove
  <2> QED BY <1>1, <1>0, <1>t, <2>1, <2>2, TryStands
<1>4. CASE Reaped(p) \/ GiveUp(p)
  <2>1. pc'[p] \in {"idle", "forceRemove"} /\ todo'[p] \subseteq todo[p]
    BY <1>4, <1>t DEF Reaped, GiveUp, CatchAt, Holding
  <2>2. pc'[p] \in InTry \union {"idle"} /\ pc'[p] # "healthy" BY <2>1 DEF InTry, Catching
  <2> QED BY <1>1, <1>0, <1>t, <2>1, <2>2, TryStands
<1> QED BY <1>2, <1>3, <1>4

(* A process that returns has nothing to stand on. *)
LEMMA IdleStands ==
    ASSUME TypeOK, NEW p \in Procs, Return(p)
    PROVE  Standing(p)'
<1>1. pc'[p] = "idle" /\ todo'[p] = {} BY DEF Return, TypeOK
<1> QED BY <1>1 DEF Standing, InTry, Bare, Holding, Catching, Replacing

LEMMA PromoteStands ==
    ASSUME IInv, NEW p \in Procs, Standing(p), Promote(p), Hooked(p)
    PROVE  Standing(p)'
<1>1. pc[p] = "healthy" /\ ctr' = ctr /\ pc[p] \in InTry BY DEF Promote, InTry, Holding
<1>0. Step(p) /\ ~Insert(p) BY <1>1 DEF Step, Insert
<1>t. TypeOK /\ RunMove(p) BY <1>0, StepRuns, RoutingAssumption DEF IInv
<1>2. CASE ~Open(work[p])
  <2>1. Goto(p, "forceRemove")
    BY <1>2 DEF Promote, CatchAt, Holding
  <2>2. pc'[p] = "forceRemove" /\ todo' = todo BY <2>1, <1>t DEF Goto, TypeOK
  <2> QED BY <1>0, <1>1, <1>t, <2>2, TryStands DEF InTry, Catching
<1>3. CASE Open(work[p])
  <2>1. work[p] \in Ids /\ status'[work[p]] = "running"
    BY <1>1, <1>3, <1>t DEF Promote, SetStatus, IInv, Busy, AtRow, TypeOK
  <2>2. CASE Goto(p, "hook")
    <3>1. pc'[p] = "hook" /\ work' = work /\ todo' = todo BY <2>2, <1>t DEF Goto, TypeOK
    <3>2. Up(work[p])' BY <1>1, <3>1 DEF Standing, Up
    <3>3. todo'[p] = {} BY <1>1, <3>1 DEF Standing, Replacing
    <3>4. \A d \in Ids : status'[d] = "running" => d <= work'[p]
      BY <1>1, <1>t, <3>1, NewestStays
    <3> QED BY <2>1, <3>1, <3>2, <3>3, <3>4 DEF Standing
  <2>3. CASE StartReplacing(p, PreviousOf(work[p]))
    <3>1. PreviousOf(work[p]) = {}
      BY <1>1, <1>3, <1>t, <2>3 DEF Hooked, StartReplacing, Return, TypeOK
    <3>2. Return(p) BY <2>3, <3>1 DEF StartReplacing
    <3> QED BY <1>t, <3>2, IdleStands
  <2> QED BY <1>3, <2>2, <2>3 DEF Promote
<1> QED BY <1>2, <1>3

LEMMA HookStands ==
    ASSUME IInv, NEW p \in Procs, Standing(p), HookDone(p) \/ HookFails(p)
    PROVE  Standing(p)'
<1>t. TypeOK BY DEF IInv
<1>1. CASE Return(p) BY <1>1, <1>t, IdleStands
<1>2. CASE HookDone(p) /\ ~Return(p)
  <2>1. /\ pc[p] = "hook" /\ status' = status /\ owner' = owner /\ ctr' = ctr
        /\ pc' = [pc EXCEPT ![p] = "stopPrevious"] /\ work' = work
        /\ todo' = [todo EXCEPT ![p] = PreviousOf(work[p])]
    BY <1>2 DEF HookDone, StartReplacing, rows
  <2>2. pc'[p] = "stopPrevious" /\ todo'[p] = PreviousOf(work[p]) BY <2>1, <1>t DEF TypeOK
  <2>3. \A d \in PreviousOf(work[p]) : owner[d] = owner[work[p]] /\ d # work[p]
    BY DEF PreviousOf, Rows
  <2>4. /\ status[work[p]] = "running" /\ Up(work[p])
        /\ \A d \in Ids : status[d] = "running" => d <= work[p]
    BY <2>1 DEF Standing
  <2>5. pc'[p] \in Replacing BY <2>2 DEF Replacing
  <2> QED BY <2>1, <2>2, <2>3, <2>4, <2>5 DEF Standing, Up
<1> QED BY <1>1, <1>2 DEF HookFails

(* While the previous ones go, the new one stays. *)
LEMMA ReplacingStands ==
    ASSUME IInv, NEW p \in Procs, Standing(p), StopPrevious(p) \/ RemovePrevious(p) \/ Replaced(p)
    PROVE  Standing(p)'
<1>1. pc[p] \in Replacing /\ AtRow(p)
  BY DEF StopPrevious, RemovePrevious, Replaced, Replacing, AtRow
<1>0. Step(p) /\ ~Insert(p) BY <1>1 DEF Step, Insert, AtRow
<1>t. TypeOK /\ RunMove(p) BY <1>0, StepRuns, RoutingAssumption DEF IInv
<1>2. CASE Return(p) BY <1>2, <1>t, IdleStands
<1>3. CASE ~Return(p)
  <2>1. pc'[p] \in Replacing /\ work' = work /\ todo'[p] \subseteq todo[p]
    BY <1>3, <1>t
       DEF StopPrevious, RemovePrevious, Replaced, StartReplacing, Goto, Replacing, TypeOK
  <2>2. work[p] \in Ids BY <1>1 DEF IInv, Busy
  <2>3. work[p] \notin todo[p] BY DEF Standing
  <2>4. pc[p] \notin InTry \union Stopping \union {"stopped"}
    BY <1>1 DEF InTry, Bare, Holding, Catching, Replacing, Stopping
  <2>5. status'[work[p]] = "running" /\ Up(work[p])'
    BY <1>1, <1>t, <2>1, <2>2, <2>3, <2>4 DEF Standing, RunMove
  <2>6. \A d \in todo'[p] : owner'[d] = owner'[work[p]] /\ d # work[p]
    BY <1>t, <2>1 DEF Standing, RunMove
  <2>7. \A d \in Ids : status'[d] = "running" => d <= work'[p]
    BY <1>1, <1>t, <2>1, NewestStays
  <2>8. pc'[p] \notin {"healthy", "stopped"} BY <2>1 DEF Replacing
  <2> QED BY <2>1, <2>5, <2>6, <2>7, <2>8 DEF Standing
<1> QED BY <1>2, <1>3

LEMMA StoppingStands ==
    ASSUME IInv, NEW p \in Procs, Standing(p), StopContainer(p) \/ RemoveContainer(p) \/ Stopped(p)
    PROVE  Standing(p)'
<1>t. TypeOK BY DEF IInv
<1>1. CASE Return(p) BY <1>1, <1>t, IdleStands
<1>2. CASE ~Return(p)
  <2>1. /\ pc'[p] \in {"remove", "stopped"} /\ todo' = todo /\ work' = work
        /\ pc[p] \in {"stop", "remove"}
    BY <1>2, <1>t DEF StopContainer, RemoveContainer, Stopped, Goto, TypeOK
  <2>2. work[p] \in Ids BY <2>1 DEF IInv, Busy, AtRow
  <2>3. pc'[p] = "stopped" => ctr'[work[p]] = "absent"
    BY <1>2, <1>t, <2>1, <2>2 DEF StopContainer, RemoveContainer, Stopped, Goto, SetContainer, TypeOK
  <2>4. todo'[p] = {} BY <2>1 DEF Standing, Replacing
  <2>5. pc'[p] \notin InTry \union {"healthy", "hook"} \union Replacing
    BY <2>1 DEF InTry, Bare, Holding, Catching, Replacing
  <2> QED BY <2>1, <2>3, <2>4, <2>5 DEF Standing
<1> QED BY <1>1, <1>2

(* A row that is new, and changes nothing of what runs.                    *)
LEMMA InsertRuns ==
    ASSUME IInv, Owned, NEW p \in Procs, Insert(p)
    PROVE  /\ seq \in Ids /\ status[seq] = "none" /\ UNCHANGED <<apps, ctr>>
           /\ \A d \in Ids : d # seq => owner'[d] = owner[d] /\ status'[d] = status[d]
           /\ status'[seq] # "running"
           /\ \A d \in Ids : status'[d] = "running" <=> status[d] = "running"
           /\ Owned'
<1>1. /\ seq \in Ids /\ UNCHANGED <<apps, ctr>> /\ wants[p] \in apps /\ status[seq] = "none"
      /\ \A d \in Ids : status'[d] = IF d = seq THEN "pending" ELSE status[d]
      /\ \A d \in Ids : owner'[d] = IF d = seq THEN wants[p] ELSE owner[d]
  BY InsertRow
<1>2. status[seq] = "none" BY <1>1
<1>3. \A d \in Ids : d # seq => owner'[d] = owner[d] /\ status'[d] = status[d] BY <1>1
<1>4. owner'[seq] = wants[p] /\ status'[seq] = "pending" BY <1>1
<1>5. Owned' BY <1>1, <1>3, <1>4 DEF Owned
<1>6. \A d \in Ids : status'[d] = "running" <=> status[d] = "running"
  <2> TAKE d \in Ids
  <2>1. CASE d = seq BY <2>1, <1>2, <1>4
  <2>2. CASE d # seq BY <2>2, <1>3
  <2> QED BY <2>1, <2>2
<1> QED BY <1>1, <1>2, <1>3, <1>4, <1>5, <1>6

LEMMA InsertUnrouted ==
    ASSUME Agree, NEW p \in Procs, Insert(p)
    PROVE  \A b \in AppNames : routes[b] # seq
<1>i. IInv /\ Owned /\ RoutesStand /\ RoutingTypeOK BY DEF Agree
<1>1. seq \in Ids /\ status[seq] = "none" BY <1>i, InsertRuns
<1> SUFFICES ASSUME NEW b \in AppNames, routes[b] = seq PROVE FALSE
  OBVIOUS
<1>2. routes[b] # 0 BY <1>1
<1> QED BY <1>i, <1>1, <1>2 DEF RoutesStand, Closed, Final

LEMMA InsertRoutes ==
    ASSUME Agree, NEW p \in Procs, Insert(p), UNCHANGED <<caddyRuns, routes>>
    PROVE  RoutesStand'
<1>i. IInv /\ Owned /\ RoutesStand /\ RoutingTypeOK BY DEF Agree
<1>1. UNCHANGED ctr /\ \A d \in Ids : d # seq => owner'[d] = owner[d] /\ status'[d] = status[d]
  BY <1>i, InsertRuns
<1>2. ASSUME NEW b \in AppNames, routes[b] # 0
      PROVE  routes[b] \in Ids /\ owner'[routes[b]] = owner[routes[b]] /\ status'[routes[b]] = status[routes[b]]
  BY <1>i, <1>1, <1>2, InsertUnrouted DEF RoutingTypeOK
<1> QED BY <1>i, <1>1, <1>2 DEF RoutesStand, Up

(* The process of the new row goes on with it, newer than all that runs.   *)
LEMMA InsertGoes ==
    ASSUME IInv, NEW p \in Procs, Insert(p)
    PROVE  /\ pc'[p] = "pending" /\ work'[p] = seq /\ todo'[p] = todo[p]
           /\ pc[p] = "insert"
           /\ \A d \in Ids : status[d] = "running" => d <= seq
<1>t. TypeOK BY DEF IInv
<1>1. /\ pc' = [pc EXCEPT ![p] = "pending"] /\ work' = [work EXCEPT ![p] = seq] /\ todo' = todo
      /\ pc[p] = "insert"
  BY RoutingAssumption DEF Insert
<1>2. \A d \in Ids : status[d] = "running" => d <= seq
  <2> SUFFICES ASSUME NEW d \in Ids, status[d] = "running" PROVE d <= seq
    OBVIOUS
  <2>1. ~(d >= seq) BY DEF IInv, Numbered
  <2>2. d \in Nat /\ seq \in Nat BY <1>t, EngineAssumption DEF TypeOK
  <2> QED BY <2>1, <2>2
<1> QED BY <1>1, <1>2, <1>t DEF TypeOK

LEMMA InsertStands ==
    ASSUME IInv, Owned, NEW p \in Procs, Standing(p), Insert(p)
    PROVE  Standing(p)'
<1>1. /\ pc'[p] = "pending" /\ work'[p] = seq /\ todo'[p] = todo[p] /\ pc[p] = "insert"
      /\ \A d \in Ids : status[d] = "running" => d <= seq
  BY InsertGoes
<1>2. \A d \in Ids : status'[d] = "running" <=> status[d] = "running" BY InsertRuns
<1>3. todo'[p] = {} BY <1>1 DEF Standing, Replacing
<1> QED BY <1>1, <1>2, <1>3 DEF Standing, Replacing

LEMMA NoWriteFails == \A p \in Procs : ~WriteFails(p)
BY RoutingAssumption DEF WriteFails

LEMMA StepStands ==
    ASSUME IInv, Owned, NEW p \in Procs, Standing(p), Step(p), Hooked(p)
    PROVE  Standing(p)'
<1>1. ~WriteFails(p) BY NoWriteFails
<1>2. CASE NotInserted(p) BY <1>2, IdleStands DEF NotInserted, IInv
<1> QED BY <1>1, <1>2, InsertStands, TryingStands, PromoteStands, HookStands, ReplacingStands, StoppingStands
        DEF Step

-----------------------------------------------------------------------------
(* The rows of a step of the engine, and what Caddy routes to.             *)

LEMMA StepOwned ==
    ASSUME IInv, Owned, NEW p \in Procs, Step(p)
    PROVE  Owned'
<1>0. CASE Insert(p) BY <1>0, InsertRuns
<1> SUFFICES ASSUME ~Insert(p) PROVE Owned'
  BY <1>0
<1>1. UNCHANGED <<apps, owner>> /\ \A d \in Ids : RowMove(p, d) BY StepOne DEF OneStep
<1>2. \A d \in Ids : status'[d] \in InProgress \union {"running"} => status[d] \in InProgress \union {"running"}
  BY <1>1 DEF RowMove, InProgress, Final
<1> QED BY <1>1, <1>2 DEF Owned

(* Where requests for an app go when they reach a container.               *)
LEMMA ReachedRuns ==
    ASSUME RoutingTypeOK, RoutesStand, NEW a \in AppNames, Reached(a)
    PROVE  /\ routes[a] \in Ids /\ routes[a] # 0 /\ a \in Hosted /\ caddyRuns
           /\ routes[a] \in Rows(a, {"running"})
<1>1. routes[a] \in Ids \union {0} /\ routes[a] # 0 /\ Up(routes[a]) BY DEF RoutingTypeOK, Reached
<1>2. caddyRuns BY <1>1 DEF RoutesStand, NoRoutes
<1> QED BY <1>1, <1>2 DEF RoutesStand, Rows

(* No step of a command but a stop ends that.                              *)
LEMMA StepReaches ==
    ASSUME Agree, NEW p \in Procs, Unrouted(p), Step(p), routes' = routes,
           NEW a \in AppNames, Reached(a), ~Reached(a)'
    PROVE  Stops(p, a)
<1> DEFINE r == routes[a]
<1>0. ~Insert(p) BY DEF Insert, Reached, Up
<1>i. IInv /\ RunMove(p) /\ RoutesStand /\ RoutingTypeOK BY <1>0, StepRuns, RoutingAssumption DEF Agree
<1>1. r \in Ids BY <1>i, ReachedRuns
<1>2. r # 0 /\ Up(r) /\ ctr'[r] \notin {"running", "restarted"} BY DEF Reached, Up
<1>3. ~(pc[p] \in InTry /\ r = work[p]) BY DEF Agree
<1>4. r \notin todo[p] BY <1>2 DEF Unrouted
<1> HIDE DEF r
<1>5. pc[p] \in Stopping /\ r = work[p] BY <1>i, <1>1, <1>2, <1>3, <1>4 DEF RunMove, Up
<1>6. owner[r] = a BY <1>i, ReachedRuns DEF Rows, r
<1> QED BY <1>5, <1>6 DEF Stops

LEMMA StepRoutes ==
    ASSUME Agree, NEW p \in Procs, Unrouted(p), Step(p), UNCHANGED <<routes, caddyRuns>>
    PROVE  RoutesStand'
<1>0. CASE Insert(p) BY <1>0, InsertRoutes
<1> SUFFICES ASSUME ~Insert(p) PROVE RoutesStand'
  BY <1>0
<1>i. IInv /\ RunMove(p) /\ RoutesStand /\ RoutingTypeOK BY StepRuns, RoutingAssumption DEF Agree
<1>r. \A d \in Ids : RowMove(p, d) BY <1>i, StepOne DEF OneStep
<1>1. ~caddyRuns' => routes' = NoRoutes BY <1>i DEF RoutesStand
<1>2. ASSUME NEW a \in AppNames, routes[a] # 0
      PROVE  /\ a \in Hosted /\ owner'[routes[a]] = a
             /\ status'[routes[a]] \in {"running"} \union Closed
             /\ Up(routes[a])' => status'[routes[a]] = "running"
  <2> DEFINE r == routes[a]
  <2>1. /\ a \in Hosted /\ owner[r] = a /\ status[r] \in {"running"} \union Closed /\ r \in Ids
        /\ Up(r) => status[r] = "running"
    BY <1>i, <1>2 DEF RoutesStand, RoutingTypeOK
  <2>2. owner'[r] = a BY <1>i, <2>1 DEF RunMove
  <2>3. r # 0 /\ routes' = routes BY <1>2
  <2>4. ~(pc[p] \in InTry /\ r = work[p]) BY DEF Agree
  <2>5. r \notin todo[p] BY <2>3 DEF Unrouted
  <2>6. Up(r)' <=> ctr'[r] \in {"running", "restarted"} BY <2>3 DEF Up
  <2> HIDE DEF r
  <2>7. status'[r] \in {"running"} \union Closed
    BY <1>r, <2>1 DEF RowMove, Closed, Final, InProgress
  <2>8. ASSUME ctr'[r] \in {"running", "restarted"} PROVE status'[r] = "running"
    <3>1. Up(r) BY <1>i, <2>1, <2>4, <2>8 DEF RunMove, Up
    <3>2. ~(pc[p] = "stopped" /\ r = work[p]) BY <3>1 DEF Unrouted
    <3> QED BY <1>i, <2>1, <2>5, <3>1, <3>2 DEF RunMove
  <2> QED BY <2>1, <2>2, <2>6, <2>7, <2>8 DEF r
<1> QED BY <1>1, <1>2 DEF RoutesStand

(* A step from where a hook has pushed, or from where none is needed.      *)
LEMMA StepPushes ==
    ASSUME RouteInv, NEW p \in Procs, Step(p), Hooked(p), UNCHANGED routes,
           push[p] = IF pc[p] = "hook" THEN "over" ELSE "none",
           push'[p] = "none" \/ (push'[p] = "inspect" /\ pc'[p] \in {"idle", "hook"})
    PROVE  Pushing(p)'
<1>i. IInv /\ Standing(p) /\ Pushing(p) /\ Standing(p)' /\ TypeOK
  BY StepStands DEF RouteInv, IInv
<1>a. CASE Insert(p)
  <2>1. pc'[p] = "pending" /\ work'[p] = seq BY <1>i, <1>a, InsertGoes
  <2>2. \A a \in AppNames : routes[a] # seq BY <1>a, RouteAgrees, InsertUnrouted
  <2> QED BY <2>1, <2>2 DEF Pushing, Replacing
<1> SUFFICES ASSUME ~Insert(p) PROVE Pushing(p)'
  BY <1>a
<1>0. UNCHANGED owner /\ (pc'[p] = "idle" \/ Onwards(p)) BY <1>i, StepOne DEF OneStep
<1>1. /\ UNCHANGED owner
      /\ pc'[p] # "idle" => work'[p] = work[p]
      /\ pc'[p] \in InTry => pc[p] \in InTry
  BY <1>0 DEF Onwards, InTry, Bare, Holding, Catching
<1>2. pc'[p] \in InTry => \A a \in AppNames : routes'[a] # work'[p]
  BY <1>i, <1>1 DEF Pushing, InTry, Bare, Holding, Catching
<1>3. pc'[p] \in Replacing => pc[p] \in Replacing \/ (pc[p] = "hook" /\ push[p] = "over")
  <2>1. CASE Promote(p)
    <3>1. pc'[p] \in {"hook", "idle", "forceRemove"}
      <4>1. CASE Goto(p, "hook") \/ Goto(p, CatchAt("healthy"))
        BY <4>1, <1>i DEF Goto, CatchAt, Holding, TypeOK
      <4>2. CASE Open(work[p]) /\ StartReplacing(p, PreviousOf(work[p]))
        BY <2>1, <4>2, <1>i DEF Promote, Hooked, StartReplacing, Return, TypeOK
      <4> QED BY <2>1, <4>1, <4>2 DEF Promote
    <3> QED BY <3>1 DEF Replacing
  <2>2. CASE ~Promote(p)
    BY <2>2, <1>i, NoWriteFails
       DEF Step, NotInserted, SetPulling, Pulled, Created, RecordStarting, Started, Probe, Verdict, Reap,
           Reaped, NotFound, CallFails, ForceRemove, GiveUp, HookDone, HookFails, StopPrevious, RemovePrevious, Replaced,
           StopContainer, RemoveContainer, Stopped, Goto, Return, CatchAt, Replacing, TypeOK
  <2> QED BY <2>1, <2>2
<1>4. pc'[p] \in Replacing => routes'[owner'[work'[p]]] \in {0, work'[p]}
  BY <1>i, <1>1, <1>3 DEF Pushing, Replacing
<1> QED BY <1>2, <1>4 DEF Pushing

-----------------------------------------------------------------------------
(* Commands and their pushes. *)

LEMMA EngineStepKeeps ==
    ASSUME RouteInv, NEW p \in Procs, EngineStep(p)
    PROVE  Owned' /\ RoutesStand' /\ Standing(p)' /\ Pushing(p)'
<1>i. IInv /\ TypeOK /\ Owned /\ Standing(p) /\ push \in [Procs -> PushPlaces]
  BY DEF RouteInv, IInv, RoutingTypeOK, PushPlaces
<1> DEFINE where == IF pc'[p] = "hook" \/ (pc[p] = "stopped" /\ Open(work[p])) THEN "inspect" ELSE "none"
<1>1. /\ Step(p) /\ Hooked(p) /\ UNCHANGED <<caddyRuns, routes, config>>
      /\ push[p] = "none" /\ pc[p] # "hook" /\ push' = [push EXCEPT ![p] = where]
  BY DEF EngineStep, SetPush
<1>2. pc[p] = "stopped" => pc'[p] = "idle"
  BY <1>1, <1>i, NoWriteFails
     DEF Step, Insert, NotInserted, SetPulling, Pulled, Created, RecordStarting, Started, Probe, Verdict, Reap, Reaped, NotFound, CallFails,
         ForceRemove, GiveUp, Promote, HookDone, HookFails, StopPrevious, RemovePrevious, Replaced,
         StopContainer, RemoveContainer, Stopped, Return, TypeOK
<1>3. push'[p] = "none" \/ (push'[p] = "inspect" /\ pc'[p] \in {"idle", "hook"}) BY <1>1, <1>2, <1>i
<1> QED BY <1>1, <1>3, <1>i, RouteAgrees, StepOwned, StepRoutes, StepStands, StepPushes

(* Rows and processes stand still, and so does what they say. *)
LEMMA StillStands ==
    ASSUME RouteInv, UNCHANGED vars, NEW p \in Procs
    PROVE  Owned' /\ Standing(p)' /\ DesiredRoutes' = DesiredRoutes
<1>1. UNCHANGED <<apps, owner, status, recorded, seq, ctr, pc, work, todo>> BY DEF vars
<1>2. Owned' BY <1>1 DEF RouteInv, Owned
<1>3. Standing(p)
  BY DEF RouteInv
<1>4. Standing(p)' BY <1>1, <1>3 DEF Standing, Up
<1>5. \A a \in AppNames : RouteOf(a)' = RouteOf(a)
  BY <1>1 DEF RouteOf, NewestOf, Newest, Rows
<1>6. DesiredRoutes' = DesiredRoutes BY <1>1, <1>5 DEF DesiredRoutes
<1> QED BY <1>2, <1>4, <1>6

(* A config of what the rows say routes only to what runs.                 *)
LEMMA DesiredRuns ==
    ASSUME NEW a \in AppNames, DesiredRoutes[a] # 0
    PROVE  a \in Hosted /\ DesiredRoutes[a] \in Rows(a, {"running"})
<1>1. a \in apps \intersect Hosted /\ DesiredRoutes[a] = RouteOf(a) BY DEF DesiredRoutes
<1>2. 0 \notin Rows(a, {"running"}) BY DEF Rows
<1> QED BY <1>1, <1>2, RouteOfIs

(* It routes every app with a hostname that has a running deployment to    *)
(* the newest one.                                                         *)
LEMMA DesiredNewest ==
    ASSUME Owned, NEW a \in Hosted, NEW d \in Rows(a, {"running"})
    PROVE  /\ DesiredRoutes[a] \in Rows(a, {"running"})
           /\ \A e \in Rows(a, {"running"}) : e <= DesiredRoutes[a]
<1>1. a \in AppNames BY RoutingAssumption
<1>2. a \in apps BY DEF Owned, Rows
<1>3. DesiredRoutes[a] = RouteOf(a) BY <1>1, <1>2 DEF DesiredRoutes
<1> QED BY <1>1, <1>3, RouteOfIs

LEMMA LoadRoutes ==
    ASSUME UNCHANGED <<owner, status, ctr, caddyRuns>>, caddyRuns, routes' = DesiredRoutes
    PROVE  RoutesStand'
<1>1. ASSUME NEW a \in AppNames, DesiredRoutes[a] # 0
      PROVE  /\ a \in Hosted /\ owner[DesiredRoutes[a]] = a /\ status[DesiredRoutes[a]] = "running"
  BY <1>1, DesiredRuns DEF Rows
<1>2. \A a \in AppNames : routes'[a] # 0 =>
          a \in Hosted /\ owner'[routes'[a]] = a /\ status'[routes'[a]] = "running"
  BY <1>1
<1> QED BY <1>2 DEF RoutesStand

(* An app that is reached stays so, or the newest deployment of it is lost.*)
LEMMA LoadReaches ==
    ASSUME Agree, UNCHANGED ctr, routes' = DesiredRoutes, NEW a \in AppNames, Reached(a), ~Reached(a)'
    PROVE  routes'[a] > routes[a] /\ Lost(routes'[a])
<1>i. Owned /\ RoutesStand /\ RoutingTypeOK BY DEF Agree
<1>1. routes[a] \in Ids /\ a \in Hosted /\ routes[a] \in Rows(a, {"running"}) BY <1>i, ReachedRuns
<1> DEFINE d == DesiredRoutes[a]
<1>2. d \in Rows(a, {"running"}) /\ routes[a] <= d BY <1>i, <1>1, DesiredNewest
<1>3. d \in Ids /\ d # 0 /\ status[d] = "running" BY <1>2 DEF Rows
<1>4. routes'[a] = d OBVIOUS
<1>5. Up(routes[a]) /\ ctr'[routes'[a]] \notin {"running", "restarted"} BY <1>3, <1>4 DEF Reached, Up
<1> HIDE DEF d
<1>6. ~Up(d) BY <1>4, <1>5 DEF Up
<1>7. d # routes[a] BY <1>5, <1>6
<1> QED BY <1>1, <1>2, <1>3, <1>4, <1>6, <1>7 DEF Lost

(* The invariant of process p, after a step.                               *)
Keeps(p) == Owned' /\ RoutesStand' /\ Standing(p)' /\ Pushing(p)'

LEMMA PushBeginKeeps ==
    ASSUME RouteInv, NEW p \in Procs, PushBegin(p) \/ Inspect(p)
    PROVE  Keeps(p)
<1>i. IInv /\ TypeOK /\ RoutesStand /\ Pushing(p) /\ push \in [Procs -> PushPlaces]
      /\ config \in [Procs -> [AppNames -> Ids \union {0}]]
  BY DEF RouteInv, IInv, RoutingTypeOK, PushPlaces
<1>1. UNCHANGED vars /\ UNCHANGED <<caddyRuns, routes>> BY DEF PushBegin, Inspect
<1>2. UNCHANGED <<apps, owner, status, recorded, seq, ctr, pc, work, todo>> BY <1>1 DEF vars
<1>3. Owned' /\ Standing(p)' /\ DesiredRoutes' = DesiredRoutes BY <1>1, StillStands
<1>4. RoutesStand' BY <1>i, <1>1, <1>2 DEF RoutesStand, Up
<1>5. pc[p] \in {"idle", "hook"} BY <1>i DEF PushBegin, Inspect, Pushing
<1>6. /\ push'[p] = "load" => config'[p] = DesiredRoutes
      /\ push'[p] = "over" => routes = NoRoutes
  BY <1>i DEF PushBegin, Inspect, SetPush, RoutesStand
<1>7. pc[p] = "hook" => work[p] \in Ids /\ status[work[p]] = "running"
  BY <1>i DEF RouteInv, IInv, Busy, AtRow, Standing
<1>8. pc[p] = "hook" => owner[work[p]] \in AppNames
  BY <1>7, <1>i DEF RouteInv, Owned, TypeOK
<1>9. pc[p] = "hook" /\ push'[p] = "over" => routes[owner[work[p]]] = 0 BY <1>6, <1>8 DEF NoRoutes
<1>10. Pushing(p)' BY <1>1, <1>2, <1>3, <1>5, <1>6, <1>9 DEF Pushing, InTry, Bare, Holding, Catching, Replacing
<1> QED BY <1>3, <1>4, <1>10 DEF Keeps

LEMMA LoadKeeps ==
    ASSUME RouteInv, NEW p \in Procs, Load(p)
    PROVE  Keeps(p)
<1>i. IInv /\ TypeOK /\ Pushing(p) /\ Standing(p) /\ Owned /\ push \in [Procs -> PushPlaces]
  BY DEF RouteInv, IInv, RoutingTypeOK, PushPlaces
<1>1. UNCHANGED vars /\ UNCHANGED caddyRuns /\ caddyRuns /\ routes' = DesiredRoutes
      /\ push'[p] = "over" /\ pc[p] \in {"idle", "hook"}
  BY <1>i DEF Load, Pushing, SetPush
<1>2. UNCHANGED <<apps, owner, status, recorded, seq, ctr, pc, work, todo>> BY <1>1 DEF vars
<1>3. Owned' /\ Standing(p)' BY <1>1, StillStands
<1>4. RoutesStand' BY <1>1, <1>2, LoadRoutes
<1>5. ASSUME pc[p] = "hook" PROVE routes'[owner[work[p]]] \in {0, work[p]}
  <2>1. work[p] \in Ids /\ status[work[p]] = "running" BY <1>i, <1>5 DEF IInv, Busy, AtRow, Standing
  <2> DEFINE a == owner[work[p]]
  <2>2. a \in AppNames /\ work[p] \in Rows(a, {"running"}) BY <1>i, <2>1 DEF Owned, TypeOK, Rows
  <2>3. \A d \in Rows(a, {"running"}) : d <= work[p] BY <1>i, <1>5 DEF Standing, Rows
  <2>4. CASE DesiredRoutes[a] # 0
    <3>1. a \in Hosted /\ DesiredRoutes[a] \in Rows(a, {"running"}) BY <2>2, <2>4, DesiredRuns
    <3>2. work[p] <= DesiredRoutes[a] BY <1>i, <2>2, <3>1, DesiredNewest
    <3>3. DesiredRoutes[a] <= work[p] BY <2>3, <3>1
    <3>4. DesiredRoutes[a] \in Ids BY <3>1 DEF Rows
    <3> QED BY <1>1, <2>1, <3>2, <3>3, <3>4
  <2> QED BY <1>1, <2>4
<1>6. Pushing(p)' BY <1>1, <1>2, <1>5 DEF Pushing, InTry, Bare, Holding, Catching, Replacing
<1> QED BY <1>3, <1>4, <1>6 DEF Keeps

LEMMA PushOverKeeps ==
    ASSUME RouteInv, NEW p \in Procs, PushOver(p)
    PROVE  Keeps(p)
<1>i. IInv /\ TypeOK /\ Pushing(p) /\ RoutesStand /\ Owned /\ Standing(p) /\ push \in [Procs -> PushPlaces]
  BY DEF RouteInv, IInv, RoutingTypeOK, PushPlaces
<1>1. push[p] = "over" /\ push'[p] = "none" /\ UNCHANGED <<caddyRuns, routes>>
  BY <1>i DEF PushOver, SetPush
<1>2. CASE pc[p] = "hook"
  <2>1. HookDone(p) /\ Step(p) /\ Hooked(p) BY <1>2 DEF PushOver, Step, Hooked
  <2> QED BY <1>1, <1>2, <1>i, <2>1, RouteAgrees, StepOwned, StepRoutes, StepStands, StepPushes DEF Keeps
<1>3. CASE pc[p] # "hook"
  <2>1. UNCHANGED vars /\ pc[p] = "idle" BY <1>1, <1>3, <1>i DEF PushOver, Pushing
  <2>2. UNCHANGED <<apps, owner, status, recorded, seq, ctr, pc, work, todo>> BY <2>1 DEF vars
  <2>3. Owned' /\ Standing(p)' BY <2>1, StillStands
  <2>4. RoutesStand' BY <1>i, <1>1, <2>2 DEF RoutesStand, Up
  <2>5. Pushing(p)' BY <1>1, <2>1, <2>2 DEF Pushing, InTry, Bare, Holding, Catching, Replacing
  <2> QED BY <2>3, <2>4, <2>5 DEF Keeps
<1> QED BY <1>2, <1>3

(* A command that is over with its push: Caddy has the new config or not.  *)
LEMMA GivenUpKeeps ==
    ASSUME RouteInv, NEW p \in Procs, UNCHANGED <<rows, ctr, caddyRuns>>,
           Return(p) \/ (pc[p] = "idle" /\ UNCHANGED procVars), push'[p] = "none",
           routes' = routes \/ (caddyRuns /\ routes' = DesiredRoutes)
    PROVE  Keeps(p)
<1>i. IInv /\ TypeOK /\ RoutesStand /\ Owned /\ Standing(p) BY DEF RouteInv, IInv
<1>1. UNCHANGED <<apps, owner, status, ctr, caddyRuns>> BY DEF rows
<1>2. pc'[p] = "idle" /\ Standing(p)'
  <2>1. CASE Return(p) BY <2>1, <1>i, IdleStands DEF Return, TypeOK
  <2>2. CASE pc[p] = "idle" /\ UNCHANGED procVars
    BY <2>2, <1>1, <1>i DEF procVars, Standing, InTry, Bare, Holding, Catching, Replacing
  <2> QED BY <2>1, <2>2
<1>3. Owned' BY <1>1, <1>i DEF Owned
<1>4. RoutesStand'
  <2>1. CASE routes' = routes BY <2>1, <1>1, <1>i DEF RoutesStand, Up
  <2>2. CASE caddyRuns /\ routes' = DesiredRoutes BY <2>2, <1>1, LoadRoutes
  <2> QED BY <2>1, <2>2
<1>5. Pushing(p)' BY <1>2 DEF Pushing, InTry, Bare, Holding, Catching, Replacing
<1> QED BY <1>2, <1>3, <1>4, <1>5 DEF Keeps

LEMMA PushFailsKeeps ==
    ASSUME RouteInv, NEW p \in Procs, PushFails(p)
    PROVE  Keeps(p)
<1>i. Pushing(p) /\ push \in [Procs -> PushPlaces] BY DEF RouteInv, RoutingTypeOK, PushPlaces
<1>1. /\ push'[p] = "none" /\ UNCHANGED caddyRuns /\ pc[p] \in {"idle", "hook"}
      /\ routes' = routes \/ (caddyRuns /\ routes' = DesiredRoutes)
  BY <1>i DEF PushFails, SetPush, Pushing
<1>2. UNCHANGED <<rows, ctr>> BY DEF PushFails, HookFails, vars, rows
<1>3. Return(p) \/ (pc[p] = "idle" /\ UNCHANGED procVars)
  BY <1>1 DEF PushFails, HookFails, vars, procVars
<1> QED BY <1>1, <1>2, <1>3, GivenUpKeeps

LEMMA KillKeeps ==
    ASSUME RouteInv, NEW p \in Procs, Kill(p)
    PROVE  Keeps(p)
<1>1. push \in [Procs -> PushPlaces] BY DEF RouteInv, RoutingTypeOK, PushPlaces
<1>2. push'[p] = "none" /\ routes' = routes BY <1>1 DEF Kill, SetPush
<1>3. UNCHANGED <<rows, ctr, caddyRuns>> BY DEF Kill, Crash, vars, rows
<1>4. Return(p) \/ (pc[p] = "idle" /\ UNCHANGED procVars) BY DEF Kill, Crash, vars, procVars
<1> QED BY <1>2, <1>3, <1>4, GivenUpKeeps

-----------------------------------------------------------------------------
(* Commands begin, and the world goes on. *)

LEMMA BeginStands ==
    ASSUME RouteInv, NEW p \in Procs, NEW a \in AppNames, Begin(p, a)
    PROVE  Keeps(p)
<1>i. IInv /\ TypeOK /\ RoutesStand /\ Owned /\ Standing(p) /\ Pushing(p) BY DEF RouteInv, IInv
<1>1. push[p] = "none" /\ UNCHANGED <<caddyRuns, routes, push, config>> BY DEF Begin, routingVars
<1>2. CASE DeployBegin(p, a)
  <2>1. /\ pc[p] = "idle" /\ pc'[p] = "insert" /\ todo' = todo
        /\ UNCHANGED <<apps, owner, status, ctr>>
    BY <1>2, <1>i DEF DeployBegin, rows, TypeOK
  <2>2. todo'[p] = {} BY <2>1, <1>i DEF Standing, Replacing
  <2>3. Owned' /\ RoutesStand' BY <1>1, <1>i, <2>1 DEF Owned, RoutesStand, Up
  <2>4. Standing(p)' /\ Pushing(p)'
    BY <1>1, <2>1, <2>2 DEF Standing, Pushing, InTry, Bare, Holding, Catching, Replacing
  <2> QED BY <2>3, <2>4 DEF Keeps
<1>3. CASE StopBegin(p, a)
  <2>1. /\ pc[p] = "idle" /\ pc'[p] = "stop" /\ todo' = todo
        /\ UNCHANGED <<apps, owner, status, ctr>>
    BY <1>3, <1>i DEF StopBegin, rows, TypeOK
  <2>2. todo'[p] = {} BY <2>1, <1>i DEF Standing, Replacing
  <2>3. Owned' /\ RoutesStand' BY <1>1, <1>i, <2>1 DEF Owned, RoutesStand, Up
  <2>4. Standing(p)' /\ Pushing(p)'
    BY <1>1, <2>1, <2>2 DEF Standing, Pushing, InTry, Bare, Holding, Catching, Replacing
  <2> QED BY <2>3, <2>4 DEF Keeps
<1> QED BY <1>2, <1>3 DEF Begin

(* What the world does: no process moves, what runs goes on, rows of apps  *)
(* come and go, and a container that is watched may fail.                  *)
WorldMove ==
    /\ UNCHANGED <<pc, work, todo, caddyRuns, routes, push, config>>
    /\ Owned'
    /\ \A d \in Ids : status[d] # "none" => owner'[d] = owner[d]
    /\ \A d \in Ids : status'[d] = "running" <=> status[d] = "running"
    /\ \A d \in Ids : status[d] \in Closed => status'[d] \in Closed
    /\ \A d \in Ids : ctr'[d] # ctr[d] => \E p \in Procs : d = work[p] /\ pc[p] \in {"probe", "window"}
    /\ DesiredRoutes' = DesiredRoutes

(* The desired routes are the same when no other rows run.                 *)
LEMMA SameDesired ==
    ASSUME Owned, Owned', \A d \in Ids : status'[d] = "running" <=> status[d] = "running",
           \A d \in Ids : status[d] = "running" => owner'[d] = owner[d]
    PROVE  DesiredRoutes' = DesiredRoutes
<1>1. ASSUME NEW a \in AppNames PROVE Rows(a, {"running"})' = Rows(a, {"running"})
  BY DEF Rows
<1>2. ASSUME NEW a \in AppNames PROVE RouteOf(a)' = RouteOf(a)
  <2>1. RouteOf(a)' = NewestOf(Rows(a, {"running"})') BY DEF RouteOf
  <2>2. RouteOf(a) = NewestOf(Rows(a, {"running"})) BY DEF RouteOf
  <2> QED BY <1>1, <2>1, <2>2
<1>3. ASSUME NEW a \in AppNames, ~(a \in apps <=> a \in apps') PROVE RouteOf(a) = 0
  <2>1. Rows(a, {"running"}) = {}
    <3> SUFFICES ASSUME NEW d \in Rows(a, {"running"}) PROVE FALSE
      OBVIOUS
    <3>1. d \in Ids /\ owner[d] = a /\ status[d] = "running" /\ owner'[d] = a /\ status'[d] = "running"
      BY DEF Rows
    <3>2. a \in apps /\ a \in apps' BY <3>1 DEF Owned
    <3> QED BY <1>3, <3>2
  <2> QED BY <2>1, RouteOfIs
<1>4. ASSUME NEW a \in AppNames
      PROVE  (IF a \in apps' \intersect Hosted THEN RouteOf(a)' ELSE 0) =
             (IF a \in apps \intersect Hosted THEN RouteOf(a) ELSE 0)
  BY <1>2, <1>3
<1> QED BY <1>4 DEF DesiredRoutes

LEMMA WorldMoves ==
    ASSUME IInv, Owned, World, UNCHANGED routingVars
    PROVE  WorldMove
<1>i. IInv /\ TypeOK /\ Owned BY DEF IInv
<1>0. UNCHANGED <<caddyRuns, routes, push, config>> BY DEF routingVars
<1>1. ASSUME NEW a \in AppNames, CreateApp(a) PROVE WorldMove
  <2>1. apps \subseteq apps' /\ UNCHANGED <<owner, status, ctr, pc, work, todo>>
    BY <1>1 DEF CreateApp, procVars
  <2>2. Owned' BY <1>i, <2>1 DEF Owned
  <2> QED BY <1>0, <1>i, <2>1, <2>2, SameDesired DEF WorldMove
<1>2. ASSUME NEW a \in AppNames, DeleteApp(a) PROVE WorldMove
  <2>1. apps' = apps \ {a} /\ UNCHANGED <<owner, ctr, pc, work, todo>>
    BY <1>2 DEF DeleteApp, procVars
  <2>2. \A d \in Ids : status'[d] = IF owner[d] = a THEN "deleted" ELSE status[d]
    BY <1>2 DEF DeleteApp
  <2>3. \A d \in Ids : owner[d] = a => status[d] # "running"
    BY <1>2 DEF DeleteApp, Deletable, Rows
  <2>4. Owned' BY <1>i, <2>1, <2>2 DEF Owned, InProgress
  <2>5. \A d \in Ids : status'[d] = "running" <=> status[d] = "running" BY <2>2, <2>3
  <2>6. \A d \in Ids : status[d] \in Closed => status'[d] \in Closed BY <2>2 DEF Closed
  <2> QED BY <1>0, <1>i, <2>1, <2>4, <2>5, <2>6, SameDesired DEF WorldMove
<1>4. ASSUME NEW p \in Procs, Misbehave(p) PROVE WorldMove
  <2>1. UNCHANGED <<apps, owner, status, pc, work, todo>> BY <1>4 DEF Misbehave, rows, procVars
  <2>2. \A d \in Ids : ctr'[d] # ctr[d] => d = work[p] /\ pc[p] \in {"probe", "window"}
    BY <1>4, <1>i DEF Misbehave, SetContainer, TypeOK
  <2>3. Owned' BY <1>i, <2>1 DEF Owned
  <2> QED BY <1>0, <1>i, <2>1, <2>2, <2>3, SameDesired DEF WorldMove
<1> QED BY <1>1, <1>2, <1>4 DEF World

(* Nothing the world does ends what runs and is up: it meddles only with a *)
(* container whose deploy is still watching it.                            *)
LEMMA WorldUp ==
    ASSUME IInv, WorldMove, NEW d \in Ids, status[d] = "running"
    PROVE  ctr'[d] = ctr[d]
<1> SUFFICES ASSUME NEW p \in Procs, d = work[p], pc[p] \in {"probe", "window"} PROVE FALSE
  BY DEF WorldMove
<1>1. pc[p] \in InTry BY DEF InTry, Holding
<1> QED BY <1>1, TryNotRunning, RoutingAssumption

LEMMA WorldRoutes ==
    ASSUME Agree, WorldMove
    PROVE  RoutesStand'
<1>i. RoutesStand /\ RoutingTypeOK BY DEF Agree
<1>1. /\ UNCHANGED <<caddyRuns, routes>>
      /\ \A d \in Ids : status[d] # "none" => owner'[d] = owner[d]
      /\ \A d \in Ids : status'[d] = "running" <=> status[d] = "running"
      /\ \A d \in Ids : status[d] \in Closed => status'[d] \in Closed
  BY DEF WorldMove
<1>2. ASSUME NEW a \in AppNames, routes[a] # 0
      PROVE  /\ owner'[routes[a]] = a
             /\ status'[routes[a]] \in {"running"} \union Closed
             /\ Up(routes[a])' => status'[routes[a]] = "running"
  <2> DEFINE r == routes[a]
  <2>1. /\ r \in Ids /\ owner[r] = a /\ status[r] \in {"running"} \union Closed
        /\ Up(r) => status[r] = "running"
    BY <1>i, <1>2 DEF RoutesStand, RoutingTypeOK
  <2>2. status[r] # "none" BY <2>1 DEF Closed, Final
  <2>3. ctr'[r] = ctr[r]
    <3> SUFFICES ASSUME NEW q \in Procs, r = work[q], pc[q] \in {"probe", "window"} PROVE FALSE
      BY <2>1 DEF WorldMove
    <3>1. pc[q] \in InTry BY DEF InTry, Holding
    <3> QED BY <3>1 DEF Agree
  <2>4. Up(routes[a])' <=> Up(r) BY <1>1, <2>3 DEF Up
  <2> QED BY <1>1, <2>1, <2>2, <2>4
<1> QED BY <1>1, <1>2, <1>i DEF RoutesStand

LEMMA WorldKeeps ==
    ASSUME OneProcess, RouteInv, WorldMove, NEW p \in Procs
    PROVE  Keeps(p)
<1>i. IInv /\ TypeOK /\ Standing(p) /\ Pushing(p)
  BY DEF RouteInv, IInv
<1>1. /\ UNCHANGED <<pc, work, todo, caddyRuns, routes, push, config>> /\ Owned'
      /\ \A d \in Ids : status[d] # "none" => owner'[d] = owner[d]
      /\ \A d \in Ids : status'[d] = "running" <=> status[d] = "running"
      /\ \A d \in Ids : status[d] \in Closed => status'[d] \in Closed
      /\ DesiredRoutes' = DesiredRoutes
  BY DEF WorldMove
<1>2. AtRow(p) => work[p] \in Ids /\ status[work[p]] # "none"
  BY <1>i DEF IInv, Busy, InStep, Allowed, Closed, Final, InProgress, Unlogged
<1>3. ASSUME AtRow(p), pc[p] \notin {"probe", "window"} PROVE ctr'[work[p]] = ctr[work[p]]
  BY <1>2, <1>3 DEF WorldMove, OneProcess
<1>4. RoutesStand' BY RouteAgrees, WorldRoutes
<1>5. ASSUME AtRow(p) PROVE owner'[work[p]] = owner[work[p]] BY <1>1, <1>2, <1>5
<1>6. \A d \in todo[p] : d \in Ids /\ status[d] # "none"
  BY <1>i DEF IInv, HasRun, Closed, Final, TypeOK
<1>7. Standing(p)'
  <2>1. pc[p] = "healthy" => Up(work[p])' BY <1>i, <1>1, <1>3 DEF Standing, Up, AtRow
  <2>2. pc[p] \in {"hook"} \union Replacing => status'[work[p]] = "running" /\ Up(work[p])'
    BY <1>i, <1>1, <1>2, <1>3 DEF Standing, Up, Replacing, AtRow
  <2>3. pc[p] = "stopped" => ctr'[work[p]] = "absent" BY <1>i, <1>3 DEF Standing, AtRow
  <2>4. \A d \in todo[p] : pc[p] \in Replacing /\ owner'[d] = owner'[work[p]] /\ d # work[p]
    BY <1>i, <1>1, <1>5, <1>6 DEF Standing, Replacing, AtRow
  <2> QED BY <1>i, <1>1, <2>1, <2>2, <2>3, <2>4 DEF Standing
<1>8. Pushing(p)'
  <2>1. pc[p] \in Replacing \/ (pc[p] = "hook" /\ push[p] = "over") => routes[owner'[work[p]]] \in {0, work[p]}
    BY <1>i, <1>5 DEF Pushing, Replacing, AtRow
  <2> QED BY <1>i, <1>1, <2>1 DEF Pushing
<1> QED BY <1>1, <1>4, <1>7, <1>8 DEF Keeps
(* Caddy starts or stops. *)
LEMMA CaddyRoutes ==
    ASSUME Owned, CaddyComesOrGoes
    PROVE  Owned' /\ RoutesStand'
<1>1. UNCHANGED <<apps, owner, status>> BY DEF CaddyComesOrGoes, vars
<1>2. Owned' BY <1>1 DEF Owned
<1>3. RoutesStand' BY DEF CaddyComesOrGoes, RoutesStand, NoRoutes
<1> QED BY <1>2, <1>3

LEMMA CaddyKeeps ==
    ASSUME RouteInv, NEW p \in Procs, CaddyComesOrGoes
    PROVE  Keeps(p)
<1>i. TypeOK /\ Pushing(p) /\ Standing(p) /\ Owned /\ IInv BY DEF RouteInv, IInv
<1>1. UNCHANGED vars /\ UNCHANGED <<push, config>> /\ routes' = NoRoutes BY DEF CaddyComesOrGoes
<1>2. UNCHANGED <<apps, owner, status, recorded, seq, ctr, pc, work, todo>> BY <1>1 DEF vars
<1>3. Standing(p)' /\ DesiredRoutes' = DesiredRoutes BY <1>1, StillStands
<1>4. \A a \in AppNames : routes'[a] = 0 BY <1>1 DEF NoRoutes
<1>5. AtRow(p) => work[p] \in Ids BY <1>i DEF IInv, Busy
<1>6. pc[p] \in {"hook"} \union Replacing => owner[work[p]] \in AppNames
  <2>1. pc[p] \in {"hook"} \union Replacing => work[p] \in Ids /\ status[work[p]] = "running"
    BY <1>5, <1>i DEF Standing, Replacing, AtRow
  <2> QED BY <2>1, <1>i DEF Owned, TypeOK
<1>7. pc[p] \in InTry => \A a \in AppNames : routes'[a] # work[p]
  <2>1. pc[p] \in InTry => work[p] # 0 BY <1>5 DEF InTry, Bare, Holding, Catching, AtRow
  <2> QED BY <2>1, <1>4
<1>8. Pushing(p)' BY <1>1, <1>2, <1>3, <1>4, <1>6, <1>7, <1>i DEF Pushing
<1> QED BY <1>3, <1>8, <1>i, CaddyRoutes DEF Keeps

LEMMA StutterKeeps ==
    ASSUME RouteInv, UNCHANGED allVars
    PROVE  Owned' /\ RoutesStand' /\ \A p \in Procs : Keeps(p)
<1>1. UNCHANGED vars /\ UNCHANGED <<caddyRuns, routes, push, config>> BY DEF allVars, vars
<1>2. UNCHANGED <<apps, owner, status, recorded, seq, ctr, pc, work, todo>> BY <1>1 DEF vars
<1>3. Owned' /\ RoutesStand' BY <1>1, <1>2 DEF RouteInv, Owned, RoutesStand, Up
<1>4. ASSUME NEW p \in Procs PROVE Keeps(p)
  <2>1. Standing(p)' /\ DesiredRoutes' = DesiredRoutes BY <1>1, StillStands
  <2>2. Pushing(p) BY DEF RouteInv
  <2>3. Pushing(p)' BY <1>1, <1>2, <2>1, <2>2 DEF Pushing
  <2> QED BY <1>3, <2>1, <2>3 DEF Keeps
<1> QED BY <1>3, <1>4

-----------------------------------------------------------------------------
(* The invariant, and what follows of it. *)

LEMMA InitRouteInv == RoutingInit => RouteInv
<1> SUFFICES ASSUME RoutingInit PROVE RouteInv
  OBVIOUS
<1>1. IInv /\ RoutingTypeOK BY InitIInv, InitRoutingType DEF RoutingInit
<1>2. /\ caddyRuns = FALSE /\ routes = NoRoutes
      /\ \A d \in Ids : status[d] = "none"
      /\ \A p \in Procs : pc[p] = "idle" /\ push[p] = "none" /\ todo[p] = {}
  BY DEF RoutingInit, Init
<1>3. Owned BY <1>2 DEF Owned, InProgress
<1>4. RoutesStand BY <1>2 DEF RoutesStand, NoRoutes
<1>5. \A p \in Procs : Standing(p) /\ Pushing(p)
  BY <1>2 DEF Standing, Pushing, InTry, Bare, Holding, Catching, Replacing
<1> QED BY <1>1, <1>3, <1>4, <1>5 DEF RouteInv

(* What the one process does is all that any process does.                 *)
LEMMA NextRouteInv ==
    ASSUME OneProcess, RouteInv, [RoutingNext]_allVars
    PROVE  RouteInv'
<1>1. IInv' /\ RoutingTypeOK' BY RoutingIsEngine, NextIInv, NextRoutingType DEF RouteInv
<1> SUFFICES Owned' /\ RoutesStand' /\ \A q \in Procs : Standing(q)' /\ Pushing(q)'
  BY <1>1 DEF RouteInv
<1>2. ASSUME NEW p \in Procs,
             \/ \E a \in AppNames : Begin(p, a)
             \/ EngineStep(p) \/ PushBegin(p)
             \/ Inspect(p) \/ Load(p) \/ PushOver(p) \/ PushFails(p) \/ Kill(p)
      PROVE  Owned' /\ RoutesStand' /\ \A q \in Procs : Standing(q)' /\ Pushing(q)'
  <2>1. Keeps(p)
    <3>1. CASE EngineStep(p) BY <3>1, EngineStepKeeps DEF Keeps
    <3>2. CASE PushBegin(p) \/ Inspect(p) BY <3>2, PushBeginKeeps
    <3> QED BY <1>2, <3>1, <3>2, BeginStands, LoadKeeps, PushOverKeeps, PushFailsKeeps, KillKeeps
  <2>2. Owned' /\ RoutesStand' /\ Standing(p)' /\ Pushing(p)' BY <2>1 DEF Keeps
  <2>3. \A q \in Procs : q = p BY DEF OneProcess
  <2> QED BY <2>2, <2>3
<1>3. CASE World /\ UNCHANGED routingVars
  <2>1. WorldMove BY <1>3, WorldMoves DEF RouteInv
  <2>2. Owned' /\ RoutesStand' BY <2>1, RouteAgrees, WorldRoutes DEF WorldMove
  <2> QED BY <2>1, <2>2, WorldKeeps DEF Keeps
<1>4. CASE CaddyComesOrGoes BY <1>4, CaddyRoutes, CaddyKeeps DEF Keeps, RouteInv
<1>5. CASE UNCHANGED allVars BY <1>5, StutterKeeps DEF Keeps
<1> QED BY <1>2, <1>3, <1>4, <1>5 DEF RoutingNext

(* With one command at a time Caddy's routes, the configs on their way and *)
(* the rows agree in every state, whatever fails and whenever Caddy goes.  *)
THEOREM RoutesAgreeOneProcess ==
    ASSUME OneProcess
    PROVE  RoutingSpec => []RouteInv
<1>1. RouteInv /\ [RoutingNext]_allVars => RouteInv' BY NextRouteInv
<1> QED BY <1>1, InitRouteInv, PTL DEF RoutingSpec
-----------------------------------------------------------------------------
(* Requests go on being answered. *)

(* A step of a command that ends an app's service is a stop's: what a      *)
(* deploy takes down is not the deployment it has just promoted.           *)
LEMMA StepServes ==
    ASSUME RouteInv, NEW p \in Procs, Step(p), NEW a \in AppNames, Served(a), ~Served(a)'
    PROVE  Stops(p, a)
<1>0. ~Insert(p)
  <2> SUFFICES ASSUME Insert(p) PROVE FALSE
    OBVIOUS
  <2>1. PICK d \in Rows(a, {"running"}) : Up(d) BY DEF Served
  <2>2. d # seq /\ d \in Rows(a, {"running"})' /\ Up(d)'
    BY <2>1, InsertRuns DEF Rows, Up, RouteInv
  <2> QED BY <2>2 DEF Served
<1>i. IInv /\ Standing(p) /\ RunMove(p) BY <1>0, StepRuns, RoutingAssumption DEF RouteInv
<1>1. PICK d \in Rows(a, {"running"}) : Up(d) BY DEF Served
<1>2. d \in Ids /\ owner[d] = a /\ status[d] = "running" /\ Up(d) BY <1>1 DEF Rows
<1>3. owner'[d] = a BY <1>i, <1>2 DEF RunMove
<1>4. ~(status'[d] = "running" /\ Up(d)') BY <1>2, <1>3 DEF Served, Rows, Up
<1>5. \/ d \in todo[p]
      \/ pc[p] = "stopped" /\ d = work[p]
      \/ pc[p] \in InTry /\ d = work[p]
      \/ pc[p] \in Stopping /\ d = work[p]
  BY <1>i, <1>2, <1>4 DEF RunMove
<1>6. ~(pc[p] \in InTry /\ d = work[p]) BY <1>i, <1>2, TryNotRunning, RoutingAssumption
<1>7. ~(pc[p] = "stopped" /\ d = work[p]) BY <1>i, <1>2 DEF Standing, Up
<1>8. CASE d \in todo[p]
  <2>0. PICK w : w = work[p] OBVIOUS
  <2>1. pc[p] \in Replacing /\ owner[w] = a BY <1>i, <1>2, <1>8, <2>0 DEF Standing
  <2>2. w \in Ids /\ status[w] = "running" /\ Up(w) BY <1>i, <2>0, <2>1 DEF Standing, IInv, Busy, AtRow, Replacing
  <2>3. w \notin todo[p] /\ owner'[w] = a BY <1>i, <2>0, <2>1, <2>2 DEF Standing, RunMove
  <2>4. pc[p] \notin InTry \union Stopping \union {"stopped"}
    BY <2>1 DEF InTry, Bare, Holding, Catching, Replacing, Stopping
  <2>5. status'[w] = "running" /\ Up(w)' BY <1>i, <2>0, <2>2, <2>3, <2>4 DEF RunMove, Up
  <2>6. w \in Rows(a, {"running"})' BY <2>2, <2>3, <2>5 DEF Rows
  <2> QED BY <2>5, <2>6 DEF Served
<1> QED BY <1>2, <1>5, <1>6, <1>7, <1>8 DEF Stops

LEMMA WorldServes ==
    ASSUME RouteInv, WorldMove, NEW a \in AppNames, Served(a)
    PROVE  Served(a)'
<1>1. PICK d \in Rows(a, {"running"}) : Up(d) BY DEF Served
<1>2. d \in Ids /\ owner[d] = a /\ status[d] = "running" /\ Up(d) BY <1>1 DEF Rows
<1>3. ctr'[d] = ctr[d] /\ status'[d] = "running" /\ owner'[d] = a BY <1>2, WorldUp DEF WorldMove, RouteInv
<1>4. d \in Rows(a, {"running"})' /\ Up(d)' BY <1>2, <1>3 DEF Rows, Up
<1> QED BY <1>4 DEF Served

LEMMA BeginServes ==
    ASSUME RouteInv, NEW p \in Procs, NEW b \in AppNames, Begin(p, b), NEW a \in AppNames, Served(a)
    PROVE  Served(a)'
<1>i. IInv /\ TypeOK /\ Owned BY DEF RouteInv, IInv
<1>1. PICK d \in Rows(a, {"running"}) : Up(d) BY DEF Served
<1>2. d \in Ids /\ owner[d] = a /\ status[d] = "running" /\ Up(d) BY <1>1 DEF Rows
<1>3. UNCHANGED <<owner, status, ctr>> BY DEF Begin, DeployBegin, StopBegin, rows
<1>4. d \in Rows(a, {"running"})' /\ Up(d)' BY <1>2, <1>3 DEF Rows, Up
<1> QED BY <1>4 DEF Served

LEMMA StepNoDowntime ==
    ASSUME RouteInv, [RoutingNext]_allVars, NEW a \in AppNames, Served(a), ~Served(a)'
    PROVE  \E p \in Procs : Stops(p, a)
<1>1. ASSUME UNCHANGED <<owner, status, ctr>> PROVE FALSE
  BY <1>1 DEF Served, Rows, Up
<1>2. ASSUME NEW p \in Procs, Step(p) PROVE Stops(p, a) BY <1>2, StepServes
<1>3. CASE World /\ UNCHANGED routingVars BY <1>3, WorldMoves, WorldServes DEF RouteInv
<1>4. ASSUME NEW p \in Procs, NEW b \in AppNames, Begin(p, b) PROVE FALSE
  BY <1>4, BeginServes
<1>5. ASSUME NEW p \in Procs, PushOver(p) \/ PushFails(p)
      PROVE  Step(p) \/ UNCHANGED <<owner, status, ctr>>
  BY <1>5 DEF PushOver, PushFails, Step, vars
<1>6. ASSUME NEW p \in Procs, PushBegin(p) \/ Inspect(p) \/ Load(p) \/ Kill(p)
      PROVE  UNCHANGED <<owner, status, ctr>>
  BY <1>6 DEF PushBegin, Inspect, Load, Kill, Crash, rows, vars
<1>7. CASE CaddyComesOrGoes BY <1>1, <1>7 DEF CaddyComesOrGoes, vars
<1>8. CASE UNCHANGED allVars BY <1>1, <1>8 DEF allVars
<1>9. ASSUME NEW p \in Procs, EngineStep(p) PROVE Step(p) BY <1>9 DEF EngineStep
<1> QED BY <1>1, <1>2, <1>3, <1>4, <1>5, <1>6, <1>7, <1>8, <1>9 DEF RoutingNext

(* One command at a time, an app that a running deployment serves goes on  *)
(* being served, however a deploy ends and wherever it is killed: only     *)
(* `paas stop` ends that.                                                  *)
THEOREM NoDowntimeOneProcess ==
    ASSUME OneProcess
    PROVE  RoutingSpec => NoDowntime
<1>1. RouteInv /\ [RoutingNext]_allVars =>
        [\A a \in AppNames : Served(a) /\ ~Served(a)' => \E p \in Procs : Stops(p, a)]_vars
  BY StepNoDowntime
<1> QED BY <1>1, RoutesAgreeOneProcess, PTL DEF RoutingSpec, NoDowntime

(* What Caddy is given to route to. *)
LEMMA RoutesMove ==
    ASSUME RouteInv, [RoutingNext]_allVars
    PROVE  routes' \in {routes, NoRoutes, DesiredRoutes}
<1>1. ASSUME NEW p \in Procs, Load(p) \/ PushFails(p) PROVE routes' \in {routes, DesiredRoutes}
  BY <1>1 DEF Load, PushFails, RouteInv, Pushing
<1> QED
  BY <1>1
     DEF RoutingNext, Begin, EngineStep, PushBegin, Inspect, PushOver, Kill, CaddyComesOrGoes, routingVars,
         allVars

LEMMA StepLoadsLive ==
    ASSUME RouteInv, [RoutingNext]_allVars, NEW a \in AppNames, routes'[a] # routes[a], routes'[a] # 0
    PROVE  Up(routes'[a]) \/ Lost(routes'[a])
<1>1. routes' = DesiredRoutes
  <2>1. routes' # NoRoutes BY DEF NoRoutes
  <2> QED BY <2>1, RoutesMove
<1>2. status[DesiredRoutes[a]] = "running" BY <1>1, DesiredRuns DEF Rows
<1> QED BY <1>1, <1>2 DEF Lost
(* One command at a time, a config that Caddy takes routes only to running *)
(* deployments, which are up or have lost their container: the rows cannot *)
(* change between the reading of a config and its load (spec cli:310).     *)
THEOREM LoadsOnlyLiveOneProcess ==
    ASSUME OneProcess
    PROVE  RoutingSpec => LoadsOnlyLive
<1>1. RouteInv /\ [RoutingNext]_allVars =>
        [\A a \in AppNames :
            routes'[a] # routes[a] /\ routes'[a] # 0 => Up(routes'[a]) \/ Lost(routes'[a])]_allVars
  BY StepLoadsLive
<1> QED BY <1>1, RoutesAgreeOneProcess, PTL DEF RoutingSpec, LoadsOnlyLive

(* No config that Caddy takes, and that changes anything, is older than    *)
(* the last change of the routes that the rows ask for.                    *)
FreshLoads ==
    \A p \in Procs : Load(p) \/ PushFails(p) => routes' = routes \/ config[p] = DesiredRoutes

LEMMA StepStaysReached ==
    ASSUME Agree, \A p \in Procs : Unrouted(p), FreshLoads, [RoutingNext]_allVars,
           NEW a \in AppNames, Reached(a), ~Reached(a)'
    PROVE  \/ ~caddyRuns'
           \/ \E p \in Procs : Stops(p, a)
           \/ routes'[a] > routes[a] /\ Lost(routes'[a])
<1>i. IInv /\ RoutesStand /\ RoutingTypeOK /\ Owned BY DEF Agree
<1>0. routes[a] \in Ids /\ routes[a] \in Rows(a, {"running"}) /\ caddyRuns BY <1>i, ReachedRuns
<1>s. ~(UNCHANGED <<routes, ctr>>) BY DEF Reached, Up
<1>1. ASSUME NEW p \in Procs, EngineStep(p) PROVE Stops(p, a)
  BY <1>1, StepReaches DEF EngineStep
<1>2. ASSUME NEW p \in Procs, NEW b \in AppNames, Begin(p, b) PROVE FALSE
  BY <1>2, <1>s DEF Begin, DeployBegin, StopBegin, rows, routingVars
<1>3. ASSUME NEW p \in Procs, PushBegin(p) \/ Inspect(p) \/ Kill(p) PROVE FALSE
  BY <1>3, <1>s DEF PushBegin, Inspect, Kill, Crash, vars
<1>4. ASSUME NEW p \in Procs, Load(p) \/ PushFails(p) PROVE routes'[a] > routes[a] /\ Lost(routes'[a])
  <2>1. UNCHANGED ctr BY <1>4 DEF Load, PushFails, HookFails, vars
  <2>2. routes' = routes \/ routes' = DesiredRoutes BY <1>4 DEF FreshLoads, Load, PushFails
  <2> QED BY <2>1, <2>2, <1>s, LoadReaches
<1>5. ASSUME NEW p \in Procs, PushOver(p) PROVE Stops(p, a)
  <2>1. routes' = routes /\ (HookDone(p) \/ UNCHANGED vars) BY <1>5 DEF PushOver
  <2>2. CASE HookDone(p) BY <2>1, <2>2, StepReaches DEF Step
  <2>3. CASE UNCHANGED vars BY <2>1, <2>3, <1>s DEF vars
  <2> QED BY <2>1, <2>2, <2>3
<1>7. CASE World /\ UNCHANGED routingVars
  <2>1. WorldMove /\ routes' = routes BY <1>i, <1>7, WorldMoves DEF routingVars
  <2>2. ctr'[routes[a]] = ctr[routes[a]] BY <1>i, <1>0, <2>1, WorldUp DEF Rows
  <2> QED BY <2>1, <2>2 DEF Reached, Up
<1>8. CASE CaddyComesOrGoes BY <1>8, <1>0, <1>i DEF CaddyComesOrGoes, RoutingTypeOK
<1>9. CASE UNCHANGED allVars BY <1>9, <1>s DEF allVars
<1> QED BY <1>1, <1>2, <1>3, <1>4, <1>5, <1>7, <1>8, <1>9 DEF RoutingNext

(* Of one process no config goes stale on its way.                         *)
LEMMA AloneIsFresh ==
    ASSUME RouteInv
    PROVE  FreshLoads
BY DEF FreshLoads, RouteInv, Pushing, Load, PushFails

(* One command at a time, requests that reach a container that is up go on *)
(* to reach one, whatever a deploy does and wherever its push fails: only  *)
(* a stop ends that, Caddy, or a newer deployment that has lost its        *)
(* container.                                                              *)
THEOREM StaysReachedOneProcess ==
    ASSUME OneProcess
    PROVE  RoutingSpec => StaysReached
<1>1. RouteInv /\ [RoutingNext]_allVars =>
        [\A a \in AppNames :
            Reached(a) /\ ~Reached(a)' =>
                \/ ~caddyRuns'
                \/ \E p \in Procs : Stops(p, a)
                \/ routes'[a] > routes[a] /\ Lost(routes'[a])]_allVars
  BY RouteAgrees, AloneIsFresh, StepStaysReached
<1> QED BY <1>1, RoutesAgreeOneProcess, PTL DEF RoutingSpec, StaysReached
-----------------------------------------------------------------------------
(* Any number of commands at once.  Requests can then be lost to a config  *)
(* that was computed before and is loaded after a promotion; to a newer    *)
(* deploy that overtakes one in its hook; to a stop of what a deploy       *)
(* replaces the others by; and to two deploys of an app that are both let  *)
(* through.  Without these four they are not.                              *)

(* What a stop has removed stays down: it was running when the stop began, *)
(* and nobody deploys it any more.                                         *)
StaysDown ==
    \A p \in Procs :
        /\ pc[p] = "stopped" => ~Up(work[p])
        /\ \A q \in Procs : pc[p] \in Stopping /\ pc[q] \in InTry => work[p] # work[q]

(* The step of a process keeps it where it is, or moves it on.             *)
LEMMA StepOnwards ==
    ASSUME IInv, NEW q \in Procs, Step(q), ~Insert(q), NEW p \in Procs
    PROVE  /\ pc'[p] \in InTry => pc[p] \in InTry /\ work'[p] = work[p]
           /\ pc'[p] \in Stopping => pc[p] \in Stopping /\ work'[p] = work[p]
<1>t. TypeOK /\ OneStep(q) BY StepOne DEF IInv
<1>i. "idle" \notin InTry \union Stopping BY DEF InTry, Bare, Holding, Catching, Stopping
<1>1. CASE p # q BY <1>1, <1>t DEF OneStep, Others
<1>2. CASE p = q
  <2>1. pc'[p] \in InTry => pc[p] \in InTry /\ work'[p] = work[p] BY <1>2, <1>t, <1>i DEF OneStep, Onwards
  <2>2. pc'[p] \in Stopping => work'[p] = work[p] BY <1>2, <1>t, <1>i DEF OneStep, Onwards
  <2>3. ASSUME StopContainer(p) \/ RemoveContainer(p) \/ Stopped(p)
        PROVE  pc[p] \in Stopping
    BY <2>3 DEF StopContainer, RemoveContainer, Stopped, Stopping
  <2>4. ASSUME Replaced(p) \/ HookDone(p) \/ Promote(p)
        PROVE  pc'[p] \notin Stopping
    BY <2>4, <1>t
       DEF Replaced, HookDone, Promote, StartReplacing, Goto, Return, CatchAt, Holding, Stopping, TypeOK
  <2>5. ASSUME NotInserted(p) \/ SetPulling(p) \/ Pulled(p) \/ Created(p) \/ RecordStarting(p) \/ Started(p) \/ Probe(p) \/ Verdict(p)
        PROVE  pc'[p] \notin Stopping
    BY <2>5, <1>t
       DEF NotInserted, SetPulling, Pulled, Created, RecordStarting, Started, Probe, Verdict, Goto,
           Return, CatchAt, Holding, Stopping, TypeOK
  <2>6. ASSUME \/ Reap(p) \/ Reaped(p) \/ NotFound(p) \/ CallFails(p) \/ ForceRemove(p) \/ GiveUp(p)
               \/ HookFails(p) \/ StopPrevious(p) \/ RemovePrevious(p)
        PROVE  pc'[p] \notin Stopping
    BY <2>6, <1>t
       DEF Reap, Reaped, NotFound, CallFails, ForceRemove, GiveUp, HookFails, StopPrevious, RemovePrevious,
           Goto, Return, CatchAt, Holding, Stopping, TypeOK
  <2>7. pc'[p] \in Stopping => pc[p] \in Stopping BY <1>2, <2>3, <2>4, <2>5, <2>6, NoWriteFails DEF Step
  <2> QED BY <2>1, <2>2, <2>7
<1> QED BY <1>1, <1>2

LEMMA StepStaysDown ==
    ASSUME IInv, StaysDown, NEW q \in Procs, Step(q), ~Insert(q)
    PROVE  StaysDown'
<1>t. TypeOK /\ RunMove(q) BY StepRuns, RoutingAssumption DEF IInv
<1>1. ASSUME NEW p \in Procs, NEW r \in Procs, pc'[p] \in Stopping, pc'[r] \in InTry
      PROVE  work'[p] # work'[r]
  BY <1>1, StepOnwards DEF StaysDown
<1>2. ASSUME NEW p \in Procs, pc'[p] = "stopped" PROVE ctr'[work'[p]] \notin {"running", "restarted"}
  <2> PICK w : w = work[p] OBVIOUS
  <2>1. pc[p] \in Stopping /\ work'[p] = w BY <1>2, StepOnwards DEF Stopping
  <2>2. w \in Ids BY <2>1 DEF IInv, Busy, AtRow, Stopping
  <2>3. CASE pc[p] = "stopped"
    <3>1. ~Up(w) BY <2>3 DEF StaysDown
    <3>2. ~(pc[q] \in InTry /\ w = work[q]) BY <2>1 DEF StaysDown
    <3>3. ~Up(w)' BY <1>t, <2>2, <3>1, <3>2 DEF RunMove
    <3> QED BY <2>1, <3>3 DEF Up
  <2>4. CASE pc[p] # "stopped"
    <3>1. p = q BY <1>2, <2>4, StepOne DEF OneStep, Others
    <3>2. StopContainer(p) \/ RemoveContainer(p) \/ Stopped(p)
      BY <2>1, <3>1, NoWriteFails
         DEF Step, NotInserted, SetPulling, Pulled, Created, RecordStarting, Started, Probe, Verdict, Reap,
             Reaped, NotFound, CallFails, ForceRemove, GiveUp, Promote, HookDone, HookFails, StopPrevious, RemovePrevious,
             Replaced, Stopping, InTry, Bare, Holding, Catching, Replacing
    <3>3. ctr' = [ctr EXCEPT ![w] = "absent"]
      BY <1>2, <1>t, <3>2
         DEF StopContainer, RemoveContainer, Stopped, Goto, Return, SetContainer, TypeOK
    <3> QED BY <1>t, <2>1, <2>2, <3>3 DEF TypeOK
  <2> QED BY <2>3, <2>4
<1> QED BY <1>1, <1>2 DEF StaysDown, Up

LEMMA NextStaysDown ==
    ASSUME IInv, StaysDown, [Next]_vars
    PROVE  StaysDown'
<1>t. TypeOK BY DEF IInv
<1>w. \A p \in Procs : AtRow(p) => work[p] \in Ids /\ status[work[p]] # "none"
  BY DEF IInv, Busy, InStep, Allowed, Closed, Final, InProgress, Unlogged
<1>1. ASSUME NEW q \in Procs, Step(q), ~Insert(q) PROVE StaysDown' BY <1>1, StepStaysDown
<1>2. ASSUME UNCHANGED <<pc, work>>, \A d \in Ids : Up(d)' => Up(d) PROVE StaysDown'
  <2>1. \A p \in Procs : pc[p] = "stopped" => work[p] \in Ids BY <1>w DEF AtRow
  <2>2. \A p \in Procs : pc[p] = "stopped" => ~(ctr'[work[p]] \in {"running", "restarted"})
    BY <1>2, <2>1 DEF StaysDown, Up
  <2> QED BY <1>2, <2>2 DEF StaysDown, Up
<1>3. ASSUME NEW q \in Procs, Insert(q) PROVE StaysDown'
  <2>1. pc'[q] = "pending" /\ work'[q] = seq /\ UNCHANGED ctr /\ seq \in Ids /\ status[seq] = "none"
    BY <1>3, InsertRow, InsertGoes
  <2>2. \A p \in Procs \ {q} : pc'[p] = pc[p] /\ work'[p] = work[p] BY <1>3, InsertRow DEF Others
  <2>3. \A p \in Procs : pc[p] \in Stopping => work[p] # seq BY <1>w, <2>1 DEF AtRow, Stopping
  <2> QED BY <2>1, <2>2, <2>3 DEF StaysDown, Up, Stopping
<1>9. ASSUME NEW q \in Procs, NEW a \in AppNames, DeployBegin(q, a) PROVE StaysDown'
  <2>1. /\ pc'[q] = "insert" /\ UNCHANGED ctr
        /\ \A p \in Procs \ {q} : pc'[p] = pc[p] /\ work'[p] = work[p]
    BY <1>9, <1>t DEF DeployBegin, TypeOK
  <2> QED BY <2>1 DEF StaysDown, Up, InTry, Bare, Holding, Catching, Stopping
<1>4. ASSUME NEW q \in Procs, NEW a \in AppNames, StopBegin(q, a) PROVE StaysDown'
  <2>1. PICK d \in Ids : status[d] = "running" /\ work' = [work EXCEPT ![q] = d]
    BY <1>4 DEF StopBegin, Rows
  <2>2. /\ pc'[q] = "stop" /\ work'[q] = d /\ UNCHANGED ctr
        /\ \A p \in Procs \ {q} : pc'[p] = pc[p] /\ work'[p] = work[p]
    BY <1>4, <1>t, <2>1 DEF StopBegin, TypeOK
  <2>3. \A p \in Procs : pc[p] \in InTry => work[p] # d BY <2>1, TryNotRunning, RoutingAssumption
  <2> QED BY <2>2, <2>3 DEF StaysDown, Up, InTry, Bare, Holding, Catching
<1>5. ASSUME NEW q \in Procs, Crash(q) PROVE StaysDown'
  <2>1. /\ pc'[q] = "idle" /\ UNCHANGED ctr
        /\ \A p \in Procs \ {q} : pc'[p] = pc[p] /\ work'[p] = work[p]
    BY <1>5, <1>t DEF Crash, Return, TypeOK
  <2> QED BY <2>1 DEF StaysDown, Up, InTry, Bare, Holding, Catching, Stopping
<1>6. ASSUME NEW q \in Procs, Misbehave(q) PROVE StaysDown'
  <2>1. UNCHANGED <<pc, work>> /\ Up(work[q]) /\ \A d \in Ids : d # work[q] => ctr'[d] = ctr[d]
    BY <1>6, <1>t DEF Misbehave, procVars, SetContainer, TypeOK
  <2> QED BY <1>2, <2>1 DEF Up
<1>7. ASSUME NEW d \in Ids, OutOfBand(d) PROVE StaysDown'
  <2>1. UNCHANGED <<pc, work>> /\ \A e \in Ids : Up(e)' => Up(e)
    BY <1>7, <1>t DEF OutOfBand, procVars, SetContainer, TypeOK, Up
  <2> QED BY <1>2, <2>1
<1>8. ASSUME \/ \E a \in AppNames : CreateApp(a) \/ DeleteApp(a)
             \/ \E d \in Ids : ReconcileMark(d)
             \/ UNCHANGED vars
      PROVE  StaysDown'
  <2>1. UNCHANGED <<pc, work, ctr>>
    BY <1>8 DEF CreateApp, DeleteApp, ReconcileMark, procVars, vars
  <2> QED BY <1>2, <2>1 DEF Up
<1> QED BY <1>1, <1>3, <1>4, <1>5, <1>6, <1>7, <1>8, <1>9 DEF Next

(* Routes that lead where p has deployed to lead to that deployment or a   *)
(* newer one.                                                              *)
Leads(p, table) == table[owner[work[p]]] = 0 \/ table[owner[work[p]]] >= work[p]

(* What the push of a hook sends leads on, and so does what Caddy has from *)
(* then until the previous deployments are gone.                           *)
Ahead(p) ==
    /\ push[p] # "none" => pc[p] \in {"idle", "hook"}
    /\ pc[p] = "hook" /\ push[p] = "load" => Leads(p, config[p])
    /\ pc[p] \in Replacing \/ (pc[p] = "hook" /\ push[p] = "over") => Leads(p, routes)

AheadInv == Agree /\ DInv /\ StaysDown /\ \A p \in Procs : Ahead(p)

LEMMA AheadUnrouted ==
    ASSUME AheadInv, NEW p \in Procs
    PROVE  Unrouted(p)
<1>i. Agree /\ DInv /\ StaysDown /\ Ahead(p) BY DEF AheadInv
<1>1. ASSUME NEW a \in AppNames, routes[a] # 0, routes[a] \in todo[p] PROVE FALSE
  <2> PICK w : w = work[p] OBVIOUS
  <2> PICK r : r = routes[a] OBVIOUS
  <2>1. pc[p] \in Replacing /\ owner[r] = owner[w] /\ r < w BY <1>i, <1>1 DEF DInv, Succeeding
  <2>2. owner[r] = a BY <1>i, <1>1 DEF Agree, RoutesStand
  <2>3. r = 0 \/ r >= w BY <1>i, <2>1, <2>2 DEF Ahead, Leads
  <2>4. w \in Ids /\ r \in Ids BY <1>i, <1>1, <2>1 DEF DInv, IInv, Busy, AtRow, Replacing, Agree, RoutingTypeOK
  <2> QED BY <1>1, <2>1, <2>3, <2>4
<1>2. pc[p] = "stopped" => ~Up(work[p]) BY <1>i DEF StaysDown
<1> QED BY <1>1, <1>2 DEF Unrouted

(* The rows, too, ask for the deployment of a process or a newer one, from *)
(* its promotion until it is done.                                         *)
LEMMA DesiredLeads ==
    ASSUME AheadInv, NEW p \in Procs, pc[p] \in Promoted
    PROVE  Leads(p, DesiredRoutes)
<1>i. Agree /\ IInv /\ TypeOK /\ Owned /\ Succeeding(p) BY DEF AheadInv, Agree, DInv, IInv
<1> PICK w : w = work[p] OBVIOUS
<1> PICK a : a = owner[w] OBVIOUS
<1>1. PICK e \in Ids : e >= w /\ owner[e] = a /\ status[e] = "running"
  BY <1>i DEF Succeeding, Succeeded
<1>2. a \in AppNames /\ e \in Rows(a, {"running"}) BY <1>i, <1>1 DEF Owned, TypeOK, Rows
<1>3. ASSUME DesiredRoutes[a] # 0 PROVE DesiredRoutes[a] >= w
  <2>1. a \in Hosted /\ DesiredRoutes[a] \in Ids BY <1>2, <1>3, DesiredRuns DEF Rows
  <2>2. e <= DesiredRoutes[a] BY <1>i, <1>2, <2>1, DesiredNewest
  <2>3. w \in Ids BY <1>i DEF IInv, Busy, AtRow, Promoted, Replacing
  <2> QED BY <1>1, <2>1, <2>2, <2>3
<1> QED BY <1>3 DEF Leads

LEMMA FreshRoutes ==
    ASSUME FreshLoads, [RoutingNext]_allVars
    PROVE  routes' \in {routes, NoRoutes, DesiredRoutes}
<1>1. ASSUME NEW p \in Procs, Load(p) \/ PushFails(p) PROVE routes' \in {routes, DesiredRoutes}
  BY <1>1 DEF Load, PushFails, FreshLoads
<1> QED
  BY <1>1
     DEF RoutingNext, Begin, EngineStep, PushBegin, Inspect, PushOver, Kill, CaddyComesOrGoes, routingVars,
         allVars

(* An app keeps its deployments. *)
LEMMA OwnerStays ==
    ASSUME IInv, [Next]_vars, NEW d \in Ids, status[d] # "none"
    PROVE  owner'[d] = owner[d]
<1>t. TypeOK BY DEF IInv
<1>1. ASSUME NEW p \in Procs, Insert(p) PROVE owner'[d] = owner[d]
  <2>1. d # seq BY <1>1, InsertRow
  <2> QED BY <1>1, <2>1, InsertRow
<1>2. ASSUME NEW p \in Procs, Step(p), ~Insert(p) PROVE owner' = owner BY <1>2, StepOne DEF OneStep
<1> QED BY <1>1, <1>2
        DEF Next, vars, rows, CreateApp, DeleteApp, DeployBegin, StopBegin, Crash, Misbehave, OutOfBand,
            ReconcileMark

(* A process that is where it was. *)
LEMMA LeadsOn ==
    ASSUME AheadInv, FreshLoads, [RoutingNext]_allVars, NEW p \in Procs, work'[p] = work[p],
           pc[p] \in Replacing \/ (pc[p] = "hook" /\ push[p] = "over")
    PROVE  Leads(p, routes)'
<1>i. IInv /\ TypeOK /\ Owned /\ Ahead(p) /\ Succeeding(p) /\ RoutingTypeOK
  BY DEF AheadInv, Agree, DInv, IInv
<1> PICK w : w = work[p] OBVIOUS
<1> PICK a : a = owner[w] OBVIOUS
<1>1. w \in Ids /\ pc[p] \in Promoted BY <1>i DEF IInv, Busy, AtRow, Replacing, Promoted
<1>2. status[w] # "none"
  BY <1>i DEF IInv, InStep, AtRow, Allowed, Closed, Final, Replacing, InProgress, Unlogged
<1>3. owner'[w] = a BY <1>i, <1>1, <1>2, RoutingIsEngine, OwnerStays
<1>4. a \in AppNames
  <2>1. PICK e \in Ids : owner[e] = a /\ status[e] = "running" BY <1>i, <1>1 DEF Succeeding, Succeeded
  <2> QED BY <1>i, <2>1 DEF Owned, TypeOK
<1>5. routes' \in {routes, NoRoutes, DesiredRoutes} BY FreshRoutes
<1>6. routes[a] = 0 \/ routes[a] >= w BY <1>i DEF Ahead, Leads
<1>7. DesiredRoutes[a] = 0 \/ DesiredRoutes[a] >= w BY <1>1, DesiredLeads DEF Leads
<1>8. NoRoutes[a] = 0 BY <1>4 DEF NoRoutes
<1> QED BY <1>3, <1>5, <1>6, <1>7, <1>8 DEF Leads

LEMMA StaysAhead ==
    ASSUME AheadInv, FreshLoads, [RoutingNext]_allVars, NEW p \in Procs,
           pc'[p] = pc[p], work'[p] = work[p], push'[p] = push[p], config'[p] = config[p]
    PROVE  Ahead(p)'
<1>i. IInv /\ TypeOK /\ Ahead(p) BY DEF AheadInv, DInv, IInv
<1> PICK w : w = work[p] OBVIOUS
<1>1. ASSUME pc[p] = "hook" PROVE owner'[w] = owner[w]
  <2>1. w \in Ids /\ status[w] # "none"
    BY <1>i, <1>1 DEF IInv, Busy, InStep, AtRow, Allowed, Closed, Final, InProgress, Unlogged
  <2> QED BY <1>i, <2>1, RoutingIsEngine, OwnerStays
<1>2. pc'[p] = "hook" /\ push'[p] = "load" => Leads(p, config[p])'
  BY <1>i, <1>1 DEF Ahead, Leads
<1>3. pc'[p] \in Replacing \/ (pc'[p] = "hook" /\ push'[p] = "over") => Leads(p, routes)'
  BY LeadsOn
<1> QED BY <1>i, <1>2, <1>3 DEF Ahead
(* Previous deployments are taken down only by who has been ahead.         *)
LEMMA BeginsReplacingAhead ==
    ASSUME IInv, NEW p \in Procs, Step(p), Hooked(p), pc[p] # "hook", pc'[p] \in Replacing
    PROVE  pc[p] \in Replacing /\ work'[p] = work[p]
<1>0. ~Insert(p) BY InsertGoes DEF Replacing
<1>t. TypeOK /\ OneStep(p) BY <1>0, StepOne DEF IInv
<1>1. work'[p] = work[p] BY <1>t DEF OneStep, Onwards, Replacing
<1>2. ASSUME Promote(p) PROVE pc'[p] \notin Replacing
  <2>1. CASE Goto(p, "hook") \/ Goto(p, CatchAt("healthy"))
    BY <2>1, <1>t DEF Goto, CatchAt, Holding, Replacing, TypeOK
  <2>2. CASE Open(work[p]) /\ StartReplacing(p, PreviousOf(work[p]))
    BY <1>2, <2>2, <1>t DEF Promote, Hooked, StartReplacing, Return, Replacing, TypeOK
  <2> QED BY <1>2, <2>1, <2>2 DEF Promote
<1>3. ASSUME \/ NotInserted(p) \/ SetPulling(p) \/ Pulled(p) \/ Created(p) \/ RecordStarting(p)
             \/ Started(p) \/ Probe(p) \/ Verdict(p)
      PROVE  pc'[p] \notin Replacing
  BY <1>3, <1>t
     DEF NotInserted, SetPulling, Pulled, Created, RecordStarting, Started, Probe, Verdict, Goto, Return, CatchAt, Holding,
         Replacing, TypeOK
<1>4. ASSUME \/ Reap(p) \/ Reaped(p) \/ NotFound(p) \/ CallFails(p) \/ ForceRemove(p) \/ GiveUp(p)
             \/ StopContainer(p) \/ RemoveContainer(p) \/ Stopped(p)
      PROVE  pc'[p] \notin Replacing
  BY <1>4, <1>t
     DEF Reap, Reaped, NotFound, CallFails, ForceRemove, GiveUp, StopContainer, RemoveContainer, Stopped,
         Goto, Return, CatchAt, Holding, Replacing, TypeOK
<1>5. ASSUME StopPrevious(p) \/ RemovePrevious(p) \/ Replaced(p) PROVE pc[p] \in Replacing
  BY <1>5 DEF StopPrevious, RemovePrevious, Replaced, Replacing
<1> QED BY <1>0, <1>1, <1>2, <1>3, <1>4, <1>5, NoWriteFails DEF Step, HookDone, HookFails

(* Everybody but the process that moves stays where it is.                 *)
LEMMA OthersAhead ==
    ASSUME AheadInv, FreshLoads, [RoutingNext]_allVars, NEW p \in Procs, NEW q \in Procs, p # q,
           \/ \E a \in AppNames : Begin(q, a)
           \/ EngineStep(q) \/ PushBegin(q) \/ Inspect(q) \/ Load(q) \/ PushOver(q) \/ PushFails(q) \/ Kill(q)
    PROVE  Ahead(p)'
<1>t. IInv /\ TypeOK /\ push \in [Procs -> PushPlaces] /\ config \in [Procs -> [AppNames -> Ids \union {0}]]
  BY DEF AheadInv, Agree, IInv, RoutingTypeOK, PushPlaces
<1>1. ASSUME Step(q) PROVE pc'[p] = pc[p] /\ work'[p] = work[p]
  BY <1>t, <1>1, StepOne, InsertRow DEF OneStep, Others
<1>2. Step(q) \/ UNCHANGED vars \/ Crash(q) \/ \E a \in AppNames : DeployBegin(q, a) \/ StopBegin(q, a)
  BY DEF Begin, EngineStep, PushBegin, Inspect, Load, PushOver, PushFails, Kill, Step
<1>3. pc'[p] = pc[p] /\ work'[p] = work[p]
  <2>1. CASE UNCHANGED vars BY <2>1 DEF vars
  <2>2. CASE Crash(q) BY <2>2, <1>t DEF Crash, Return, TypeOK
  <2>3. CASE \E a \in AppNames : DeployBegin(q, a) \/ StopBegin(q, a)
    <3>1. /\ pc' = [pc EXCEPT ![q] = "insert"] \/ pc' = [pc EXCEPT ![q] = "stop"]
          /\ work' = work \/ \E d \in Ids : work' = [work EXCEPT ![q] = d]
      BY <2>3 DEF DeployBegin, StopBegin, Rows
    <3> QED BY <3>1, <1>t DEF TypeOK
  <2> QED BY <1>1, <1>2, <2>1, <2>2, <2>3
<1>4. push'[p] = push[p] /\ config'[p] = config[p]
  BY <1>t DEF Begin, EngineStep, PushBegin, Inspect, Load, PushOver, PushFails, Kill, SetPush, routingVars
<1> QED BY <1>3, <1>4, StaysAhead

(* The process that moves: at the engine's awaits, *)
LEMMA EngineAhead ==
    ASSUME AheadInv, FreshLoads, [RoutingNext]_allVars, NEW p \in Procs,
           EngineStep(p) \/ PushOver(p) \/ PushFails(p) \/ Kill(p) \/ \E a \in AppNames : Begin(p, a)
    PROVE  Ahead(p)'
<1>t. IInv /\ TypeOK /\ Ahead(p) /\ push \in [Procs -> PushPlaces]
  BY DEF AheadInv, Agree, IInv, RoutingTypeOK, PushPlaces
<1>1. CASE EngineStep(p)
  <2>1. /\ Step(p) /\ Hooked(p) /\ pc[p] # "hook"
        /\ push'[p] = IF pc'[p] = "hook" \/ (pc[p] = "stopped" /\ Open(work[p])) THEN "inspect" ELSE "none"
    BY <1>1, <1>t DEF EngineStep, SetPush
  <2>2. pc[p] = "stopped" => pc'[p] = "idle"
    BY <2>1, <1>t, NoWriteFails
       DEF Step, Insert, NotInserted, SetPulling, Pulled, Created, RecordStarting, Started, Probe, Verdict, Reap, Reaped, NotFound, CallFails,
           ForceRemove, GiveUp, Promote, HookDone, HookFails, StopPrevious, RemovePrevious, Replaced,
           StopContainer, RemoveContainer, Stopped, Return, TypeOK
  <2>3. pc'[p] \in Replacing => Leads(p, routes)' BY <1>t, <2>1, BeginsReplacingAhead, LeadsOn
  <2> QED BY <2>1, <2>2, <2>3 DEF Ahead
<1>2. CASE PushOver(p)
  <2>1. push[p] = "over" /\ push'[p] = "none" BY <1>2, <1>t DEF PushOver, SetPush
  <2>2. CASE pc[p] = "hook"
    <3>1. pc'[p] = "idle" \/ (pc'[p] \in Replacing /\ work' = work)
      BY <1>2, <1>t, <2>2 DEF PushOver, HookDone, StartReplacing, Return, Replacing, TypeOK
    <3>2. pc'[p] \in Replacing => Leads(p, routes)' BY <2>1, <2>2, <3>1, LeadsOn DEF Replacing
    <3> QED BY <2>1, <3>2 DEF Ahead
  <2>3. CASE pc[p] # "hook"
    <3>1. pc'[p] = "idle" BY <1>2, <1>t, <2>1, <2>3 DEF PushOver, Ahead, vars
    <3> QED BY <2>1, <3>1 DEF Ahead, Replacing
  <2> QED BY <2>2, <2>3
<1>3. CASE PushFails(p) \/ Kill(p)
  <2>1. push'[p] = "none" BY <1>3, <1>t DEF PushFails, Kill, SetPush
  <2>2. pc'[p] = "idle"
    BY <1>3, <1>t DEF PushFails, Kill, HookFails, Crash, Return, Ahead, vars, TypeOK
  <2> QED BY <2>1, <2>2 DEF Ahead, Replacing
<1>4. ASSUME NEW a \in AppNames, Begin(p, a) PROVE Ahead(p)'
  <2>1. push'[p] = "none" BY <1>4 DEF Begin, routingVars
  <2>2. pc'[p] \in {"insert", "stop"} BY <1>4, <1>t DEF Begin, DeployBegin, StopBegin, TypeOK
  <2> QED BY <2>1, <2>2 DEF Ahead, Replacing
<1> QED BY <1>1, <1>2, <1>3, <1>4

(* and in its push. *)
LEMMA PushAhead ==
    ASSUME AheadInv, FreshLoads, [RoutingNext]_allVars, NEW p \in Procs,
           PushBegin(p) \/ Inspect(p) \/ Load(p)
    PROVE  Ahead(p)'
<1>t. /\ IInv /\ TypeOK /\ Owned /\ RoutesStand /\ Ahead(p) /\ Succeeding(p) /\ push \in [Procs -> PushPlaces]
      /\ config \in [Procs -> [AppNames -> Ids \union {0}]]
  BY DEF AheadInv, Agree, DInv, IInv, RoutingTypeOK, PushPlaces
<1> PICK w : w = work[p] OBVIOUS
<1> PICK a : a = owner[w] OBVIOUS
<1>1. UNCHANGED <<owner, pc, work>> BY DEF PushBegin, Inspect, Load, vars
<1>2. CASE PushBegin(p)
  BY <1>1, <1>2, <1>t DEF PushBegin, SetPush, Ahead, Replacing
<1>3. CASE Inspect(p) /\ pc[p] = "hook"
  <2>1. \/ push'[p] = "over" /\ routes' = routes /\ ~caddyRuns
        \/ push'[p] = "load" /\ config'[p] = DesiredRoutes
    BY <1>3, <1>t DEF Inspect, SetPush
  <2>2. a \in AppNames
    <3>1. PICK e \in Ids : owner[e] = a /\ status[e] = "running"
      BY <1>3, <1>t DEF Succeeding, Succeeded, Promoted
    <3> QED BY <1>t, <3>1 DEF Owned, TypeOK
  <2>3. ~caddyRuns => routes[a] = 0 BY <1>t, <2>2 DEF RoutesStand, NoRoutes
  <2>4. DesiredRoutes[a] = 0 \/ DesiredRoutes[a] >= w BY <1>3, DesiredLeads DEF Promoted, Leads
  <2> QED BY <1>1, <1>3, <2>1, <2>3, <2>4 DEF Ahead, Leads, Replacing
<1>4. CASE Inspect(p) /\ pc[p] # "hook"
  <2>1. pc'[p] = "idle" BY <1>1, <1>4, <1>t DEF Inspect, Ahead
  <2> QED BY <2>1 DEF Ahead, Replacing
<1>5. CASE Load(p)
  <2>1. push[p] = "load" /\ push'[p] = "over" /\ routes' = config[p] /\ pc[p] \in {"idle", "hook"}
    BY <1>5, <1>t DEF Load, SetPush, Ahead
  <2>2. pc[p] = "hook" => config[p][a] = 0 \/ config[p][a] >= w BY <1>t, <2>1 DEF Ahead, Leads
  <2> QED BY <1>1, <2>1, <2>2 DEF Ahead, Leads, Replacing
<1> QED BY <1>2, <1>3, <1>4, <1>5

LEMMA NextAhead ==
    ASSUME AheadInv, FreshLoads, [RoutingNext]_allVars
    PROVE  \A p \in Procs : Ahead(p)'
<1>1. ASSUME NEW q \in Procs,
             \/ \E a \in AppNames : Begin(q, a)
             \/ EngineStep(q) \/ PushBegin(q) \/ Inspect(q) \/ Load(q) \/ PushOver(q) \/ PushFails(q) \/ Kill(q)
      PROVE  \A p \in Procs : Ahead(p)'
  <2>1. Ahead(q)' BY <1>1, EngineAhead, PushAhead
  <2>2. \A p \in Procs : p # q => Ahead(p)' BY <1>1, OthersAhead
  <2> QED BY <2>1, <2>2
<1>2. ASSUME (World /\ UNCHANGED routingVars) \/ CaddyComesOrGoes \/ UNCHANGED allVars
      PROVE  \A p \in Procs : Ahead(p)'
  <2>1. UNCHANGED <<pc, work, push, config>>
    BY <1>2 DEF World, CreateApp, DeleteApp, Misbehave, procVars, routingVars, CaddyComesOrGoes,
                vars, allVars
  <2> QED BY <2>1, StaysAhead
<1> QED BY <1>1, <1>2 DEF RoutingNext
(* Rows, and what Caddy routes to. *)
LEMMA NextRoutesStand ==
    ASSUME AheadInv, FreshLoads, [RoutingNext]_allVars
    PROVE  Owned' /\ RoutesStand'
<1>i. Agree /\ IInv /\ TypeOK /\ Owned /\ RoutesStand /\ \A p \in Procs : Unrouted(p)
  BY AheadUnrouted DEF AheadInv, Agree, IInv
<1>1. ASSUME UNCHANGED <<apps, owner, status, ctr, caddyRuns>>,
             routes' = routes \/ (caddyRuns /\ routes' = DesiredRoutes)
      PROVE  Owned' /\ RoutesStand'
  <2>1. Owned' BY <1>i, <1>1 DEF Owned
  <2>2. CASE routes' = routes BY <1>i, <1>1, <2>1, <2>2 DEF RoutesStand, Up
  <2>3. CASE caddyRuns /\ routes' = DesiredRoutes BY <1>1, <2>1, <2>3, LoadRoutes
  <2> QED BY <1>1, <2>2, <2>3
<1>2. ASSUME NEW p \in Procs, Step(p), UNCHANGED <<routes, caddyRuns>> PROVE Owned' /\ RoutesStand'
  BY <1>i, <1>2, StepOwned, StepRoutes
<1>3. ASSUME NEW p \in Procs, EngineStep(p) PROVE Owned' /\ RoutesStand'
  BY <1>2, <1>3 DEF EngineStep
<1>4. ASSUME NEW p \in Procs, PushBegin(p) \/ Inspect(p) \/ Kill(p) PROVE Owned' /\ RoutesStand'
  BY <1>1, <1>4 DEF PushBegin, Inspect, Kill, Crash, rows, vars
<1>5. ASSUME NEW p \in Procs, PushOver(p) PROVE Owned' /\ RoutesStand'
  BY <1>1, <1>2, <1>5 DEF PushOver, Step, vars
<1>6. ASSUME NEW p \in Procs, Load(p) \/ PushFails(p) PROVE Owned' /\ RoutesStand'
  <2>1. UNCHANGED <<apps, owner, status, ctr, caddyRuns>> BY <1>6 DEF Load, PushFails, HookFails, rows, vars
  <2>2. routes' = routes \/ (caddyRuns /\ routes' = DesiredRoutes) BY <1>6 DEF FreshLoads, Load, PushFails
  <2> QED BY <1>1, <2>1, <2>2
<1>7. ASSUME NEW p \in Procs, NEW a \in AppNames, Begin(p, a) PROVE Owned' /\ RoutesStand'
  <2>1. UNCHANGED <<apps, owner, status, ctr, caddyRuns, routes>>
    BY <1>7 DEF Begin, DeployBegin, StopBegin, rows, routingVars
  <2> QED BY <1>1, <2>1
<1>8. CASE World /\ UNCHANGED routingVars
  <2>1. WorldMove BY <1>i, <1>8, WorldMoves
  <2> QED BY <1>i, <2>1, WorldRoutes DEF WorldMove
<1>9. CASE CaddyComesOrGoes BY <1>i, <1>9, CaddyRoutes
<1>10. CASE UNCHANGED allVars BY <1>1, <1>10 DEF allVars
<1> QED BY <1>3, <1>4, <1>5, <1>6, <1>7, <1>8, <1>9, <1>10 DEF RoutingNext

LEMMA NextUnreached ==
    ASSUME AheadInv, FreshLoads, [RoutingNext]_allVars, NEW p \in Procs, pc'[p] \in InTry, NEW a \in AppNames
    PROVE  routes'[a] # work'[p]
<1>i. Agree /\ IInv /\ TypeOK /\ Owned /\ RoutesStand BY DEF AheadInv, Agree, IInv
<1>n. \A where \in {"idle", "insert", "stop"} : where \notin InTry BY DEF InTry, Bare, Holding, Catching
<1> PICK w : w = work[p] OBVIOUS
<1>1. CASE pc[p] \in InTry /\ work'[p] = w
  <2>1. w \in Ids /\ status[w] # "running" /\ routes[a] # w
    BY <1>i, <1>1, TryNotRunning, RoutingAssumption
       DEF IInv, Busy, AtRow, Agree, InTry, Bare, Holding, Catching
  <2>2. DesiredRoutes[a] # w BY <2>1, DesiredRuns DEF Rows
  <2>3. NoRoutes[a] # w BY <2>1 DEF NoRoutes
  <2> QED BY <1>1, <2>1, <2>2, <2>3, FreshRoutes
<1>2. CASE ~(pc[p] \in InTry /\ work'[p] = w)
  <2>1. ASSUME NEW q \in Procs, Step(q), ~Insert(q) PROVE FALSE BY <1>i, <1>2, <2>1, StepOnwards
  <2>2. ASSUME NEW q \in Procs, Crash(q) PROVE FALSE
    BY <1>i, <1>n, <1>2, <2>2 DEF Crash, Return, TypeOK
  <2>3. ASSUME NEW q \in Procs, NEW b \in AppNames, StopBegin(q, b) PROVE FALSE
    <3>1. PICK d \in Ids : work' = [work EXCEPT ![q] = d] BY <2>3 DEF StopBegin, Rows
    <3>2. pc' = [pc EXCEPT ![q] = "stop"] BY <2>3 DEF StopBegin
    <3> QED BY <1>i, <1>n, <1>2, <3>1, <3>2 DEF TypeOK
  <2>4. ASSUME UNCHANGED <<pc, work>> PROVE FALSE BY <1>2, <2>4
  <2>5. ASSUME NEW q \in Procs, NEW b \in AppNames, DeployBegin(q, b) PROVE FALSE
    BY <1>i, <1>n, <1>2, <2>5 DEF DeployBegin, TypeOK
  <2>6. PICK q \in Procs : EngineStep(q) /\ Insert(q)
    BY <2>1, <2>2, <2>3, <2>4, <2>5
       DEF RoutingNext, Begin, EngineStep, PushBegin, Inspect, Load, PushOver, PushFails, Kill, World,
           CreateApp, DeleteApp, Misbehave, procVars, CaddyComesOrGoes, vars, allVars, Step, Insert,
           HookDone, HookFails
  <2>7. routes' = routes /\ routes[a] # seq BY <1>i, <2>6, InsertUnrouted DEF EngineStep
  <2>8. p = q BY <1>i, <1>2, <2>6, InsertRow DEF Others
  <2>9. work'[p] = seq BY <1>i, <2>6, <2>8, InsertGoes
  <2> QED BY <2>7, <2>9
<1> QED BY <1>1, <1>2

LEMMA InitAheadInv == RoutingInit => AheadInv
<1> SUFFICES ASSUME RoutingInit PROVE AheadInv
  OBVIOUS
<1>1. RouteInv /\ DInv BY InitRouteInv, InitDInv DEF RoutingInit
<1>2. \A p \in Procs : pc[p] = "idle" /\ push[p] = "none" BY DEF RoutingInit, Init
<1>3. StaysDown BY <1>2 DEF StaysDown, Stopping
<1>4. \A p \in Procs : Ahead(p) BY <1>2 DEF Ahead, Replacing
<1> QED BY <1>1, <1>3, <1>4, RouteAgrees DEF AheadInv

LEMMA NextAheadInv ==
    ASSUME NoMeddling, AheadInv, OneChecking, NotOvertaken, NotStopped, FreshLoads, [RoutingNext]_allVars
    PROVE  AheadInv'
<1>i. IInv /\ DInv /\ StaysDown /\ RoutingTypeOK BY DEF AheadInv, Agree
<1>1. [Next]_vars BY RoutingIsEngine
<1>2. DInv' /\ StaysDown' BY <1>i, <1>1, NextDInv, NextStaysDown
<1>3. IInv' /\ RoutingTypeOK' BY <1>i, <1>1, NextIInv, NextRoutingType
<1>4. \A p \in Procs : pc'[p] \in InTry => \A a \in AppNames : routes'[a] # work'[p] BY NextUnreached
<1>5. Agree' BY <1>3, <1>4, NextRoutesStand DEF Agree
<1> QED BY <1>2, <1>5, NextAhead DEF AheadInv

(* Any number of commands at once, requests that reach a container that is *)
(* up go on to reach one, until a stop, Caddy or a newer deployment that   *)
(* has lost its container ends that: as long as pushes do not cross, that  *)
(* is no config that has become stale on its way changes what Caddy routes *)
(* to (ingress/caddy.ts:236), no deploy is overtaken in its hook, no stop  *)
(* takes down what one has just promoted (engine.ts:100) and no two are    *)
(* between check and insert for one app (engine.ts:141).                   *)
THEOREM StaysReachedUnlessCrossed ==
    ASSUME NoMeddling
    PROVE  RoutingSpec /\ []OneChecking /\ []NotOvertaken /\ []NotStopped /\ [][FreshLoads]_allVars
              => StaysReached
<1>1. AheadInv /\ OneChecking /\ NotOvertaken /\ NotStopped /\ [RoutingNext]_allVars /\ [FreshLoads]_allVars
        => AheadInv'
  <2>1. ASSUME UNCHANGED allVars, AheadInv PROVE FreshLoads
    BY <2>1 DEF FreshLoads, allVars
  <2> QED BY <2>1, NextAheadInv
<1>2. AheadInv /\ [RoutingNext]_allVars /\ [FreshLoads]_allVars =>
        [\A a \in AppNames :
            Reached(a) /\ ~Reached(a)' =>
                \/ ~caddyRuns'
                \/ \E p \in Procs : Stops(p, a)
                \/ routes'[a] > routes[a] /\ Lost(routes'[a])]_allVars
  BY AheadUnrouted, StepStaysReached DEF AheadInv
<1> QED BY <1>1, <1>2, InitAheadInv, PTL DEF RoutingSpec, StaysReached
=============================================================================
