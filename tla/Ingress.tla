------------------------------ MODULE Ingress ------------------------------
(***************************************************************************)
(* The Caddy container (ingress/caddy.ts): ingressUp, which stores its     *)
(* settings first (Settings), ingressDown and syncIngress, by processes    *)
(* that interleave at every await.  What routes a config holds is left to  *)
(* Routing; here a config is the TLS mode it was built for.                *)
(***************************************************************************)
EXTENDS Settings

CONSTANTS Requests,   \* the changes users ask `ingress up` for
          MaxRetries, \* MAX_RETRIES, forty in the code
          NoCaddy,    \* there is no container paas-caddy
          Outages     \* a subset of OutageKinds

OutageKinds ==
    {"callError",    \* an engine call or a load is refused, or its answer lost
     "silence",      \* Caddy accepts a load and does not answer it
     "removeError",  \* the removal after a failed start is refused
     "exit"}         \* Caddy stops or starts over by itself

PortNumbers == Ports \union {80, 443}

Caddies ==
    [by : Clients, state : {"created", "running", "exited"}, ports : PortNumbers \X PortNumbers,
     tls : TlsModes \union {"none"}, ready : BOOLEAN]

ASSUME IngressAssumption ==
    /\ Requests \subseteq Changes
    /\ MaxRetries \in Nat
    /\ NoCaddy \notin Caddies
    /\ Outages \subseteq OutageKinds

VARIABLES
    caddy,  \* the container named paas-caddy, or NoCaddy
    at,     \* at[c]: the engine or admin call c is at
    tries,  \* tries[c]: the attempt pushConfig is at
    calm    \* history: whose command nobody else has disturbed so far

ingressVars == <<caddy, at, tries, calm>>
allVars     == <<stored, writing, lock, asked, left, pc, seen, caddy, at, tries, calm>>

UpCalls   ==
    {"removeOld", "create", "startNew", "cleanup", "startOld", "push", "waiting", "done"}
DownCalls == {"stop", "remove"}
SyncCalls == {"sync", "load"}

PortsOf(settings) == <<settings[HttpKey], settings[HttpsKey]>>

(* A container's id is known to the call that created it and to nobody     *)
(* else, so its creator can stand for it; everybody else goes by the name. *)
Fresh(c) ==
    [by |-> c, state |-> "created", ports |-> PortsOf(seen[c]), tls |-> "none", ready |-> FALSE]

Exists      == caddy # NoCaddy
Running     == Exists /\ caddy.state = "running"
Mine(c)     == Exists /\ caddy.by = c

(* The admin API answers some time after the container was started. *)
Answering == Running /\ caddy.ready

SlipLabelsMatch(c) == caddy.ports[1] = seen[c][HttpKey]
SlipLabelsAsked(c) == caddy.ports = PortsOf(asked[c])
LabelsMatch(c)     == caddy.ports = PortsOf(seen[c])

(* Starting a container, and stopping one; neither touches one that is so  *)
(* already.  Caddy keeps no pushed config over a start.                    *)
StartedCaddy ==
    IF Running THEN caddy ELSE [caddy EXCEPT !.state = "running", !.tls = "none", !.ready = FALSE]
StoppedCaddy ==
    IF Running THEN [caddy EXCEPT !.state = "exited", !.tls = "none", !.ready = FALSE] ELSE caddy

(* A load that arrives; Caddy takes the config as a whole. *)
Loaded(c) == IF Answering THEN [caddy EXCEPT !.tls = seen[c][TlsKey]] ELSE caddy

(* What the call c is at makes of the container. *)
Effect(c) ==
    CASE at[c] = "removeOld" -> NoCaddy
      [] at[c] = "create" -> IF Exists THEN caddy ELSE Fresh(c)
      [] at[c] = "startNew" -> IF Mine(c) THEN StartedCaddy ELSE caddy
      [] at[c] = "startOld" -> IF Exists THEN StartedCaddy ELSE caddy
      [] at[c] \in {"push", "load"} -> Loaded(c)
      [] at[c] = "stop" -> IF Exists THEN StoppedCaddy ELSE caddy
      [] at[c] = "remove" -> IF Running THEN caddy ELSE NoCaddy
      [] OTHER -> caddy

-----------------------------------------------------------------------------
Alone(c) == calm' = calm \intersect {c}

(* The command goes on to the next call, or ends, by a return or a throw.  *)
Goto(c, where) ==
    /\ at' = [at EXCEPT ![c] = where]
    /\ Alone(c)
    /\ UNCHANGED <<settingsVars, tries>>

Finish(c) ==
    /\ End(c)
    /\ at' = [at EXCEPT ![c] = "none"]
    /\ tries' = [tries EXCEPT ![c] = 0]
    /\ Alone(c)
    /\ UNCHANGED <<stored, lock>>

Free(c) == pc[c] = "idle" /\ at[c] = "none"

-----------------------------------------------------------------------------
(* ingressUp.  Nothing is asked of the engine before the settings are      *)
(* stored.                                                                 *)

UpBegin(c, changes) ==
    /\ Free(c)
    /\ Ask(c, changes)
    /\ calm' = calm \union {c}
    /\ UNCHANGED <<caddy, at, tries>>

(* Reconcile finds Caddy stopped and brings it up as it is. *)
StartIngressItem(c) ==
    /\ Exists
    /\ ~Running
    /\ UpBegin(c, Nothing)

Store(c) ==
    /\ \/ ReadAndValidate(c) \/ BeginImmediate(c) \/ Commit(c) \/ Rollback(c)
       \/ \E f \in Fields : Upsert(c, f)
    /\ Alone(c)
    /\ UNCHANGED <<caddy, at, tries>>

Inspect(c) ==
    /\ pc[c] = "use"
    /\ at[c] = "none"
    /\ \/ ~Exists /\ Goto(c, "create")
       \/ Exists /\ ~LabelsMatch(c) /\ Goto(c, "removeOld")
       \/ Exists /\ LabelsMatch(c) /\ Running /\ Goto(c, "push")
       \/ Exists /\ LabelsMatch(c) /\ ~Running /\ Goto(c, "startOld")
    /\ UNCHANGED caddy

(* By name and by force: whatever has the name by now. *)
RemoveOld(c) ==
    /\ at[c] = "removeOld"
    /\ Exists
    /\ caddy' = NoCaddy
    /\ Goto(c, "create")

(* createCaddy, whose image, network and volume are there. *)
Create(c) ==
    /\ at[c] = "create"
    /\ ~Exists
    /\ caddy' = Fresh(c)
    /\ Goto(c, "startNew")

StartNew(c) ==
    /\ at[c] = "startNew"
    /\ \/ Mine(c) /\ caddy' = StartedCaddy /\ Goto(c, "push")
       \/ ~Mine(c) /\ Goto(c, "cleanup") /\ UNCHANGED caddy

(* By id; a removal that fails is ignored, and the start's error thrown.   *)
Cleanup(c) ==
    /\ at[c] = "cleanup"
    /\ \/ caddy' = IF Mine(c) THEN NoCaddy ELSE caddy
       \/ "removeError" \in Outages /\ UNCHANGED caddy
    /\ Finish(c)

StartOld(c) ==
    /\ at[c] = "startOld"
    /\ Exists
    /\ caddy' = StartedCaddy
    /\ Goto(c, "push")

(* pushConfig: the config was built once, and is sent until it arrives.    *)
Pushed(c) ==
    /\ at[c] = "push"
    /\ Answering
    /\ caddy' = Loaded(c)
    /\ Goto(c, "done")

SlipTired(c) == tries[c] > MaxRetries
Tired(c)     == tries[c] = MaxRetries

(* The next attempt, or the end with the last error. *)
Again(c) ==
    IF Tired(c)
    THEN Finish(c)
    ELSE /\ at' = [at EXCEPT ![c] = "push"]
         /\ tries' = [tries EXCEPT ![c] = IF @ = MaxRetries THEN @ ELSE @ + 1]
         /\ Alone(c)
         /\ UNCHANGED settingsVars

(* The admin API cannot be reached, or the connection breaks before the    *)
(* answer: to request both are the same.                                   *)
Retry(c) ==
    /\ at[c] = "push"
    /\ ~Answering \/ "callError" \in Outages
    /\ caddy' \in {caddy, Effect(c)}
    /\ Again(c)

(* Caddy accepts the request and does not answer.  No timeout ends the     *)
(* wait (admin.ts:90), only a connection that breaks.                      *)
Silence(c) ==
    /\ "silence" \in Outages
    /\ at[c] = "push"
    /\ Answering
    /\ caddy' \in {caddy, Effect(c)}
    /\ Goto(c, "waiting")

Breaks(c) ==
    /\ at[c] = "waiting"
    /\ UNCHANGED caddy
    /\ Again(c)

UpReturns(c) ==
    /\ at[c] = "done"
    /\ Finish(c)
    /\ UNCHANGED caddy

(* No container of the name, or one that is in the way. *)
NoSuchName(c) ==
    /\ \/ at[c] \in {"removeOld", "startOld", "stop", "remove"} /\ ~Exists
       \/ at[c] = "create" /\ Exists
    /\ Finish(c)
    /\ UNCHANGED caddy

(* A call is refused, or its answer is lost and it has had its effect. *)
CallFails(c) ==
    /\ "callError" \in Outages
    /\ \/ /\ at[c] \in {"removeOld", "create", "startOld", "push", "stop", "remove", "sync", "load"}
          /\ Finish(c)
       \/ at[c] = "none" /\ pc[c] = "use" /\ Finish(c)
       \/ at[c] = "startNew" /\ Goto(c, "cleanup")
    /\ caddy' \in {caddy, Effect(c)}

-----------------------------------------------------------------------------
(* ingressDown: inspect, stop, and a removal that is refused if the        *)
(* container runs again.                                                   *)

DownBegin(c) ==
    /\ Free(c)
    /\ Exists
    /\ at' = [at EXCEPT ![c] = "stop"]
    /\ calm' = calm \union {c}
    /\ UNCHANGED <<settingsVars, caddy, tries>>

Stop(c) ==
    /\ at[c] = "stop"
    /\ Exists
    /\ caddy' = StoppedCaddy
    /\ Goto(c, "remove")

Remove(c) ==
    /\ at[c] = "remove"
    /\ Exists
    /\ caddy' = IF Running THEN caddy ELSE NoCaddy
    /\ Finish(c)

-----------------------------------------------------------------------------
(* syncIngress: inspect, and if Caddy runs read the settings and load once. *)

SyncBegin(c) ==
    /\ Free(c)
    /\ Running
    /\ at' = [at EXCEPT ![c] = "sync"]
    /\ calm' = calm \union {c}
    /\ UNCHANGED <<settingsVars, caddy, tries>>

SyncReads(c) ==
    /\ at[c] = "sync"
    /\ seen' = [seen EXCEPT ![c] = Effective(stored)]
    /\ at' = [at EXCEPT ![c] = "load"]
    /\ Alone(c)
    /\ UNCHANGED <<stored, writing, lock, asked, left, pc, caddy, tries>>

SyncLoads(c) ==
    /\ at[c] = "load"
    /\ caddy' = Loaded(c)
    /\ Finish(c)

-----------------------------------------------------------------------------
Kill(c) ==
    /\ "crash" \in Faults
    /\ ~Free(c)
    /\ Undo(c)
    /\ at' = [at EXCEPT ![c] = "none"]
    /\ tries' = [tries EXCEPT ![c] = 0]
    /\ Alone(c)
    /\ UNCHANGED caddy

AdminAnswers ==
    /\ Running
    /\ ~caddy.ready
    /\ caddy' = [caddy EXCEPT !.ready = TRUE]
    /\ UNCHANGED <<settingsVars, at, tries, calm>>

(* Caddy exits for good, or the restart policy starts it over. *)
CaddyExits ==
    /\ "exit" \in Outages
    /\ Running
    /\ \E s \in {"exited", "running"} :
            caddy' = [caddy EXCEPT !.state = s, !.tls = "none", !.ready = FALSE]
    /\ calm' = {}
    /\ UNCHANGED <<settingsVars, at, tries>>

IngressInit ==
    /\ SettingsInit
    /\ caddy = NoCaddy
    /\ at = [c \in Clients |-> "none"]
    /\ tries = [c \in Clients |-> 0]
    /\ calm = {}

UpStep(c) ==
    \/ Store(c) \/ Inspect(c) \/ RemoveOld(c) \/ Create(c) \/ StartNew(c) \/ Cleanup(c)
    \/ StartOld(c) \/ Pushed(c) \/ Retry(c) \/ UpReturns(c) \/ NoSuchName(c) \/ CallFails(c)

IngressNext ==
    \/ \E c \in Clients :
        \/ \E changes \in Requests : UpBegin(c, changes)
        \/ StartIngressItem(c) \/ UpStep(c) \/ Silence(c) \/ Breaks(c)
        \/ DownBegin(c) \/ Stop(c) \/ Remove(c)
        \/ SyncBegin(c) \/ SyncReads(c) \/ SyncLoads(c)
        \/ Kill(c)
    \/ AdminAnswers \/ CaddyExits

IngressSpec == IngressInit /\ [][IngressNext]_allVars

(* The engine answers each call or refuses it in the end, and the process  *)
(* goes on.  So does a load, unless Caddy has accepted it in silence: then *)
(* nothing is sure to happen.  Nor is Caddy obliged ever to come up.       *)
IngressFairSpec == IngressSpec /\ \A c \in Clients : WF_allVars(UpStep(c))

-----------------------------------------------------------------------------
(* Properties *)

IngressTypeOK ==
    /\ SettingsTypeOK
    /\ caddy \in Caddies \union {NoCaddy}
    /\ at \in [Clients -> {"none"} \union UpCalls \union DownCalls \union SyncCalls]
    /\ tries \in [Clients -> 0..MaxRetries]
    /\ calm \subseteq Clients
    /\ \A c \in Clients : at[c] \in UpCalls => pc[c] = "use"

(* An `ingress up` nobody disturbs, when it succeeds, leaves Caddy running *)
(* with the ports and the TLS mode that are stored, two different ports:   *)
(* whatever earlier commands, failures, kills and pairs of commands that   *)
(* validated the ports one by one have left behind (spec ingress:30).      *)
UpDelivers ==
    \A c \in calm :
        at[c] = "done" =>
            /\ Running
            /\ caddy.ports = PortsOf(Effective(stored))
            /\ caddy.ports[1] # caddy.ports[2]
            /\ caddy.tls = Effective(stored)[TlsKey]

(* An `ingress up` nobody disturbs takes away no Caddy that has the stored *)
(* ports, and does not stop it either, whatever options it was given and   *)
(* even if it fails: only the container it has just created and could not  *)
(* start goes (spec ingress:122: one that existed before is left in place). *)
UpKeepsCaddy ==
    [][\A c \in calm \intersect calm' :
        /\ pc[c] = "use" /\ at[c] # "cleanup"
        /\ Exists /\ caddy.ports = PortsOf(Effective(stored))
        => Exists' /\ caddy'.by = caddy.by /\ (Running => Running')]_allVars

(* An `ingress up` that has stored its settings comes to an end, even if   *)
(* Caddy cannot be reached or never stops restarting (spec ingress:86),    *)
(* unless Caddy accepts its load and never answers it.                     *)
UpEnds == \A c \in Clients : (pc[c] = "use") ~> (pc[c] = "idle" \/ at[c] = "waiting")

(* When nobody is at work and nothing has failed, Caddy has the ports that *)
(* are stored: violated by two `ingress up` of different ports.            *)
PortsSettle ==
    (\A c \in Clients : Free(c)) /\ Exists => caddy.ports = PortsOf(Effective(stored))
=============================================================================
