-------------------------- MODULE DeploymentLife --------------------------
(***************************************************************************)
(* What paas promises about its deployment records, whatever the container *)
(* engine does and whichever processes die: a deployment only moves        *)
(* forward, a finished one never comes back, and an app is not deleted     *)
(* while one runs.  It knows nothing of containers, processes or calls.    *)
(* DeployEngine implements it.                                             *)
(***************************************************************************)
EXTENDS Naturals

CONSTANTS AppNames,         \* names an app can have
          NoApp,            \* owner of an id that was never used
          MaxDeployments    \* bound on the deployments of a behaviour

Ids == 1..MaxDeployments

Stages == {"none", "inFlight", "running", "finished", "deleted"}

VARIABLES apps,    \* the apps that exist
          owner,   \* owner[d]: the app deployment d was made for
          life,    \* life[d]: the stage deployment d is in
          seq      \* the next deployment id

lifeVars == <<apps, owner, life, seq>>

Of(a, stage) == {d \in Ids : owner[d] = a /\ life[d] = stage}

Init ==
    /\ apps = {}
    /\ owner = [d \in Ids |-> NoApp]
    /\ life = [d \in Ids |-> "none"]
    /\ seq = 1

AddApp(a) ==
    /\ a \notin apps
    /\ apps' = apps \union {a}
    /\ UNCHANGED <<owner, life, seq>>

(* Deleting an app takes its records with it, in flight or not. *)
RemoveApp(a) ==
    /\ a \in apps
    /\ Of(a, "running") = {}
    /\ apps' = apps \ {a}
    /\ life' = [d \in Ids |-> IF owner[d] = a THEN "deleted" ELSE life[d]]
    /\ UNCHANGED <<owner, seq>>

(* Deployments are numbered in the order they are started. *)
Start(a) ==
    /\ a \in apps
    /\ seq \in Ids
    /\ owner' = [owner EXCEPT ![seq] = a]
    /\ life' = [life EXCEPT ![seq] = "inFlight"]
    /\ seq' = seq + 1
    /\ UNCHANGED apps

Promote(d) ==
    /\ life[d] = "inFlight"
    /\ life' = [life EXCEPT ![d] = "running"]
    /\ UNCHANGED <<apps, owner, seq>>

Finish(d) ==
    /\ life[d] \in {"inFlight", "running"}
    /\ life' = [life EXCEPT ![d] = "finished"]
    /\ UNCHANGED <<apps, owner, seq>>

Next ==
    \/ \E a \in AppNames : AddApp(a) \/ RemoveApp(a) \/ Start(a)
    \/ \E d \in Ids : Promote(d) \/ Finish(d)

Spec == Init /\ [][Next]_lifeVars
=============================================================================
