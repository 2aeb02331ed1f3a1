--------------------------- MODULE DockerAdapter ---------------------------
(***************************************************************************)
(* DockerRuntime (runtime/docker.ts): every operation as the requests it   *)
(* sends to the engine, with other clients' requests and the engine's own  *)
(* doings between them, and every answer of the engine as the error the    *)
(* caller gets (runtime/errors.ts).  The engine answers as Docker or as    *)
(* Podman does.                                                            *)
(***************************************************************************)
EXTENDS LogStream

CONSTANTS Clients,    \* processes that use the adapter
          Names,      \* names of containers
          TtyNames,   \* those of containers with a TTY
          MaxIds,     \* bound on the containers ever created
          Kinds,      \* Kinds[c]: the operations c calls
          MaxFaults   \* bound on failing requests

(* The operations of a ContainerRuntime. *)
Lists == {"list", "removeLabelled"}
Ensures == {"ensureNetwork", "ensureVolume"}
OnContainer == {"create", "start", "stop", "remove", "removeForce", "inspect", "logs"}
Operations == OnContainer \union Lists \union Ensures \union {"ping", "networkExists", "pull"}

ASSUME AdapterAssumption ==
    /\ TtyNames \subseteq Names
    /\ MaxIds \in Nat /\ MaxFaults \in Nat
    /\ \A c \in Clients : Kinds[c] \subseteq Operations

VARIABLES
    boxes,    \* boxes[id]: the container the engine gave that id
    pulled,   \* whether the engine has the image
    things,   \* the network and the volume, when the engine has them
    call,     \* call[c]: the operation c is in, "idle" between them
    name,     \* name[c]: the container it is about
    stage,    \* stage[c]: the request it sends next
    todo,     \* todo[c]: what of the engine's list it has still to visit
    got,      \* got[c]: the summaries so far, <<id, state>>
    result,   \* result[c]: how its last operation ended
    met,      \* met[c]: ids of the containers there when it began
    during,   \* during[c]: what was the case at some moment of it
    faults    \* requests that failed

engineVars == <<boxes, pulled, things>>
callVars == <<call, name, stage, todo, got>>
adapterVars == <<boxes, pulled, things, call, name, stage, todo, got, result, met, during, faults>>

Ids == 1..MaxIds
NoBox == [name |-> NotGiven, state |-> "none"]
Alive(b) == {id \in Ids : b[id].state \notin {"none", "gone"}}
Named(n) == {id \in Alive(boxes) : boxes[id].name = n}

Thing(kind) == IF kind = "ensureVolume" THEN "volume" ELSE "network"

-----------------------------------------------------------------------------
(* What an engine answers, status 0 when there is no answer at all, and    *)
(* the class of its message: Docker and Podman put some of it differently. *)
Answers(cause, kind) ==
    LET Says(status, words) == [status : {status}, says : words]
    IN  CASE cause = "unreachable" -> Says(0, {""})
          [] cause = "noContainer" -> Says(404, {"no such container"})
          [] cause = "noImage" -> Says(404, {"no such image"})
                                  \union IF kind = "pull" THEN Says(500, {"manifest unknown"}) ELSE {}
          [] cause = "nameTaken" -> [status : {409, 500}, says : {"name is already in use"}]
          [] cause = "portTaken" -> Says(500, {"address already in use", "port is already allocated"})
          [] cause = "isRunning" -> Says(409, {"container is running"})
          [] cause = "inUse" -> [status : {403, 409}, says : {"is in use by a container"}]
          [] cause = "other" -> Says(500, {"anything else"})

SaysPortInUse == {"address already in use", "port is already allocated"}
SaysInUse == {"address already in use", "name is already in use"}
SaysMissingImage == {"manifest unknown", "access denied"}

SlipRaw(says) == says
MapPullMessage(says) == IF says \in SaysMissingImage THEN "ImageNotFound" ELSE "Runtime"

SlipNameFirst(error, kind) ==
    IF error.status = 0 THEN "RuntimeUnavailable"
    ELSE IF error.status = 404
    THEN IF kind = "container" THEN "ContainerNotFound" ELSE "ImageNotFound"
    ELSE IF kind = "create" /\ (error.status = 409 \/ (error.status = 500 /\ error.says \in SaysInUse))
    THEN "NameConflict"
    ELSE IF kind # "pull" /\ error.says \in SaysPortInUse THEN "PortInUse"
    ELSE IF kind = "pull" /\ error.status = 500 THEN MapPullMessage(error.says)
    ELSE "Runtime"
MapError(error, kind) ==
    IF error.status = 0 THEN "RuntimeUnavailable"
    ELSE IF error.status = 404
    THEN IF kind = "container" THEN "ContainerNotFound" ELSE "ImageNotFound"
    ELSE IF kind # "pull" /\ error.says \in SaysPortInUse THEN "PortInUse"
    ELSE IF kind = "create" /\ (error.status = 409 \/ (error.status = 500 /\ error.says \in SaysInUse))
    THEN "NameConflict"
    ELSE IF kind = "pull" /\ error.status = 500 THEN MapPullMessage(error.says)
    ELSE "Runtime"

KindOf(o) == IF o \in {"pull", "create"} THEN o ELSE "container"

(* inspect: the states paas tells apart. *)
MapState(state) == CASE state = "created" -> "created"
                     [] state \in {"running", "restarting", "paused"} -> "running"
                     [] OTHER -> "exited"

(* toContainerInfo: the exit code counts for exited containers only; the   *)
(* engine's last finish time is passed on, and it has one at least for     *)
(* these.                                                                  *)
Info(box) == [state |-> MapState(box.state),
              exitCode |-> MapState(box.state) = "exited",
              finishedAt |-> box.state \in {"exited", "restarting"}]

-----------------------------------------------------------------------------
(* A call begins, sends its requests one by one, and returns.              *)

NoResult == [error |-> "none", cause |-> "none"]

(* What is the case of what an operation is about. *)
Facts(kind, b, image, ts) ==
    CASE kind \in Lists -> {<<id, MapState(b[id].state)>> : id \in Alive(b)}
      [] kind = "pull" /\ image -> {<<0, "image">>}
      [] kind \in Ensures -> {<<0, t>> : t \in ts \intersect {Thing(kind)}}
      [] OTHER -> {}

Watched == during' = [c \in Clients |->
               IF stage[c] \in {"idle", "done"} THEN during[c]
               ELSE during[c] \union Facts(call[c], boxes', pulled', things')]

Call(c, kind, n) ==
    /\ stage[c] = "idle"
    /\ (n = NotGiven) = (kind \notin OnContainer)
    /\ stage' = [stage EXCEPT ![c] = "request"]
    /\ call' = [call EXCEPT ![c] = kind]
    /\ name' = [name EXCEPT ![c] = n]
    /\ met' = [met EXCEPT ![c] = IF kind \in Lists THEN Alive(boxes) ELSE {}]
    /\ during' = [during EXCEPT ![c] = Facts(kind, boxes, pulled, things)]
    /\ UNCHANGED <<engineVars, todo, got, result, faults>>

Return(c) ==
    /\ stage[c] = "done"
    /\ stage' = [stage EXCEPT ![c] = "idle"]
    /\ call' = [call EXCEPT ![c] = "idle"]
    /\ name' = [name EXCEPT ![c] = NotGiven]
    /\ got' = [got EXCEPT ![c] = {}]
    /\ result' = [result EXCEPT ![c] = NoResult]
    /\ met' = [met EXCEPT ![c] = {}]
    /\ during' = [during EXCEPT ![c] = {}]
    /\ UNCHANGED <<engineVars, todo, faults>>

Sends(c, kinds, step) == call[c] \in kinds /\ stage[c] = step

GoOn(c, step) ==
    /\ stage' = [stage EXCEPT ![c] = step]
    /\ UNCHANGED <<call, name, result, met, faults>>

(* The operation ends with an error of the given class, for the given      *)
(* cause, or with none.                                                    *)
EndsAs(c, error, cause) ==
    /\ stage' = [stage EXCEPT ![c] = "done"]
    /\ result' = [result EXCEPT ![c] = [error |-> error, cause |-> cause]]
    /\ todo' = [todo EXCEPT ![c] = {}]
    /\ UNCHANGED <<call, name, met>>

Succeeds(c) == EndsAs(c, "none", "none") /\ UNCHANGED faults

FailsBy(c, cause) ==
    \E answer \in Answers(cause, call[c]) : EndsAs(c, MapError(answer, KindOf(call[c])), cause)

Refused(c, cause) == FailsBy(c, cause) /\ UNCHANGED <<engineVars, got, faults>>

Fault == faults < MaxFaults /\ faults' = faults + 1

(* The engine has done what it was asked; its reply may be lost.           *)
Replied(c) == Succeeds(c) \/ (FailsBy(c, "unreachable") /\ Fault)

(* A request fails and changes nothing: the engine is not there, has an    *)
(* error of its own, or cannot have the host port.                         *)
RequestFails(c, cause) ==
    /\ stage[c] \notin {"idle", "done"}
    /\ cause = "portTaken" => call[c] \in {"create", "start"}
    /\ FailsBy(c, cause)
    /\ Fault
    /\ UNCHANGED <<engineVars, got>>

-----------------------------------------------------------------------------
(* Operations of one request *)

(* These change nothing and answer what the engine says. *)
Ask(c, kind) ==
    /\ Sends(c, {kind}, "request")
    /\ Succeeds(c)
    /\ UNCHANGED <<engineVars, got>>

Ping(c) == Ask(c, "ping")
NetworkExists(c) == Ask(c, "networkExists")

Became(box, state) == IF state = "gone" THEN [NoBox EXCEPT !.state = "gone"] ELSE [box EXCEPT !.state = state]

ChangesBox(c, id, state) ==
    /\ boxes' = [boxes EXCEPT ![id] = Became(@, state)]
    /\ Replied(c)
    /\ UNCHANGED <<pulled, things, got>>

NewBox(n) ==
    \E id \in Ids :
        /\ boxes[id].state = "none"
        /\ \A i \in Ids : boxes[i].state = "none" => id <= i
        /\ boxes' = [boxes EXCEPT ![id] = [name |-> n, state |-> "created"]]

Create(c) ==
    /\ Sends(c, {"create"}, "request")
    /\ \/ /\ Named(name[c]) = {} /\ pulled
          /\ NewBox(name[c])
          /\ Replied(c)
          /\ UNCHANGED <<pulled, things, got>>
       \/ Named(name[c]) # {} /\ Refused(c, "nameTaken")
       \/ ~pulled /\ Refused(c, "noImage")

Runs(id) == boxes[id].state \in {"running", "restarting"}

(* A container that already runs, or does not, answers 304: a success.     *)
Start(c) ==
    /\ Sends(c, {"start"}, "request")
    /\ \E id \in Named(name[c]) :
           IF Runs(id) THEN Succeeds(c) /\ UNCHANGED <<engineVars, got>>
           ELSE ChangesBox(c, id, "running")

Stop(c) ==
    /\ Sends(c, {"stop"}, "request")
    /\ \E id \in Named(name[c]) :
           IF Runs(id) THEN ChangesBox(c, id, "exited")
           ELSE Succeeds(c) /\ UNCHANGED <<engineVars, got>>

RemoveContainer(c) ==
    /\ Sends(c, {"remove", "removeForce"}, "request")
    /\ \E id \in Named(name[c]) :
           IF Runs(id) /\ call[c] = "remove" THEN Refused(c, "isRunning")
           ELSE ChangesBox(c, id, "gone")

(* inspectContainer returns Info of the container. *)
Inspect(c) ==
    /\ Sends(c, {"inspect"}, "request")
    /\ Named(name[c]) # {}
    /\ Succeeds(c)
    /\ UNCHANGED <<engineVars, got>>

(* The 404 of every request about one container. *)
NoSuchContainer(c) ==
    /\ \/ Sends(c, {"start", "stop", "remove", "removeForce", "inspect", "logs"}, "request")
       \/ Sends(c, {"logs"}, "logs")
    /\ Named(name[c]) = {}
    /\ Refused(c, "noContainer")

-----------------------------------------------------------------------------
(* Operations of several requests *)

(* The whole stream is read; an error among its events fails the pull.     *)
PullAnswered(c) ==
    /\ Sends(c, {"pull"}, "request")
    /\ \/ GoOn(c, "stream") /\ UNCHANGED <<engineVars, todo, got>>
       \/ Refused(c, "noImage")

SlipUnread(c) == Succeeds(c)
EventFails(c) == EndsAs(c, MapPullMessage("access denied"), "noImage") /\ UNCHANGED faults

PullEnds(c) ==
    /\ Sends(c, {"pull"}, "stream")
    /\ \/ pulled' = TRUE /\ Succeeds(c)
       \/ UNCHANGED pulled /\ EventFails(c)
    /\ UNCHANGED <<boxes, things, got>>

(* containerLogs asks for the TTY first; what it makes of the log itself   *)
(* is ReadLogs.                                                            *)
Logs1(c) ==
    /\ Sends(c, {"logs"}, "request")
    /\ Named(name[c]) # {}
    /\ GoOn(c, "logs")
    /\ UNCHANGED <<engineVars, todo, got>>

Logs2(c) ==
    /\ Sends(c, {"logs"}, "logs")
    /\ Named(name[c]) # {}
    /\ Succeeds(c)
    /\ UNCHANGED <<engineVars, got>>

(* Inspected first, created when missing; a conflict means somebody was    *)
(* faster.                                                                 *)
Ensure(c, kind, thing) ==
    \/ /\ Sends(c, {kind}, "request")
       /\ IF thing \in things THEN Succeeds(c) ELSE GoOn(c, "create") /\ UNCHANGED todo
       /\ UNCHANGED <<engineVars, got>>
    \/ /\ Sends(c, {kind}, "create")
       /\ things' = things \union {thing}
       /\ IF thing \in things THEN Succeeds(c) ELSE Replied(c)
       /\ UNCHANGED <<boxes, pulled, got>>

EnsureNetwork(c) == Ensure(c, "ensureNetwork", "network")
EnsureVolume(c)  == Ensure(c, "ensureVolume", "volume")

(* The engine lists, stopped containers too; then every one is inspected   *)
(* by its id, and one that is gone by then is left out.                    *)
SlipNotAll == {id \in Alive(boxes) : Runs(id)}
Everything == Alive(boxes)

List(c) ==
    /\ Sends(c, Lists, "request")
    /\ todo' = [todo EXCEPT ![c] = Everything]
    /\ GoOn(c, "each")
    /\ UNCHANGED <<engineVars, got>>

SlipGoneFails(c, id) == FailsBy(c, "noContainer") /\ UNCHANGED <<got, faults>>
Gone(c, id) ==
    /\ todo' = [todo EXCEPT ![c] = @ \ {id}]
    /\ GoOn(c, "each")
    /\ UNCHANGED got

InspectListed(c, id) ==
    /\ Sends(c, {"list"}, "each")
    /\ id \in todo[c]
    /\ IF id \notin Alive(boxes)
       THEN Gone(c, id)
       ELSE /\ got' = [got EXCEPT ![c] = @ \union {<<id, MapState(boxes[id].state)>>}]
            /\ todo' = [todo EXCEPT ![c] = @ \ {id}]
            /\ GoOn(c, "each")
    /\ UNCHANGED engineVars

Listed(c) ==
    /\ Sends(c, {"list"}, "each")
    /\ todo[c] = {}
    /\ Succeeds(c)
    /\ UNCHANGED <<engineVars, got>>

(* removeLabelled: every container of the list by force, then the network  *)
(* and the volume, each listed before; what is gone already is no error.   *)
SweepBox(c, id) ==
    /\ Sends(c, {"removeLabelled"}, "each")
    /\ id \in todo[c]
    /\ IF id \notin Alive(boxes)
       THEN Gone(c, id) /\ UNCHANGED engineVars
       ELSE /\ boxes' = [boxes EXCEPT ![id] = Became(@, "gone")]
            /\ todo' = [todo EXCEPT ![c] = @ \ {id}]
            /\ GoOn(c, "each")
            /\ UNCHANGED <<pulled, things, got>>

SweepListsThing(c) ==
    /\ \/ Sends(c, {"removeLabelled"}, "each") /\ todo[c] = {} /\ GoOn(c, "network")
       \/ Sends(c, {"removeLabelled"}, "network") /\ "network" \notin things /\ GoOn(c, "volume")
       \/ Sends(c, {"removeLabelled"}, "volume") /\ "volume" \notin things /\ Succeeds(c)
    /\ UNCHANGED <<engineVars, todo, got>>

SweepThing(c) ==
    /\ \/ Sends(c, {"removeLabelled"}, "network") /\ things' = things \ {"network"} /\ GoOn(c, "volume")
       \/ Sends(c, {"removeLabelled"}, "volume") /\ things' = things \ {"volume"} /\ Succeeds(c)
    /\ UNCHANGED <<boxes, pulled, todo, got>>

(* The engine keeps a network or a volume that a container may be using,   *)
(* and that ends the sweep.                                                *)
SweepRefused(c) ==
    /\ \/ Sends(c, {"removeLabelled"}, "network") /\ "network" \in things
       \/ Sends(c, {"removeLabelled"}, "volume") /\ "volume" \in things
    /\ Alive(boxes) # {}
    /\ Refused(c, "inUse")

-----------------------------------------------------------------------------
(* Meanwhile: the engine starts, stops and restarts containers on its own  *)
(* and for other clients, and these create and remove what they like.      *)

Turns(id) ==
    /\ \E state \in {"running", "restarting", "exited"} : boxes' = [boxes EXCEPT ![id].state = state]
    /\ UNCHANGED <<pulled, things>>

Removes(id) ==
    /\ boxes' = [boxes EXCEPT ![id] = Became(@, "gone")]
    /\ UNCHANGED <<pulled, things>>

Creates(n) == Named(n) = {} /\ NewBox(n) /\ UNCHANGED <<pulled, things>>

ThingsChange ==
    /\ \/ pulled' = FALSE /\ UNCHANGED things
       \/ \E t \in {"network", "volume"} : things' \in {things \union {t}, things \ {t}} /\ UNCHANGED pulled
    /\ UNCHANGED boxes

Meanwhile ==
    /\ \/ \E id \in Alive(boxes) : Turns(id) \/ Removes(id)
       \/ \E n \in Names : Creates(n)
       \/ ThingsChange
    /\ UNCHANGED <<callVars, result, met, faults>>

AdapterInit ==
    /\ boxes = [id \in Ids |-> NoBox]
    /\ pulled = FALSE /\ things = {} /\ faults = 0
    /\ call = [c \in Clients |-> "idle"]
    /\ name = [c \in Clients |-> NotGiven]
    /\ stage = [c \in Clients |-> "idle"]
    /\ todo = [c \in Clients |-> {}]
    /\ got = [c \in Clients |-> {}]
    /\ result = [c \in Clients |-> NoResult]
    /\ met = [c \in Clients |-> {}]
    /\ during = [c \in Clients |-> {}]

Request(c) ==
    \/ Ping(c) \/ NetworkExists(c) \/ Create(c) \/ Start(c) \/ Stop(c) \/ RemoveContainer(c) \/ Inspect(c) \/ NoSuchContainer(c)
    \/ PullAnswered(c) \/ PullEnds(c) \/ Logs1(c) \/ Logs2(c) \/ EnsureNetwork(c) \/ EnsureVolume(c)
    \/ List(c) \/ Listed(c) \/ SweepListsThing(c) \/ SweepThing(c) \/ SweepRefused(c)
    \/ \E id \in Ids : InspectListed(c, id) \/ SweepBox(c, id)
    \/ \E cause \in {"unreachable", "portTaken", "other"} : RequestFails(c, cause)

AdapterNext ==
    \/ \E c \in Clients : Return(c) \/ \E kind \in Kinds[c], n \in Names \union {NotGiven} : Call(c, kind, n)
    \/ (\E c \in Clients : Request(c)) /\ Watched
    \/ Meanwhile /\ Watched

AdapterSpec == AdapterInit /\ [][AdapterNext]_adapterVars

-----------------------------------------------------------------------------
(* Properties *)

BoxStates == {"none", "created", "running", "restarting", "exited", "gone"}

Stages == {"idle", "request", "create", "stream", "logs", "each", "network", "volume", "done"}

Causes == {"none", "unreachable", "noContainer", "noImage", "nameTaken", "portTaken", "isRunning", "inUse",
           "other"}

Errors == {"none", "RuntimeUnavailable", "ContainerNotFound", "ImageNotFound", "NameConflict", "PortInUse", "Runtime"}

Seen == (Ids \X {"created", "running", "exited"}) \union ({0} \X {"image", "network", "volume"})

(* Every variable has its type, and a container's name is its own. *)
AdapterTypeOK ==
    /\ boxes \in [Ids -> [name : Names \union {NotGiven}, state : BoxStates]]
    /\ \A id, i \in Alive(boxes) : i # id => boxes[i].name # boxes[id].name
    /\ pulled \in BOOLEAN
    /\ things \subseteq {"network", "volume"}
    /\ call \in [Clients -> Operations \union {"idle"}]
    /\ name \in [Clients -> Names \union {NotGiven}]
    /\ stage \in [Clients -> Stages]
    /\ todo \in [Clients -> SUBSET Ids]
    /\ got \in [Clients -> SUBSET Seen]
    /\ result \in [Clients -> [error : Errors, cause : Causes]]
    /\ met \in [Clients -> SUBSET Ids]
    /\ during \in [Clients -> SUBSET Seen]
    /\ faults \in 0..MaxFaults
    /\ \A c \in Clients : stage[c] = "idle" => todo[c] = {}

(* Whichever engine answers, the caller gets the error that names what is  *)
(* wrong: no container, no image, a name or a host port that is taken, no  *)
(* engine; and no such name for anything else (spec container-runtime:82,  *)
(* 176, 204, 248).                                                         *)
RightError ==
    \A c \in Clients : result[c].error =
        CASE result[c].cause = "none" -> "none"
          [] result[c].cause = "unreachable" -> "RuntimeUnavailable"
          [] result[c].cause = "noContainer" -> "ContainerNotFound"
          [] result[c].cause = "noImage" -> "ImageNotFound"
          [] result[c].cause = "nameTaken" -> "NameConflict"
          [] result[c].cause = "portTaken" -> "PortInUse"
          [] OTHER -> "Runtime"

Done(c, kinds) == stage[c] = "done" /\ call[c] \in kinds /\ result[c].error = "none"

(* A list taken while containers come and go holds every container that    *)
(* stood all the while, and says of none what was never the case meanwhile *)
(* (spec container-runtime:236).                                           *)
ListSandwich ==
    \A c \in Clients : Done(c, {"list"}) =>
        /\ got[c] \subseteq during[c]
        /\ met[c] \intersect Alive(boxes) \subseteq {entry[1] : entry \in got[c]}

(* That somebody else was faster never fails a list, an ensure or a sweep: *)
(* only an engine that is not there, or has an error of its own, does.     *)
(* The one exception is a sweep that meets its network or volume in use:   *)
(* then by a container that somebody made while the sweep was on, never by *)
(* one that it should have removed before.                                 *)
Stood(c) == {entry[1] : entry \in during[c]}

RacesAreNoErrors ==
    \A c \in Clients : call[c] \in Lists \union Ensures =>
        \/ result[c].cause \in {"none", "unreachable", "other"}
        \/ result[c].cause = "inUse" /\ call[c] = "removeLabelled" /\ Stood(c) \ met[c] # {}

(* A call that returns without error has had its effect: the image, the    *)
(* network or the volume was there at some moment of the call, also when   *)
(* the error came inside of the stream or another process did the work     *)
(* (spec container-runtime:58, 188), and a sweep leaves none of the        *)
(* containers it found, whoever removed them.                              *)
OkMeansDone ==
    \A c \in Clients :
        /\ Done(c, Ensures \union {"pull"}) => during[c] # {}
        /\ Done(c, {"removeLabelled"}) => met[c] \intersect Alive(boxes) = {}

(* Whatever frames the engine cuts the two streams into, containerLogs     *)
(* returns every line asked for, once, with its own stream, time and text, *)
(* oldest first (spec container-runtime:74, 196).                          *)
LogsFaithful ==
    \A c \in Clients : Sends(c, {"logs"}, "logs") =>
        IF name[c] \in TtyNames THEN TtyReadRight ELSE FramesReadRight

(* "when it finished (`null` unless `exited`)" (spec container-runtime:46): *)
(* not so for a container that was started again.                          *)
FinishedOnlyExited ==
    \A id \in Alive(boxes) : Info(boxes[id]).finishedAt => Info(boxes[id]).state = "exited"
=============================================================================
