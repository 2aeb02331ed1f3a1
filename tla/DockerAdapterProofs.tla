------------------------ MODULE DockerAdapterProofs ------------------------
(***************************************************************************)
(* Proofs about DockerAdapter, for any number of clients, any names, any   *)
(* operations they call, any number of containers and of failing requests, *)
(* and whichever engine answers.                                           *)
(***************************************************************************)
EXTENDS DockerAdapter, LogStreamProofs

(***************************************************************************)
(* The invariant, client by client.  A result is of the class its cause    *)
(* calls for, and there is one only when the call is over; what a list has *)
(* said was the case; and of the containers a list or a sweep met when it  *)
(* began, those that still stand are either done with or still to visit;   *)
(* whatever stands while it is on, it stood at some moment of it.          *)
(***************************************************************************)
Made == {id \in Ids : boxes[id].state # "none"}

RightClass(r) ==
    r.error = CASE r.cause = "none" -> "none"
                [] r.cause = "unreachable" -> "RuntimeUnavailable"
                [] r.cause = "noContainer" -> "ContainerNotFound"
                [] r.cause = "noImage" -> "ImageNotFound"
                [] r.cause = "nameTaken" -> "NameConflict"
                [] r.cause = "portTaken" -> "PortInUse"
                [] OTHER -> "Runtime"

Harmless == {"none", "unreachable", "other"}

Answered(c) ==
    /\ RightClass(result[c])
    /\ stage[c] # "done" => result[c] = NoResult
    /\ call[c] \in Lists \union Ensures =>
            \/ result[c].cause \in Harmless
            \/ result[c].cause = "inUse" /\ call[c] = "removeLabelled" /\ Stood(c) \ met[c] # {}
    /\ Done(c, Ensures \union {"pull"}) => during[c] # {}

Visited(c) == {entry[1] : entry \in got[c]}

(* The stages of a sweep after its containers, and its end. *)
Swept(c) == stage[c] \in {"network", "volume"} \/ Done(c, {"removeLabelled"})

Visiting(c) ==
    /\ stage[c] \in {"idle", "done"} => todo[c] = {}
    /\ met[c] \subseteq Made
    /\ call[c] # "list" \/ stage[c] = "idle" => got[c] = {}
    /\ got[c] \subseteq during[c]
    /\ Sends(c, {"list"}, "each") => met[c] \intersect Alive(boxes) \subseteq todo[c] \union Visited(c)
    /\ Done(c, {"list"}) => met[c] \intersect Alive(boxes) \subseteq Visited(c)
    /\ Sends(c, {"removeLabelled"}, "each") => met[c] \intersect Alive(boxes) \subseteq todo[c]
    /\ call[c] = "removeLabelled" /\ Swept(c) => met[c] \intersect Alive(boxes) = {}
    /\ call[c] = "removeLabelled" /\ stage[c] \notin {"idle", "done"} => Alive(boxes) \subseteq Stood(c)

AInv == AdapterTypeOK /\ \A c \in Clients : Answered(c) /\ Visiting(c)
USE DEF Ids

-----------------------------------------------------------------------------
(* Answers and errors. *)

(* The causes a request of an operation can fail for. *)
Plausible(kind, cause) ==
    /\ cause \in Causes \ {"none"}
    /\ cause \in {"noContainer", "isRunning"} => kind \in OnContainer \ {"create"}
    /\ cause = "noImage" => kind \in {"pull", "create"}
    /\ cause = "nameTaken" => kind = "create"
    /\ cause = "portTaken" => kind \in {"create", "start"}
    /\ cause = "inUse" => kind = "removeLabelled"

LEMMA StatusesDiffer ==
    \A answer : /\ answer.status = 500 => answer.status # 0 /\ answer.status # 404 /\ answer.status # 409
                /\ answer.status = 409 => answer.status # 0 /\ answer.status # 404
                /\ answer.status = 403 => answer.status # 0 /\ answer.status # 404
OBVIOUS

(* What an answer says when this is the cause. *)
Tells(answer, cause, kind) ==
    /\ cause = "unreachable" => answer.status = 0
    /\ cause = "noContainer" => answer.status = 404
    /\ cause = "nameTaken" => answer.status \in {409, 500} /\ answer.says = "name is already in use"
    /\ cause = "portTaken" => answer.status = 500 /\ answer.says \in SaysPortInUse
    /\ cause = "isRunning" => answer.status = 409 /\ answer.says = "container is running"
    /\ cause = "inUse" => answer.status \in {403, 409} /\ answer.says = "is in use by a container"
    /\ cause = "other" => answer.status = 500 /\ answer.says = "anything else"
    /\ cause = "noImage" =>
          \/ answer.status = 404
          \/ kind = "pull" /\ answer.status = 500 /\ answer.says = "manifest unknown"

LEMMA AnswersAre ==
    ASSUME NEW kind, NEW cause, NEW answer \in Answers(cause, kind)
    PROVE  Tells(answer, cause, kind)
<1>1. ASSUME cause = "unreachable" PROVE answer.status = 0
  <2>1. Answers("unreachable", kind) = [status : {0}, says : {""}]
    BY ZenonT(40) DEF Answers
  <2>2. answer \in [status : {0}, says : {""}] BY <1>1, <2>1, Zenon
  <2> QED BY <2>2
<1>2. ASSUME cause = "noContainer" PROVE answer.status = 404
  <2>1. Answers("noContainer", kind) = [status : {404}, says : {"no such container"}]
    BY ZenonT(40) DEF Answers
  <2>2. answer \in [status : {404}, says : {"no such container"}] BY <1>2, <2>1, Zenon
  <2> QED BY <2>2
<1>3. ASSUME cause = "nameTaken" PROVE answer.status \in {409, 500} /\ answer.says = "name is already in use"
  <2>1. Answers("nameTaken", kind) = [status : {409, 500}, says : {"name is already in use"}]
    BY ZenonT(40) DEF Answers
  <2>2. answer \in [status : {409, 500}, says : {"name is already in use"}] BY <1>3, <2>1, Zenon
  <2> QED BY <2>2
<1>4. ASSUME cause = "portTaken" PROVE answer.status = 500 /\ answer.says \in SaysPortInUse
  <2>1. Answers("portTaken", kind) = [status : {500}, says : SaysPortInUse]
    BY ZenonT(40) DEF Answers, SaysPortInUse
  <2>2. answer \in [status : {500}, says : SaysPortInUse] BY <1>4, <2>1, Zenon
  <2> QED BY <2>2
<1>5. ASSUME cause = "isRunning" PROVE answer.status = 409 /\ answer.says = "container is running"
  <2>1. Answers("isRunning", kind) = [status : {409}, says : {"container is running"}]
    BY ZenonT(40) DEF Answers
  <2>2. answer \in [status : {409}, says : {"container is running"}] BY <1>5, <2>1, Zenon
  <2> QED BY <2>2
<1>6. ASSUME cause = "other" PROVE answer.status = 500 /\ answer.says = "anything else"
  <2>1. Answers("other", kind) = [status : {500}, says : {"anything else"}]
    BY ZenonT(40) DEF Answers
  <2>2. answer \in [status : {500}, says : {"anything else"}] BY <1>6, <2>1, Zenon
  <2> QED BY <2>2
<1>7. ASSUME cause = "noImage"
      PROVE  \/ answer.status = 404
             \/ kind = "pull" /\ answer.status = 500 /\ answer.says = "manifest unknown"
  <2> DEFINE A == [status : {404}, says : {"no such image"}]
             B == [status : {500}, says : {"manifest unknown"}]
  <2>1. Answers("noImage", kind) = A \union IF kind = "pull" THEN B ELSE {}
    BY ZenonT(40) DEF Answers
  <2>2. answer \in A => answer.status = 404 OBVIOUS
  <2>3. answer \in B => answer.status = 500 /\ answer.says = "manifest unknown" OBVIOUS
  <2> HIDE DEF A, B
  <2>4. answer \in A \/ (kind = "pull" /\ answer \in B) BY <1>7, <2>1
  <2> QED BY <2>2, <2>3, <2>4
<1>8. ASSUME cause = "inUse" PROVE answer.status \in {403, 409} /\ answer.says = "is in use by a container"
  <2>1. Answers("inUse", kind) = [status : {403, 409}, says : {"is in use by a container"}]
    BY ZenonT(40) DEF Answers
  <2>2. answer \in [status : {403, 409}, says : {"is in use by a container"}] BY <1>8, <2>1, Zenon
  <2> QED BY <2>2
<1> QED BY <1>1, <1>2, <1>3, <1>4, <1>5, <1>6, <1>7, <1>8 DEF Tells

(* Whichever engine answers, mapError finds the class the cause calls for. *)
LEMMA MapsToRightClass ==
    ASSUME NEW kind, NEW cause, Plausible(kind, cause), NEW answer \in Answers(cause, kind)
    PROVE  RightClass([error |-> MapError(answer, KindOf(kind)), cause |-> cause])
<1> DEFINE e == MapError(answer, KindOf(kind))
<1>a. Tells(answer, cause, kind) BY AnswersAre
<1>k. /\ KindOf(kind) \in {"pull", "create", "container"}
      /\ KindOf(kind) = "pull" <=> kind = "pull"
      /\ KindOf(kind) = "create" <=> kind = "create"
  BY DEF KindOf
<1>1. CASE cause = "unreachable"
  <2>1. answer.status = 0 BY <1>1, <1>a DEF Tells
  <2>2. e = "RuntimeUnavailable" BY <2>1 DEF MapError
  <2> QED BY <1>1, <2>2 DEF RightClass
<1>2. CASE cause = "noContainer"
  <2>1. answer.status = 404 BY <1>2, <1>a DEF Tells
  <2>2. KindOf(kind) = "container" BY <1>2, <1>k DEF Plausible, OnContainer
  <2>3. e = "ContainerNotFound" BY <2>1, <2>2 DEF MapError
  <2> QED BY <1>2, <2>3 DEF RightClass
<1>3. CASE cause = "noImage"
  <2>1. kind \in {"pull", "create"} BY <1>3 DEF Plausible
  <2>2. CASE answer.status = 404
    <3>1. KindOf(kind) # "container" BY <2>1, <1>k
    <3>2. e = "ImageNotFound" BY <2>2, <3>1 DEF MapError
    <3> QED BY <1>3, <3>2 DEF RightClass
  <2>3. CASE answer.status = 500 /\ answer.says = "manifest unknown" /\ kind = "pull"
    <3>1. KindOf(kind) = "pull" BY <2>3, <1>k
    <3>2. answer.status # 0 /\ answer.status # 404 /\ answer.status = 500
      <4>1. answer.status = 500 BY <2>3
      <4> QED BY <4>1, StatusesDiffer
    <3>4. e = MapPullMessage(answer.says) BY <3>1, <3>2 DEF MapError
    <3>3. e = "ImageNotFound" BY <2>3, <3>4 DEF MapPullMessage, SaysMissingImage
    <3> QED BY <1>3, <3>3 DEF RightClass
  <2>4. \/ answer.status = 404
        \/ kind = "pull" /\ answer.status = 500 /\ answer.says = "manifest unknown"
    BY <1>3, <1>a, ZenonT(40) DEF Tells
  <2> QED BY <2>2, <2>3, <2>4
<1>4. CASE cause = "nameTaken"
  <2>1. answer.status \in {409, 500} /\ answer.says = "name is already in use"
    BY <1>4, <1>a DEF Tells
  <2>2. KindOf(kind) = "create" BY <1>4, <1>k DEF Plausible
  <2>3. answer.says \notin SaysPortInUse /\ answer.says \in SaysInUse
    BY <2>1 DEF SaysPortInUse, SaysInUse
  <2>5. answer.status # 0 /\ answer.status # 404
    <3>1. answer.status = 409 \/ answer.status = 500 BY <2>1
    <3> QED BY <3>1, StatusesDiffer
  <2>4. e = "NameConflict" BY <2>1, <2>2, <2>3, <2>5 DEF MapError
  <2> QED BY <1>4, <2>4 DEF RightClass
<1>5. CASE cause = "portTaken"
  <2>1. answer.status = 500 /\ answer.says \in SaysPortInUse
    BY <1>5, <1>a DEF Tells
  <2>2. KindOf(kind) # "pull" BY <1>5, <1>k DEF Plausible
  <2>3. e = "PortInUse" BY <2>1, <2>2 DEF MapError
  <2> QED BY <1>5, <2>3 DEF RightClass
<1>6. CASE cause = "isRunning"
  <2>1. answer.status = 409 /\ answer.says = "container is running"
    BY <1>6, <1>a DEF Tells
  <2>2. KindOf(kind) = "container" BY <1>6, <1>k DEF Plausible, OnContainer
  <2>3. answer.says \notin SaysPortInUse BY <2>1 DEF SaysPortInUse
  <2>5. answer.status # 0 /\ answer.status # 404
    <3>1. answer.status = 409 \/ answer.status = 500 BY <2>1
    <3> QED BY <3>1, StatusesDiffer
  <2>4. e = "Runtime" BY <2>2, <2>3, <2>5 DEF MapError
  <2> QED BY <1>6, <2>4 DEF RightClass
<1>7. CASE cause = "other"
  <2>2. answer.status = 500 /\ answer.says = "anything else"
    BY <1>7, <1>a DEF Tells
  <2>3. answer.says \notin SaysPortInUse /\ answer.says \notin SaysInUse
    BY <2>2 DEF SaysPortInUse, SaysInUse
  <2>4. MapPullMessage(answer.says) = "Runtime" BY <2>2 DEF MapPullMessage, SaysMissingImage
  <2>5. answer.status # 0 /\ answer.status # 404 /\ answer.status # 409
    <3>1. answer.status = 500 BY <2>2
    <3> QED BY <3>1, StatusesDiffer
  <2>6. e = "Runtime" BY <2>3, <2>4, <2>5 DEF MapError
  <2> QED BY <1>7, <2>6 DEF RightClass
<1>8. CASE cause = "inUse"
  <2>1. answer.status \in {403, 409} /\ answer.says = "is in use by a container"
    BY <1>8, <1>a DEF Tells
  <2>2. KindOf(kind) = "container" BY <1>8, <1>k DEF Plausible
  <2>3. answer.says \notin SaysPortInUse BY <2>1 DEF SaysPortInUse
  <2>4. answer.status # 0 /\ answer.status # 404
    <3>1. answer.status = 403 \/ answer.status = 409 BY <2>1
    <3> QED BY <3>1, StatusesDiffer
  <2>5. e = "Runtime" BY <2>2, <2>3, <2>4 DEF MapError
  <2> QED BY <1>8, <2>5 DEF RightClass
<1> QED BY <1>1, <1>2, <1>3, <1>4, <1>5, <1>6, <1>7, <1>8 DEF Plausible, Causes

LEMMA MapErrorType ==
    ASSUME NEW answer, NEW kind
    PROVE  MapError(answer, kind) \in Errors \ {"none"}
BY DEF MapError, MapPullMessage, Errors

-----------------------------------------------------------------------------
(* What happens to the engine. *)

(* A container keeps its id and its name, and one that is gone never comes *)
(* back; whoever asks for it.                                              *)
BoxesKeep ==
    /\ boxes' \in [Ids -> [name : Names \union {NotGiven}, state : BoxStates]]
    /\ \A id, i \in Alive(boxes)' : i # id => boxes'[i].name # boxes'[id].name
    /\ \A id \in Ids : /\ boxes[id].state # "none" => boxes'[id].state # "none"
                       /\ boxes[id].state = "gone" => boxes'[id].state = "gone"

LEMMA SameBoxesKeep ==
    ASSUME AdapterTypeOK, boxes' = boxes
    PROVE  BoxesKeep
BY DEF AdapterTypeOK, BoxesKeep, Alive

LEMMA NewBoxKeeps ==
    ASSUME AdapterTypeOK, NEW n \in Names \union {NotGiven}, Named(n) = {}, NewBox(n)
    PROVE  BoxesKeep
<1> DEFINE new == [name |-> n, state |-> "created"]
<1>1. PICK id \in Ids : boxes[id].state = "none" /\ boxes' = [boxes EXCEPT ![id] = new]
  BY DEF NewBox
<1>2. new \in [name : Names \union {NotGiven}, state : BoxStates] BY DEF BoxStates
<1>3. boxes' \in [Ids -> [name : Names \union {NotGiven}, state : BoxStates]]
  BY <1>1, <1>2 DEF AdapterTypeOK
<1>4. boxes'[id] = new /\ \A i \in Ids \ {id} : boxes'[i] = boxes[i]
  BY <1>1 DEF AdapterTypeOK
<1>5. \A i \in Alive(boxes) : boxes[i].name # n BY DEF Named
<1>6. \A i \in Alive(boxes)' \ {id} : i \in Alive(boxes) /\ boxes'[i] = boxes[i]
  BY <1>4 DEF Alive
<1>7. new.name = n OBVIOUS
<1>8. \A x, i \in Alive(boxes)' : i # x => boxes'[i].name # boxes'[x].name
  BY <1>4, <1>5, <1>6, <1>7 DEF AdapterTypeOK
<1> QED BY <1>1, <1>3, <1>4, <1>8 DEF BoxesKeep

LEMMA BecameKeeps ==
    ASSUME AdapterTypeOK, NEW id \in Alive(boxes), NEW state \in BoxStates \ {"none"},
           boxes' = [boxes EXCEPT ![id] = Became(boxes[id], state)]
    PROVE  BoxesKeep
<1> DEFINE new == Became(boxes[id], state)
<1>1. id \in Ids /\ boxes[id].state \notin {"none", "gone"} BY DEF Alive
<1>2. /\ new \in [name : Names \union {NotGiven}, state : BoxStates]
      /\ new.state = state
      /\ state # "gone" => new.name = boxes[id].name
  BY <1>1 DEF Became, NoBox, AdapterTypeOK, BoxStates
<1> HIDE DEF new
<1>3. boxes'[id] = new /\ \A i \in Ids \ {id} : boxes'[i] = boxes[i]
  BY <1>1 DEF AdapterTypeOK, new
<1>4. boxes' \in [Ids -> [name : Names \union {NotGiven}, state : BoxStates]]
  BY <1>2 DEF AdapterTypeOK, new
<1>5. \A i \in Alive(boxes)' : i \in Alive(boxes) /\ boxes'[i].name = boxes[i].name
  BY <1>2, <1>3 DEF Alive
<1>6. \A x, i \in Alive(boxes)' : i # x => boxes'[i].name # boxes'[x].name
  BY <1>5 DEF AdapterTypeOK
<1> QED BY <1>1, <1>2, <1>3, <1>4, <1>6 DEF BoxesKeep

(* What still stands of what had been made stood before. *)
LEMMA StillStanding ==
    ASSUME BoxesKeep
    PROVE  /\ Made \subseteq Made'
           /\ Made \intersect Alive(boxes)' \subseteq Alive(boxes)
BY DEF BoxesKeep, Made, Alive

LEMMA FactsOfList ==
    ASSUME NEW b, NEW image, NEW ts, NEW id \in Alive(b)
    PROVE  <<id, MapState(b[id].state)>> \in Facts("list", b, image, ts)
<1>1. Facts("list", b, image, ts) = {<<i, MapState(b[i].state)>> : i \in Alive(b)}
  BY DEF Facts, Lists, Ensures
<1> QED BY <1>1

(* A sweep takes note of the containers that stand, too. *)
LEMMA FactsOfSweep ==
    ASSUME NEW b, NEW image, NEW ts, NEW id \in Alive(b)
    PROVE  <<id, MapState(b[id].state)>> \in Facts("removeLabelled", b, image, ts)
<1>1. Facts("removeLabelled", b, image, ts) = {<<i, MapState(b[i].state)>> : i \in Alive(b)}
  BY DEF Facts, Lists, Ensures
<1> QED BY <1>1

LEMMA FactsType ==
    ASSUME NEW kind, NEW b, NEW image, NEW ts \in SUBSET {"network", "volume"}
    PROVE  Facts(kind, b, image, ts) \subseteq Seen
<1>1. \A s : MapState(s) \in {"created", "running", "exited"} BY DEF MapState
<1> QED BY <1>1 DEF Facts, Seen, Alive, Lists, Ensures, Thing
-----------------------------------------------------------------------------
(* What one request of a client does: it ends the operation, or goes on.   *)

Unmoved(d) ==
    /\ stage'[d] = stage[d] /\ call'[d] = call[d] /\ todo'[d] = todo[d] /\ got'[d] = got[d]
    /\ result'[d] = result[d] /\ met'[d] = met[d]

FactsNow(c) == Facts(call[c], boxes', pulled', things')

(* What must be so when it ends without an error. *)
Accomplished(c) ==
    /\ call[c] \in Ensures \union {"pull"} => FactsNow(c) # {}
    /\ call[c] = "list" => stage[c] = "each" /\ todo[c] = {}
    /\ call[c] = "removeLabelled" => stage[c] = "volume"

(* What may end a list, an ensure or a sweep. *)
Allowed(c, cause) ==
    \/ cause \in Harmless
    \/ /\ cause = "inUse" /\ call[c] = "removeLabelled"
       /\ stage[c] \in {"network", "volume"} /\ Alive(boxes) # {}

Ending(c) ==
    /\ stage'[c] = "done" /\ todo'[c] = {} /\ got'[c] = got[c]
    /\ RightClass(result'[c])
    /\ call[c] \in Lists \union Ensures => Allowed(c, result'[c].cause)
    /\ result'[c].error = "none" => Accomplished(c)

Going(c) ==
    /\ stage'[c] \in Stages \ {"idle", "done"}
    /\ result'[c] = result[c]
    /\ got[c] \subseteq got'[c]
    /\ call[c] # "list" => got'[c] = got[c]
    /\ got'[c] \subseteq got[c] \union FactsNow(c)
    /\ stage'[c] = "each" =>
          \/ todo'[c] = Alive(boxes)
          \/ /\ stage[c] = "each"
             /\ call[c] = "list" => todo[c] \intersect Alive(boxes) \subseteq todo'[c] \union Visited(c)'
             /\ call[c] = "removeLabelled" => todo[c] \intersect Alive(boxes)' \subseteq todo'[c]
    /\ call[c] = "removeLabelled" /\ stage'[c] \in {"network", "volume"} =>
          \/ stage[c] = "each" /\ todo[c] = {}
          \/ stage[c] \in {"network", "volume"}

EngineKeeps ==
    /\ BoxesKeep
    /\ pulled' \in BOOLEAN /\ things' \subseteq {"network", "volume"}

OneRequest(c) ==
    /\ EngineKeeps
    /\ faults' \in 0..MaxFaults
    /\ UNCHANGED <<call, name, met>>
    /\ stage' \in [Clients -> Stages]
    /\ todo' \in [Clients -> SUBSET Ids]
    /\ got' \in [Clients -> SUBSET Seen]
    /\ result' \in [Clients -> [error : Errors, cause : Causes]]
    /\ \A d \in Clients \ {c} : Unmoved(d)
    /\ stage[c] \notin {"idle", "done"}
    /\ Ending(c) \/ Going(c)

(* A sweep under way takes note of whatever stands. *)
LEMMA SweepNotes ==
    ASSUME NEW d \in Clients, call[d] = "removeLabelled", FactsNow(d) \subseteq during'[d]
    PROVE  Alive(boxes)' \subseteq Stood(d)'
<1>1. ASSUME NEW id \in Alive(boxes') PROVE id \in Stood(d)'
  <2>1. <<id, MapState(boxes'[id].state)>> \in during'[d] BY <1>1, FactsOfSweep DEF FactsNow
  <2> QED BY <2>1 DEF Stood
<1>2. Alive(boxes)' = Alive(boxes') BY DEF Alive
<1> QED BY <1>1, <1>2

(* Who does not move keeps what it knows, while the engine goes on. *)
LEMMA UnmovedKeeps ==
    ASSUME AdapterTypeOK, BoxesKeep, NEW d \in Clients, Answered(d), Visiting(d), Unmoved(d),
           during[d] \subseteq during'[d],
           boxes' = boxes \/ (stage[d] \notin {"idle", "done"} => FactsNow(d) \subseteq during'[d])
    PROVE  Answered(d)' /\ Visiting(d)'
<1> USE DEF Unmoved
<1>m. Made \subseteq Made' /\ Made \intersect Alive(boxes)' \subseteq Alive(boxes)
  BY StillStanding
<1>d. \A S : Done(d, S)' <=> Done(d, S) BY DEF Done
<1>s. \A S, step : Sends(d, S, step)' <=> Sends(d, S, step) BY DEF Sends
<1>r. Stood(d) \subseteq Stood(d)' BY DEF Stood
<1>1. Answered(d)' BY <1>d, <1>r DEF Answered
<1>2. met[d] \subseteq Made BY DEF Visiting
<1>3. met[d] \intersect Alive(boxes)' \subseteq met[d] \intersect Alive(boxes) BY <1>m, <1>2
<1>4. Visited(d)' = Visited(d) /\ (Swept(d)' <=> Swept(d)) BY <1>d DEF Visited, Swept
<1>5. /\ stage'[d] \in {"idle", "done"} => todo'[d] = {}
      /\ met'[d] \subseteq Made'
      /\ call'[d] # "list" \/ stage'[d] = "idle" => got'[d] = {}
      /\ got'[d] \subseteq during'[d]
  BY <1>m, <1>2 DEF Visiting
<1>6. /\ Sends(d, {"list"}, "each")' => met'[d] \intersect Alive(boxes)' \subseteq todo'[d] \union Visited(d)'
      /\ Done(d, {"list"})' => met'[d] \intersect Alive(boxes)' \subseteq Visited(d)'
  BY <1>3, <1>4, <1>d, <1>s DEF Visiting
<1>7. /\ Sends(d, {"removeLabelled"}, "each")' => met'[d] \intersect Alive(boxes)' \subseteq todo'[d]
      /\ call'[d] = "removeLabelled" /\ Swept(d)' => met'[d] \intersect Alive(boxes)' = {}
  BY <1>3, <1>4, <1>s DEF Visiting
<1>8. call'[d] = "removeLabelled" /\ stage'[d] \notin {"idle", "done"} => Alive(boxes)' \subseteq Stood(d)'
  <2> SUFFICES ASSUME call[d] = "removeLabelled", stage[d] \notin {"idle", "done"}
               PROVE  Alive(boxes)' \subseteq Stood(d)'
    OBVIOUS
  <2>1. CASE boxes' = boxes BY <2>1, <1>r DEF Visiting, Alive
  <2>2. CASE FactsNow(d) \subseteq during'[d] BY <2>2, SweepNotes
  <2> QED BY <2>1, <2>2
<1> QED BY <1>1, <1>5, <1>6, <1>7, <1>8 DEF Visiting

LEMMA WatchedDuring ==
    ASSUME AdapterTypeOK, Watched, pulled' \in BOOLEAN, things' \subseteq {"network", "volume"}
    PROVE  /\ during' \in [Clients -> SUBSET Seen]
           /\ \A d \in Clients : during[d] \subseteq during'[d]
           /\ \A d \in Clients : stage[d] \notin {"idle", "done"} =>
                  during'[d] = during[d] \union FactsNow(d)
<1>1. \A d \in Clients : during'[d] = IF stage[d] \in {"idle", "done"} THEN during[d]
                                      ELSE during[d] \union FactsNow(d)
  BY DEF Watched, FactsNow
<1>2. \A d \in Clients : FactsNow(d) \subseteq Seen BY FactsType DEF FactsNow
<1>3. \A d \in Clients : during'[d] \in SUBSET Seen
  BY <1>1, <1>2 DEF AdapterTypeOK
<1>4. during' = [d \in Clients |-> during'[d]] BY DEF Watched
<1> QED BY <1>1, <1>3, <1>4

LEMMA EndingKeeps ==
    ASSUME AInv, NEW c \in Clients, OneRequest(c), Watched, Ending(c)
    PROVE  Answered(c)' /\ Visiting(c)'
<1>t. AdapterTypeOK /\ Answered(c) /\ Visiting(c) /\ BoxesKeep BY DEF AInv, OneRequest, EngineKeeps
<1>u. call'[c] = call[c] /\ met'[c] = met[c] /\ stage[c] \notin {"idle", "done"} BY DEF OneRequest
<1>w. during[c] \subseteq during'[c] /\ during'[c] = during[c] \union FactsNow(c)
  BY <1>t, <1>u, WatchedDuring DEF OneRequest, EngineKeeps
<1>m. Made \subseteq Made' /\ Made \intersect Alive(boxes)' \subseteq Alive(boxes)
  BY <1>t, StillStanding
<1>e. /\ stage'[c] = "done" /\ todo'[c] = {} /\ got'[c] = got[c]
      /\ RightClass(result'[c])
      /\ call[c] \in Lists \union Ensures => Allowed(c, result'[c].cause)
      /\ result'[c].error = "none" =>
            /\ call[c] \in Ensures \union {"pull"} => FactsNow(c) # {}
            /\ call[c] = "list" => stage[c] = "each" /\ todo[c] = {}
            /\ call[c] = "removeLabelled" => stage[c] = "volume"
  BY DEF Ending, Accomplished
<1>1. Done(c, Ensures \union {"pull"})' => during'[c] # {}
  BY <1>e, <1>u, <1>w DEF Done
<1>b. call[c] \in Lists \union Ensures =>
            \/ result'[c].cause \in Harmless
            \/ /\ result'[c].cause = "inUse" /\ call[c] = "removeLabelled"
               /\ Stood(c)' \ met[c] # {}
  <2> SUFFICES ASSUME call[c] = "removeLabelled", stage[c] \in {"network", "volume"}, Alive(boxes) # {}
               PROVE  Stood(c)' \ met[c] # {}
    BY <1>e DEF Allowed
  <2>1. met[c] \intersect Alive(boxes) = {} /\ Alive(boxes) \subseteq Stood(c)
    BY <1>t, <1>u DEF Visiting, Swept
  <2>2. Stood(c) \subseteq Stood(c)' BY <1>w DEF Stood
  <2> QED BY <2>1, <2>2
<1>2. Answered(c)' BY <1>1, <1>b, <1>e, <1>u DEF Answered
<1>3. met[c] \intersect Alive(boxes)' \subseteq met[c] \intersect Alive(boxes)
  BY <1>m, <1>t DEF Visiting
<1>4. Visited(c)' = Visited(c) BY <1>e DEF Visited
<1>5. Done(c, {"list"})' => met[c] \intersect Alive(boxes)' \subseteq Visited(c)'
  <2> SUFFICES ASSUME Done(c, {"list"})' PROVE met[c] \intersect Alive(boxes)' \subseteq Visited(c)'
    OBVIOUS
  <2>1. call[c] = "list" /\ stage[c] = "each" /\ todo[c] = {} BY <1>e, <1>u DEF Done
  <2>2. met[c] \intersect Alive(boxes) \subseteq Visited(c) BY <2>1, <1>t DEF Visiting, Sends
  <2> QED BY <2>2, <1>3, <1>4
<1>6. call[c] = "removeLabelled" /\ Swept(c)' => met[c] \intersect Alive(boxes)' = {}
  <2> SUFFICES ASSUME call[c] = "removeLabelled", Swept(c)'
               PROVE  met[c] \intersect Alive(boxes)' = {}
    OBVIOUS
  <2>1. Swept(c) BY <1>e, <1>u DEF Swept, Done
  <2>2. met[c] \intersect Alive(boxes) = {} BY <2>1, <1>t DEF Visiting
  <2> QED BY <2>2, <1>3
<1>7. /\ ~Sends(c, {"list"}, "each")' /\ ~Sends(c, {"removeLabelled"}, "each")' BY <1>e DEF Sends
<1>8. met[c] \subseteq Made' /\ (call[c] # "list" => got[c] = {}) /\ got[c] \subseteq during'[c]
  BY <1>m, <1>t, <1>w DEF Visiting
<1>9. Visiting(c)' BY <1>e, <1>u, <1>5, <1>6, <1>7, <1>8 DEF Visiting
<1> QED BY <1>2, <1>9

LEMMA GoingKeeps ==
    ASSUME AInv, NEW c \in Clients, OneRequest(c), Watched, Going(c)
    PROVE  Answered(c)' /\ Visiting(c)'
<1>t. AdapterTypeOK /\ Answered(c) /\ Visiting(c) /\ BoxesKeep BY DEF AInv, OneRequest, EngineKeeps
<1>u. call'[c] = call[c] /\ met'[c] = met[c] /\ stage[c] \notin {"idle", "done"} BY DEF OneRequest
<1>w. during[c] \subseteq during'[c] /\ during'[c] = during[c] \union FactsNow(c)
  BY <1>t, <1>u, WatchedDuring DEF OneRequest, EngineKeeps
<1>m. Made \subseteq Made' /\ Made \intersect Alive(boxes)' \subseteq Alive(boxes)
  BY <1>t, StillStanding
<1>g. /\ stage'[c] \notin {"idle", "done"} /\ result'[c] = result[c]
      /\ got[c] \subseteq got'[c] /\ got'[c] \subseteq got[c] \union FactsNow(c)
      /\ call[c] # "list" => got'[c] = got[c]
  BY DEF Going
<1>r. Stood(c) \subseteq Stood(c)' BY <1>w DEF Stood
<1>1. Answered(c)' BY <1>g, <1>u, <1>t, <1>r DEF Answered, Done
<1>2. met[c] \subseteq Made /\ met[c] \intersect Alive(boxes)' \subseteq Alive(boxes)
  BY <1>m, <1>t DEF Visiting
<1>3. Visited(c) \subseteq Visited(c)' BY <1>g DEF Visited
<1>4. Sends(c, {"list"}, "each")' => met[c] \intersect Alive(boxes)' \subseteq todo'[c] \union Visited(c)'
  <2> SUFFICES ASSUME call[c] = "list", stage'[c] = "each"
               PROVE  met[c] \intersect Alive(boxes)' \subseteq todo'[c] \union Visited(c)'
    BY <1>u DEF Sends
  <2>1. CASE todo'[c] = Alive(boxes) BY <2>1, <1>2
  <2>2. CASE stage[c] = "each" /\ todo[c] \intersect Alive(boxes) \subseteq todo'[c] \union Visited(c)'
    <3>1. met[c] \intersect Alive(boxes) \subseteq todo[c] \union Visited(c)
      BY <2>2, <1>t DEF Visiting, Sends
    <3> QED BY <3>1, <2>2, <1>2, <1>3
  <2> QED BY <2>1, <2>2 DEF Going
<1>5. Sends(c, {"removeLabelled"}, "each")' => met[c] \intersect Alive(boxes)' \subseteq todo'[c]
  <2> SUFFICES ASSUME call[c] = "removeLabelled", stage'[c] = "each"
               PROVE  met[c] \intersect Alive(boxes)' \subseteq todo'[c]
    BY <1>u DEF Sends
  <2>1. CASE todo'[c] = Alive(boxes) BY <2>1, <1>2
  <2>2. CASE stage[c] = "each" /\ todo[c] \intersect Alive(boxes)' \subseteq todo'[c]
    <3>1. met[c] \intersect Alive(boxes) \subseteq todo[c]
      BY <2>2, <1>t DEF Visiting, Sends
    <3> QED BY <3>1, <2>2, <1>2
  <2> QED BY <2>1, <2>2 DEF Going
<1>6. call[c] = "removeLabelled" /\ Swept(c)' => met[c] \intersect Alive(boxes)' = {}
  <2> SUFFICES ASSUME call[c] = "removeLabelled", stage'[c] \in {"network", "volume"}
               PROVE  met[c] \intersect Alive(boxes)' = {}
    BY <1>g DEF Swept, Done
  <2>1. met[c] \intersect Alive(boxes) = {}
    <3>1. CASE stage[c] = "each" /\ todo[c] = {} BY <3>1, <1>t DEF Visiting, Sends
    <3>2. CASE stage[c] \in {"network", "volume"} BY <3>2, <1>t DEF Visiting, Swept
    <3> QED BY <3>1, <3>2 DEF Going
  <2> QED BY <2>1, <1>2
<1>7. ~Done(c, {"list"})' BY <1>g DEF Done
<1>8. /\ met[c] \subseteq Made' /\ got'[c] \subseteq during'[c]
      /\ call[c] # "list" => got'[c] = {}
  BY <1>m, <1>t, <1>g, <1>w DEF Visiting
<1>n. call[c] = "removeLabelled" => Alive(boxes)' \subseteq Stood(c)' BY <1>w, SweepNotes
<1>9. Visiting(c)' BY <1>g, <1>u, <1>4, <1>5, <1>6, <1>7, <1>8, <1>n DEF Visiting
<1> QED BY <1>1, <1>9

LEMMA OneRequestKeeps ==
    ASSUME AInv, NEW c \in Clients, OneRequest(c), Watched
    PROVE  AInv'
<1>t. AdapterTypeOK BY DEF AInv
<1>w. /\ during' \in [Clients -> SUBSET Seen]
      /\ \A d \in Clients : during[d] \subseteq during'[d]
      /\ \A d \in Clients : stage[d] \notin {"idle", "done"} => FactsNow(d) \subseteq during'[d]
  BY <1>t, WatchedDuring DEF OneRequest, EngineKeeps
<1>1. ASSUME NEW d \in Clients PROVE Answered(d)' /\ Visiting(d)'
  <2>1. CASE d = c BY <2>1, EndingKeeps, GoingKeeps DEF OneRequest
  <2>2. CASE d # c BY <2>2, <1>t, <1>w, UnmovedKeeps DEF OneRequest, EngineKeeps, AInv
  <2> QED BY <2>1, <2>2
<1>2. \A d \in Clients : stage'[d] = "idle" => todo'[d] = {} BY <1>1 DEF Visiting
<1>3. call' \in [Clients -> Operations \union {"idle"}] /\ name' \in [Clients -> Names \union {NotGiven}]
      /\ met' \in [Clients -> SUBSET Ids]
  BY <1>t DEF OneRequest, AdapterTypeOK
<1>4. AdapterTypeOK' BY <1>2, <1>3, <1>w DEF OneRequest, EngineKeeps, BoxesKeep, AdapterTypeOK
<1> QED BY <1>1, <1>4 DEF AInv
-----------------------------------------------------------------------------
(* Every request is of that kind. *)

Asking(c) == stage[c] \notin {"idle", "done"}

LEMMA EngineSame ==
    ASSUME AdapterTypeOK, UNCHANGED engineVars
    PROVE  EngineKeeps
<1>1. boxes' = boxes /\ pulled' = pulled /\ things' = things BY DEF engineVars
<1>2. BoxesKeep BY <1>1, SameBoxesKeep
<1> QED BY <1>1, <1>2 DEF EngineKeeps, AdapterTypeOK

LEMMA EndIsRequest ==
    ASSUME AdapterTypeOK, NEW c \in Clients, Asking(c), NEW error \in Errors, NEW cause \in Causes,
           EndsAs(c, error, cause), EngineKeeps, UNCHANGED got, faults' \in 0..MaxFaults,
           RightClass([error |-> error, cause |-> cause]),
           call[c] \in Lists \union Ensures => Allowed(c, cause),
           error = "none" => Accomplished(c)
    PROVE  OneRequest(c)
<1> DEFINE r == [error |-> error, cause |-> cause]
<1>1. /\ stage' = [stage EXCEPT ![c] = "done"]
      /\ result' = [result EXCEPT ![c] = r]
      /\ todo' = [todo EXCEPT ![c] = {}]
      /\ UNCHANGED <<call, name, met>>
  BY DEF EndsAs
<1>2. r \in [error : Errors, cause : Causes] OBVIOUS
<1>3. stage' \in [Clients -> Stages] BY <1>1 DEF AdapterTypeOK, Stages
<1>4. todo' \in [Clients -> SUBSET Ids] BY <1>1 DEF AdapterTypeOK
<1>5. result' \in [Clients -> [error : Errors, cause : Causes]] BY <1>1, <1>2 DEF AdapterTypeOK
<1>6. got' \in [Clients -> SUBSET Seen] BY DEF AdapterTypeOK
<1>7. \A d \in Clients \ {c} : Unmoved(d) BY <1>1 DEF AdapterTypeOK, Unmoved
<1>8. stage'[c] = "done" /\ todo'[c] = {} /\ result'[c] = r BY <1>1 DEF AdapterTypeOK
<1>9. r.error = error /\ r.cause = cause OBVIOUS
<1>10. Ending(c) BY <1>8, <1>9 DEF Ending
<1> QED BY <1>1, <1>3, <1>4, <1>5, <1>6, <1>7, <1>10 DEF OneRequest, Asking

LEMMA FailIsRequest ==
    ASSUME AdapterTypeOK, NEW c \in Clients, Asking(c), NEW cause, FailsBy(c, cause),
           Plausible(call[c], cause), call[c] \in Lists \union Ensures => Allowed(c, cause),
           EngineKeeps, UNCHANGED got, faults' \in 0..MaxFaults
    PROVE  OneRequest(c)
<1>1. PICK answer \in Answers(cause, call[c]) :
          EndsAs(c, MapError(answer, KindOf(call[c])), cause)
  BY DEF FailsBy
<1> DEFINE e == MapError(answer, KindOf(call[c]))
<1>2. e \in Errors \ {"none"} BY MapErrorType
<1>3. RightClass([error |-> e, cause |-> cause]) BY MapsToRightClass
<1>4. cause \in Causes BY DEF Plausible
<1> HIDE DEF e
<1>5. EndsAs(c, e, cause) BY <1>1 DEF e
<1> QED BY <1>2, <1>3, <1>4, <1>5, EndIsRequest

LEMMA SuccessIsRequest ==
    ASSUME AdapterTypeOK, NEW c \in Clients, Asking(c), Succeeds(c), Accomplished(c),
           EngineKeeps, UNCHANGED got
    PROVE  OneRequest(c)
<1>1. EndsAs(c, "none", "none") /\ faults' \in 0..MaxFaults BY DEF Succeeds, AdapterTypeOK
<1>2. RightClass([error |-> "none", cause |-> "none"]) BY DEF RightClass
<1> QED BY <1>1, <1>2, EndIsRequest DEF Errors, Causes, Allowed, Harmless

LEMMA FaultCounts ==
    ASSUME AdapterTypeOK, Fault
    PROVE  faults' \in 0..MaxFaults
BY AdapterAssumption DEF AdapterTypeOK, Fault

LEMMA ReplyIsRequest ==
    ASSUME AdapterTypeOK, NEW c \in Clients, Asking(c), Replied(c), Accomplished(c),
           EngineKeeps, UNCHANGED got
    PROVE  OneRequest(c)
<1>1. CASE Succeeds(c) BY <1>1, SuccessIsRequest
<1>2. CASE FailsBy(c, "unreachable") /\ Fault
  <2>1. Plausible(call[c], "unreachable") BY DEF Plausible, Causes
  <2> QED BY <1>2, <2>1, FailIsRequest, FaultCounts DEF Allowed, Harmless
<1> QED BY <1>1, <1>2 DEF Replied

LEMMA RefusalIsRequest ==
    ASSUME AdapterTypeOK, NEW c \in Clients, Asking(c), NEW cause, Refused(c, cause),
           Plausible(call[c], cause), call[c] \notin Lists \union Ensures
    PROVE  OneRequest(c)
<1>1. UNCHANGED got /\ faults' \in 0..MaxFaults /\ EngineKeeps
  BY EngineSame DEF Refused, AdapterTypeOK
<1> QED BY <1>1, FailIsRequest DEF Refused

LEMMA GoIsRequest ==
    ASSUME AdapterTypeOK, NEW c \in Clients, Asking(c), NEW step \in Stages \ {"idle", "done"},
           GoOn(c, step), EngineKeeps,
           NEW left \in SUBSET Ids, todo' = [todo EXCEPT ![c] = left],
           NEW seen \in SUBSET Seen, got' = [got EXCEPT ![c] = seen], Going(c)
    PROVE  OneRequest(c)
<1>1. /\ stage' = [stage EXCEPT ![c] = step]
      /\ UNCHANGED <<call, name, result, met, faults>>
  BY DEF GoOn
<1>2. stage' \in [Clients -> Stages] BY <1>1 DEF AdapterTypeOK
<1>3. todo' \in [Clients -> SUBSET Ids] BY DEF AdapterTypeOK
<1>4. got' \in [Clients -> SUBSET Seen] BY DEF AdapterTypeOK
<1>5. \A d \in Clients \ {c} : Unmoved(d) BY <1>1 DEF AdapterTypeOK, Unmoved
<1>6. faults' \in 0..MaxFaults /\ result' \in [Clients -> [error : Errors, cause : Causes]]
  BY <1>1 DEF AdapterTypeOK
<1> QED BY <1>1, <1>2, <1>3, <1>4, <1>5, <1>6 DEF OneRequest, Asking

LEMMA StepIsRequest ==
    ASSUME AdapterTypeOK, NEW c \in Clients, Asking(c), NEW step \in Stages \ {"idle", "done", "each"},
           GoOn(c, step), EngineKeeps, UNCHANGED <<todo, got>>,
           call[c] = "removeLabelled" /\ step \in {"network", "volume"} =>
               \/ stage[c] = "each" /\ todo[c] = {}
               \/ stage[c] \in {"network", "volume"}
    PROVE  OneRequest(c)
<1>1. /\ todo[c] \in SUBSET Ids /\ todo' = [todo EXCEPT ![c] = todo[c]]
      /\ got[c] \in SUBSET Seen /\ got' = [got EXCEPT ![c] = got[c]]
  BY DEF AdapterTypeOK
<1>2. stage'[c] = step /\ result'[c] = result[c] /\ got'[c] = got[c]
  BY DEF GoOn, AdapterTypeOK
<1>3. Going(c) BY <1>2 DEF Going
<1> QED BY <1>1, <1>3, GoIsRequest

(* The visit of one container of a list: what is said of it was the case,  *)
(* and it is crossed off when it has been inspected, removed or is gone.   *)
LEMMA VisitIsRequest ==
    ASSUME AdapterTypeOK, NEW c \in Clients, Sends(c, Lists, "each"), NEW id \in todo[c],
           GoOn(c, "each"), EngineKeeps, todo' = [todo EXCEPT ![c] = todo[c] \ {id}],
           NEW said \in SUBSET ({id} \X {"created", "running", "exited"}),
           got' = [got EXCEPT ![c] = got[c] \union said],
           call[c] = "list" => said \subseteq FactsNow(c) /\ (id \in Alive(boxes) => said # {}),
           call[c] = "removeLabelled" => said = {} /\ id \notin Alive(boxes)'
    PROVE  OneRequest(c)
<1>1. id \in Ids /\ todo[c] \in SUBSET Ids /\ got[c] \in SUBSET Seen BY DEF AdapterTypeOK
<1>2. said \subseteq Seen BY <1>1 DEF Seen
<1>3. /\ stage'[c] = "each" /\ result'[c] = result[c] /\ stage[c] = "each"
      /\ todo'[c] = todo[c] \ {id} /\ got'[c] = got[c] \union said
      /\ call[c] \in {"list", "removeLabelled"}
  BY DEF GoOn, AdapterTypeOK, Sends, Lists
<1>4. call[c] = "list" => todo[c] \intersect Alive(boxes) \subseteq todo'[c] \union Visited(c)'
  <2> SUFFICES ASSUME call[c] = "list", id \in Alive(boxes) PROVE id \in Visited(c)'
    BY <1>3
  <2>1. PICK entry \in said : TRUE OBVIOUS
  <2>2. entry[1] = id /\ entry \in got'[c] BY <1>3
  <2> QED BY <2>2 DEF Visited
<1>5. Going(c) BY <1>3, <1>4 DEF Going, Stages
<1>6. Asking(c) BY <1>3 DEF Asking
<1>7. "each" \in Stages \ {"idle", "done"} BY DEF Stages
<1> QED BY <1>1, <1>2, <1>5, <1>6, <1>7, GoIsRequest

-----------------------------------------------------------------------------
(* Operation by operation. *)

LEMMA AskIsRequest ==
    ASSUME AdapterTypeOK, NEW c \in Clients, Ping(c) \/ NetworkExists(c) \/ Inspect(c) \/ Logs2(c)
    PROVE  OneRequest(c)
<1>1. /\ call[c] \in {"ping", "networkExists", "inspect", "logs"} /\ stage[c] \in {"request", "logs"}
      /\ Succeeds(c) /\ UNCHANGED engineVars /\ UNCHANGED got
  BY DEF Ping, NetworkExists, Inspect, Logs2, Ask, Sends
<1>2. Asking(c) /\ Accomplished(c) BY <1>1 DEF Asking, Accomplished, Ensures
<1> QED BY <1>1, <1>2, EngineSame, SuccessIsRequest

LEMMA BoxRequest ==
    ASSUME AdapterTypeOK, NEW c \in Clients, Start(c) \/ Stop(c) \/ RemoveContainer(c)
    PROVE  OneRequest(c)
<1>1. /\ call[c] \in {"start", "stop", "remove", "removeForce"} /\ stage[c] = "request"
      /\ Asking(c) /\ Accomplished(c)
  BY DEF Start, Stop, RemoveContainer, Sends, Asking, Accomplished, Ensures
<1>2. PICK id \in Named(name[c]) :
          \/ Succeeds(c) /\ UNCHANGED <<engineVars, got>>
          \/ \E state \in {"running", "exited", "gone"} : ChangesBox(c, id, state)
          \/ Refused(c, "isRunning")
  BY DEF Start, Stop, RemoveContainer
<1>3. CASE Succeeds(c) /\ UNCHANGED <<engineVars, got>>
  BY <1>1, <1>3, EngineSame, SuccessIsRequest
<1>4. ASSUME NEW state \in {"running", "exited", "gone"}, ChangesBox(c, id, state)
      PROVE  OneRequest(c)
  <2>1. /\ boxes' = [boxes EXCEPT ![id] = Became(boxes[id], state)]
        /\ Replied(c) /\ pulled' = pulled /\ things' = things /\ UNCHANGED got
    BY <1>4 DEF ChangesBox
  <2>2. id \in Alive(boxes) /\ state \in BoxStates \ {"none"} BY DEF Named, BoxStates
  <2>3. EngineKeeps BY <2>1, <2>2, BecameKeeps DEF EngineKeeps, AdapterTypeOK
  <2> QED BY <1>1, <2>1, <2>3, ReplyIsRequest
<1>5. CASE Refused(c, "isRunning")
  <2>1. Plausible(call[c], "isRunning") BY <1>1 DEF Plausible, Causes, OnContainer
  <2>2. call[c] \notin Lists \union Ensures BY <1>1 DEF Lists, Ensures
  <2> QED BY <1>1, <1>5, <2>1, <2>2, RefusalIsRequest
<1> QED BY <1>2, <1>3, <1>4, <1>5

LEMMA CreateRequest ==
    ASSUME AdapterTypeOK, NEW c \in Clients, Create(c)
    PROVE  OneRequest(c)
<1>1. /\ call[c] = "create" /\ Asking(c) /\ Accomplished(c)
      /\ call[c] \notin Lists \union Ensures
      /\ Plausible(call[c], "nameTaken") /\ Plausible(call[c], "noImage")
  BY DEF Create, Sends, Asking, Accomplished, Lists, Ensures, Plausible, Causes
<1>2. CASE /\ Named(name[c]) = {} /\ NewBox(name[c])
           /\ Replied(c) /\ UNCHANGED <<pulled, things, got>>
  <2>1. name[c] \in Names \union {NotGiven} BY DEF AdapterTypeOK
  <2>2. EngineKeeps BY <1>2, <2>1, NewBoxKeeps DEF EngineKeeps, AdapterTypeOK
  <2> QED BY <1>1, <1>2, <2>2, ReplyIsRequest
<1>3. CASE Refused(c, "nameTaken") BY <1>1, <1>3, RefusalIsRequest
<1>4. CASE Refused(c, "noImage") BY <1>1, <1>4, RefusalIsRequest
<1> QED BY <1>2, <1>3, <1>4 DEF Create

LEMMA AbsentRequest ==
    ASSUME AdapterTypeOK, NEW c \in Clients, NoSuchContainer(c)
    PROVE  OneRequest(c)
<1>1. /\ call[c] \in {"start", "stop", "remove", "removeForce", "inspect", "logs"}
      /\ stage[c] \in {"request", "logs"} /\ Refused(c, "noContainer")
  BY DEF NoSuchContainer, Sends
<1>2. /\ Asking(c) /\ call[c] \notin Lists \union Ensures
      /\ Plausible(call[c], "noContainer")
  BY <1>1 DEF Asking, Lists, Ensures, Plausible, Causes, OnContainer
<1> QED BY <1>1, <1>2, RefusalIsRequest

LEMMA LogsRequest ==
    ASSUME AdapterTypeOK, NEW c \in Clients, Logs1(c)
    PROVE  OneRequest(c)
<1>1. /\ call[c] = "logs" /\ Asking(c) /\ GoOn(c, "logs")
      /\ UNCHANGED engineVars /\ UNCHANGED <<todo, got>>
  BY DEF Logs1, Sends, Asking
<1>2. "logs" \in Stages \ {"idle", "done", "each"} BY DEF Stages
<1> QED BY <1>1, <1>2, EngineSame, StepIsRequest

LEMMA PullRequest ==
    ASSUME AdapterTypeOK, NEW c \in Clients, PullAnswered(c) \/ PullEnds(c)
    PROVE  OneRequest(c)
<1>1. /\ call[c] = "pull" /\ Asking(c)
      /\ call[c] \notin Lists \union Ensures /\ Plausible(call[c], "noImage")
  BY DEF PullAnswered, PullEnds, Sends, Asking, Lists, Ensures, Plausible, Causes
<1>2. CASE PullAnswered(c)
  <2>1. CASE GoOn(c, "stream") /\ UNCHANGED <<engineVars, todo, got>>
    <3>1. "stream" \in Stages \ {"idle", "done", "each"} BY DEF Stages
    <3> QED BY <1>1, <2>1, <3>1, EngineSame, StepIsRequest
  <2>2. CASE Refused(c, "noImage") BY <1>1, <2>2, RefusalIsRequest
  <2> QED BY <1>2, <2>1, <2>2 DEF PullAnswered
<1>3. CASE PullEnds(c)
  <2>1. boxes' = boxes /\ things' = things /\ got' = got BY <1>3 DEF PullEnds
  <2>2. CASE pulled' = TRUE /\ Succeeds(c)
    <3>1. EngineKeeps BY <2>1, <2>2, SameBoxesKeep DEF EngineKeeps, AdapterTypeOK
    <3>2. <<0, "image">> \in FactsNow(c) BY <1>1, <2>2 DEF FactsNow, Facts
    <3>3. Accomplished(c) BY <1>1, <3>2 DEF Accomplished
    <3> QED BY <1>1, <2>1, <2>2, <3>1, <3>3, SuccessIsRequest
  <2>3. CASE UNCHANGED pulled /\ EventFails(c)
    <3>1. EngineKeeps BY <2>1, <2>3, SameBoxesKeep DEF EngineKeeps, AdapterTypeOK
    <3>2. EndsAs(c, "ImageNotFound", "noImage") /\ faults' \in 0..MaxFaults
      BY <2>3 DEF EventFails, MapPullMessage, SaysMissingImage, AdapterTypeOK
    <3>3. RightClass([error |-> "ImageNotFound", cause |-> "noImage"]) BY DEF RightClass
    <3> QED BY <1>1, <2>1, <3>1, <3>2, <3>3, EndIsRequest DEF Errors, Causes
  <2> QED BY <1>3, <2>2, <2>3 DEF PullEnds
<1> QED BY <1>2, <1>3

LEMMA EnsureRequest ==
    ASSUME AdapterTypeOK, NEW c \in Clients, NEW kind \in Ensures, Ensure(c, kind, Thing(kind))
    PROVE  OneRequest(c)
<1> DEFINE thing == Thing(kind)
<1>1. call[c] = kind /\ stage[c] \in {"request", "create"} /\ Asking(c) /\ got' = got
  BY DEF Ensure, Sends, Asking
<1>2. thing \in {"network", "volume"} BY DEF Thing
<1>3. ASSUME thing \in things' PROVE Accomplished(c)
  <2>1. <<0, thing>> \in FactsNow(c) BY <1>1, <1>3 DEF FactsNow, Facts, Ensures
  <2> QED BY <1>1, <2>1 DEF Accomplished, Ensures
<1> HIDE DEF thing
<1>4. CASE /\ IF thing \in things THEN Succeeds(c) ELSE GoOn(c, "create") /\ UNCHANGED todo
           /\ UNCHANGED <<engineVars, got>>
  <2>1. EngineKeeps BY <1>4, EngineSame
  <2>2. CASE thing \in things
    <3>1. thing \in things' BY <1>4, <2>2 DEF engineVars
    <3> QED BY <1>1, <1>3, <1>4, <2>1, <2>2, <3>1, SuccessIsRequest
  <2>3. CASE thing \notin things
    <3>1. "create" \in Stages \ {"idle", "done", "each", "network", "volume"} BY DEF Stages
    <3> QED BY <1>1, <1>4, <2>1, <2>3, <3>1, StepIsRequest
  <2> QED BY <2>2, <2>3
<1>5. CASE /\ things' = things \union {thing}
           /\ IF thing \in things THEN Succeeds(c) ELSE Replied(c)
           /\ UNCHANGED <<boxes, pulled, got>>
  <2>1. EngineKeeps BY <1>2, <1>5, SameBoxesKeep DEF EngineKeeps, AdapterTypeOK
  <2>2. Accomplished(c) BY <1>3, <1>5
  <2> QED BY <1>1, <1>5, <2>1, <2>2, SuccessIsRequest, ReplyIsRequest
<1> QED BY <1>4, <1>5 DEF Ensure, thing

LEMMA ListRequest ==
    ASSUME AdapterTypeOK, NEW c \in Clients, List(c) \/ Listed(c)
    PROVE  OneRequest(c)
<1>1. UNCHANGED engineVars /\ got' = got /\ Asking(c) BY DEF List, Listed, Sends, Asking
<1>2. EngineKeeps BY <1>1, EngineSame
<1>3. CASE List(c)
  <2>1. todo' = [todo EXCEPT ![c] = Alive(boxes)] /\ GoOn(c, "each")
    BY <1>3 DEF List, Everything
  <2>2. Alive(boxes) \in SUBSET Ids /\ "each" \in Stages \ {"idle", "done"} BY DEF Alive, Stages
  <2>3. got[c] \in SUBSET Seen /\ got' = [got EXCEPT ![c] = got[c]] BY <1>1 DEF AdapterTypeOK
  <2>4. stage'[c] = "each" /\ result'[c] = result[c] /\ got'[c] = got[c] /\ todo'[c] = Alive(boxes)
    BY <1>1, <2>1 DEF GoOn, AdapterTypeOK
  <2>5. Going(c) BY <2>4 DEF Going, Stages
  <2> QED BY <1>1, <1>2, <2>1, <2>2, <2>3, <2>5, GoIsRequest
<1>4. CASE Listed(c)
  <2>1. call[c] = "list" /\ stage[c] = "each" /\ todo[c] = {} /\ Succeeds(c)
    BY <1>4 DEF Listed, Sends
  <2>2. Accomplished(c) BY <2>1 DEF Accomplished, Ensures
  <2> QED BY <1>1, <1>2, <2>1, <2>2, SuccessIsRequest
<1> QED BY <1>3, <1>4

LEMMA InspectListedRequest ==
    ASSUME AdapterTypeOK, NEW c \in Clients, NEW id \in Ids, InspectListed(c, id)
    PROVE  OneRequest(c)
<1>1. /\ call[c] = "list" /\ Sends(c, Lists, "each") /\ id \in todo[c] /\ GoOn(c, "each")
      /\ UNCHANGED engineVars /\ boxes' = boxes
      /\ todo' = [todo EXCEPT ![c] = todo[c] \ {id}]
  BY DEF InspectListed, Gone, Sends, Lists, engineVars
<1>2. EngineKeeps BY <1>1, EngineSame
<1> DEFINE said == IF id \in Alive(boxes) THEN {<<id, MapState(boxes[id].state)>>} ELSE {}
<1>3. said \subseteq {id} \X {"created", "running", "exited"} BY DEF MapState
<1>4. said \subseteq FactsNow(c)
  <2>1. FactsNow(c) = Facts("list", boxes, pulled, things) BY <1>1 DEF FactsNow, engineVars
  <2> QED BY <2>1, FactsOfList
<1>5. got' = [got EXCEPT ![c] = got[c] \union said]
  <2>1. CASE id \in Alive(boxes) BY <2>1 DEF InspectListed
  <2>2. CASE id \notin Alive(boxes)
    <3>1. got' = got /\ said = {} BY <2>2 DEF InspectListed, Gone
    <3> QED BY <3>1 DEF AdapterTypeOK
  <2> QED BY <2>1, <2>2
<1>6. id \in Alive(boxes) => said # {} OBVIOUS
<1> HIDE DEF said
<1> QED BY <1>1, <1>2, <1>3, <1>4, <1>5, <1>6, VisitIsRequest

LEMMA SweepBoxRequest ==
    ASSUME AdapterTypeOK, NEW c \in Clients, NEW id \in Ids, SweepBox(c, id)
    PROVE  OneRequest(c)
<1>1. /\ call[c] = "removeLabelled" /\ Sends(c, Lists, "each") /\ id \in todo[c] /\ GoOn(c, "each")
      /\ pulled' = pulled /\ things' = things /\ got' = got
      /\ todo' = [todo EXCEPT ![c] = todo[c] \ {id}]
  BY DEF SweepBox, Gone, Sends, Lists, engineVars
<1>2. got' = [got EXCEPT ![c] = got[c] \union {}] BY <1>1 DEF AdapterTypeOK
<1>3. EngineKeeps /\ id \notin Alive(boxes)'
  <2>1. CASE id \notin Alive(boxes)
    <3>1. UNCHANGED engineVars /\ boxes' = boxes BY <2>1 DEF SweepBox, engineVars
    <3>2. EngineKeeps BY <3>1, EngineSame
    <3>3. Alive(boxes)' = Alive(boxes) BY <3>1 DEF Alive
    <3> QED BY <2>1, <3>2, <3>3
  <2>2. CASE id \in Alive(boxes)
    <3>1. boxes' = [boxes EXCEPT ![id] = Became(boxes[id], "gone")] BY <2>2 DEF SweepBox
    <3>2. EngineKeeps BY <1>1, <2>2, <3>1, BecameKeeps DEF EngineKeeps, AdapterTypeOK, BoxStates
    <3>3. boxes'[id].state = "gone" BY <3>1 DEF AdapterTypeOK, Became, NoBox
    <3> QED BY <3>2, <3>3 DEF Alive
  <2> QED BY <2>1, <2>2
<1> QED BY <1>1, <1>2, <1>3, VisitIsRequest

LEMMA SweepThings ==
    ASSUME AdapterTypeOK, NEW c \in Clients, SweepListsThing(c) \/ SweepThing(c)
    PROVE  OneRequest(c)
<1>1. /\ boxes' = boxes /\ pulled' = pulled /\ UNCHANGED <<todo, got>>
      /\ things' \subseteq things /\ call[c] = "removeLabelled" /\ Asking(c)
  BY DEF SweepListsThing, SweepThing, Sends, engineVars, Asking
<1>2. EngineKeeps BY <1>1, SameBoxesKeep DEF EngineKeeps, AdapterTypeOK
<1>3. \/ stage[c] = "volume" /\ Succeeds(c)
      \/ stage[c] = "each" /\ todo[c] = {} /\ GoOn(c, "network")
      \/ stage[c] = "network" /\ GoOn(c, "volume")
  BY DEF SweepListsThing, SweepThing, Sends
<1>4. stage[c] = "volume" => Accomplished(c) BY <1>1 DEF Accomplished, Ensures
<1>5. {"network", "volume"} \subseteq Stages \ {"idle", "done", "each"} BY DEF Stages
<1> QED BY <1>1, <1>2, <1>3, <1>4, <1>5, SuccessIsRequest, StepIsRequest

LEMMA SweepRefusedRequest ==
    ASSUME AdapterTypeOK, NEW c \in Clients, SweepRefused(c)
    PROVE  OneRequest(c)
<1>1. /\ Asking(c) /\ call[c] = "removeLabelled" /\ Allowed(c, "inUse")
      /\ FailsBy(c, "inUse") /\ UNCHANGED engineVars /\ got' = got /\ faults' = faults
  BY DEF SweepRefused, Refused, Sends, Asking, Allowed
<1>2. Plausible(call[c], "inUse") BY <1>1 DEF Plausible, Causes
<1>3. faults' \in 0..MaxFaults BY <1>1 DEF AdapterTypeOK
<1> QED BY <1>1, <1>2, <1>3, EngineSame, FailIsRequest

LEMMA FailingRequest ==
    ASSUME AdapterTypeOK, NEW c \in Clients, NEW cause \in {"unreachable", "portTaken", "other"},
           RequestFails(c, cause)
    PROVE  OneRequest(c)
<1>1. /\ Asking(c) /\ FailsBy(c, cause) /\ Fault /\ UNCHANGED engineVars /\ got' = got
      /\ cause = "portTaken" => call[c] \in {"create", "start"}
  BY DEF RequestFails, Asking
<1>2. Plausible(call[c], cause) BY <1>1 DEF Plausible, Causes
<1>3. call[c] \in Lists \union Ensures => Allowed(c, cause) BY <1>1 DEF Lists, Ensures, Allowed, Harmless
<1> QED BY <1>1, <1>2, <1>3, EngineSame, FaultCounts, FailIsRequest

LEMMA RequestIs ==
    ASSUME AdapterTypeOK, NEW c \in Clients, Request(c)
    PROVE  OneRequest(c)
<1>1. CASE EnsureNetwork(c)
  BY <1>1, EnsureRequest DEF EnsureNetwork, Ensures, Thing
<1>2. CASE EnsureVolume(c)
  BY <1>2, EnsureRequest DEF EnsureVolume, Ensures, Thing
<1> QED BY <1>1, <1>2, AskIsRequest, BoxRequest, CreateRequest, AbsentRequest, LogsRequest, PullRequest,
           ListRequest, InspectListedRequest, SweepBoxRequest, SweepThings, SweepRefusedRequest, FailingRequest
        DEF Request

-----------------------------------------------------------------------------
(* A call begins or returns, and what happens meanwhile. *)

(* A call begins or returns: the engine stands still, only c moves. *)
Alone(c) ==
    /\ UNCHANGED engineVars /\ UNCHANGED faults
    /\ call' \in [Clients -> Operations \union {"idle"}]
    /\ name' \in [Clients -> Names \union {NotGiven}]
    /\ stage' \in [Clients -> Stages]
    /\ todo' \in [Clients -> SUBSET Ids]
    /\ got' \in [Clients -> SUBSET Seen]
    /\ result' \in [Clients -> [error : Errors, cause : Causes]]
    /\ met' \in [Clients -> SUBSET Ids]
    /\ during' \in [Clients -> SUBSET Seen]
    /\ \A d \in Clients \ {c} : Unmoved(d) /\ during'[d] = during[d]
    /\ result'[c] = NoResult /\ stage'[c] \in {"idle", "request"} /\ todo'[c] = {} /\ got'[c] = {}
    /\ met'[c] \subseteq Made
    /\ call'[c] = "removeLabelled" => Alive(boxes)' \subseteq Stood(c)'

LEMMA AloneKeeps ==
    ASSUME AInv, NEW c \in Clients, Alone(c)
    PROVE  AInv'
<1>t. AdapterTypeOK BY DEF AInv
<1>1. boxes' = boxes /\ pulled' = pulled /\ things' = things /\ faults' = faults
  BY DEF Alone, engineVars
<1>2. BoxesKeep BY <1>t, <1>1, SameBoxesKeep
<1>3. Answered(c)'
  BY DEF Alone, Answered, Done, RightClass, NoResult, Harmless
<1>4. Visiting(c)'
  <2>1. Made' = Made BY <1>1 DEF Made
  <2>2. ~Swept(c)' /\ ~Done(c, {"list"})' /\ stage'[c] # "each" BY DEF Alone, Swept, Done
  <2> QED BY <2>1, <2>2 DEF Alone, Visiting, Sends
<1>5. ASSUME NEW d \in Clients PROVE Answered(d)' /\ Visiting(d)'
  <2>1. CASE d = c BY <2>1, <1>3, <1>4
  <2>2. CASE d # c BY <2>2, <1>t, <1>1, <1>2, UnmovedKeeps DEF Alone, AInv
  <2> QED BY <2>1, <2>2
<1>6. \A d \in Clients : stage'[d] = "idle" => todo'[d] = {} BY <1>5 DEF Visiting
<1>7. AdapterTypeOK' BY <1>t, <1>1, <1>2, <1>6 DEF Alone, BoxesKeep, AdapterTypeOK
<1> QED BY <1>5, <1>7 DEF AInv

LEMMA NoResultType == NoResult \in [error : Errors, cause : Causes]
BY DEF NoResult, Errors, Causes

LEMMA CallKeeps ==
    ASSUME AInv, NEW c \in Clients, NEW kind \in Kinds[c], NEW n \in Names \union {NotGiven}, Call(c, kind, n)
    PROVE  AInv'
<1>t. AdapterTypeOK /\ Answered(c) /\ Visiting(c) BY DEF AInv
<1> DEFINE found == IF kind \in Lists THEN Alive(boxes) ELSE {}
           known == Facts(kind, boxes, pulled, things)
<1>1. /\ stage[c] = "idle" /\ UNCHANGED <<engineVars, todo, got, result, faults>>
      /\ stage' = [stage EXCEPT ![c] = "request"]
      /\ call' = [call EXCEPT ![c] = kind]
      /\ name' = [name EXCEPT ![c] = n]
      /\ met' = [met EXCEPT ![c] = found]
      /\ during' = [during EXCEPT ![c] = known]
  BY DEF Call
<1>2. kind \in Operations BY AdapterAssumption
<1>3. found \in SUBSET Ids /\ found \subseteq Made BY DEF Alive, Made
<1>4. known \in SUBSET Seen BY <1>t, FactsType DEF AdapterTypeOK
<1>5. result[c] = NoResult /\ todo[c] = {} /\ got[c] = {} BY <1>1, <1>t DEF Answered, Visiting
<1>s. kind = "removeLabelled" => \A id \in Alive(boxes) : id \in {entry[1] : entry \in known}
  <2>1. ASSUME kind = "removeLabelled", NEW id \in Alive(boxes)
        PROVE  \E entry \in known : id = entry[1]
    <3>1. <<id, MapState(boxes[id].state)>> \in known BY <2>1, FactsOfSweep
    <3> QED BY <3>1
  <2> QED BY <2>1
<1> HIDE DEF found, known
<1>6. call' \in [Clients -> Operations \union {"idle"}] /\ name' \in [Clients -> Names \union {NotGiven}]
  BY <1>t, <1>1, <1>2 DEF AdapterTypeOK
<1>7. stage' \in [Clients -> Stages] BY <1>t, <1>1 DEF AdapterTypeOK, Stages
<1>8. met' \in [Clients -> SUBSET Ids] /\ during' \in [Clients -> SUBSET Seen]
  BY <1>t, <1>1, <1>3, <1>4 DEF AdapterTypeOK
<1>9. \A d \in Clients \ {c} : Unmoved(d) /\ during'[d] = during[d]
  BY <1>t, <1>1 DEF AdapterTypeOK, Unmoved
<1>10. /\ result'[c] = NoResult /\ stage'[c] = "request" /\ todo'[c] = {} /\ got'[c] = {}
       /\ met'[c] \subseteq Made
  BY <1>t, <1>1, <1>3, <1>5 DEF AdapterTypeOK
<1>n. call'[c] = "removeLabelled" => Alive(boxes)' \subseteq Stood(c)'
  <2>1. call'[c] = kind /\ during'[c] = known BY <1>t, <1>1 DEF AdapterTypeOK, known
  <2>2. Alive(boxes)' = Alive(boxes) BY <1>1 DEF Alive, engineVars
  <2> QED BY <2>1, <2>2, <1>s DEF Stood
<1>11. Alone(c) BY <1>t, <1>1, <1>6, <1>7, <1>8, <1>9, <1>10, <1>n DEF Alone, AdapterTypeOK
<1> QED BY <1>11, AloneKeeps

LEMMA ReturnKeeps ==
    ASSUME AInv, NEW c \in Clients, Return(c)
    PROVE  AInv'
<1>t. AdapterTypeOK /\ Visiting(c) BY DEF AInv
<1>1. /\ stage[c] = "done" /\ UNCHANGED <<engineVars, todo, faults>>
      /\ stage' = [stage EXCEPT ![c] = "idle"]
      /\ call' = [call EXCEPT ![c] = "idle"]
      /\ name' = [name EXCEPT ![c] = NotGiven]
      /\ got' = [got EXCEPT ![c] = {}]
      /\ result' = [result EXCEPT ![c] = NoResult]
      /\ met' = [met EXCEPT ![c] = {}]
      /\ during' = [during EXCEPT ![c] = {}]
  BY DEF Return
<1>2. call' \in [Clients -> Operations \union {"idle"}] /\ name' \in [Clients -> Names \union {NotGiven}]
  BY <1>t, <1>1 DEF AdapterTypeOK
<1>3. stage' \in [Clients -> Stages] BY <1>t, <1>1 DEF AdapterTypeOK, Stages
<1>4. got' \in [Clients -> SUBSET Seen] /\ met' \in [Clients -> SUBSET Ids] /\ during' \in [Clients -> SUBSET Seen]
  BY <1>t, <1>1 DEF AdapterTypeOK
<1>5. result' \in [Clients -> [error : Errors, cause : Causes]]
  BY <1>t, <1>1, NoResultType DEF AdapterTypeOK
<1>6. \A d \in Clients \ {c} : Unmoved(d) /\ during'[d] = during[d]
  BY <1>t, <1>1 DEF AdapterTypeOK, Unmoved
<1>7. /\ result'[c] = NoResult /\ stage'[c] = "idle" /\ todo'[c] = {} /\ got'[c] = {}
      /\ met'[c] \subseteq Made
  BY <1>t, <1>1 DEF AdapterTypeOK, Visiting
<1>n. call'[c] # "removeLabelled" BY <1>t, <1>1 DEF AdapterTypeOK
<1>8. Alone(c) BY <1>t, <1>1, <1>2, <1>3, <1>4, <1>5, <1>6, <1>7, <1>n DEF Alone, AdapterTypeOK
<1> QED BY <1>8, AloneKeeps

(* Others, and the engine itself, do to containers what a client may do.   *)
LEMMA MeanwhileIs ==
    ASSUME AdapterTypeOK, Meanwhile
    PROVE  EngineKeeps
<1>1. ASSUME NEW id \in Alive(boxes), Turns(id) PROVE EngineKeeps
  <2>1. PICK state \in {"running", "restarting", "exited"} :
            boxes' = [boxes EXCEPT ![id].state = state]
    BY <1>1 DEF Turns
  <2>2. boxes' = [boxes EXCEPT ![id] = Became(boxes[id], state)] /\ state \in BoxStates \ {"none"}
    BY <2>1 DEF Became, BoxStates
  <2>3. BoxesKeep BY <2>2, BecameKeeps
  <2> QED BY <1>1, <2>3 DEF Turns, EngineKeeps, AdapterTypeOK
<1>2. ASSUME NEW id \in Alive(boxes), Removes(id) PROVE EngineKeeps
  <2>1. boxes' = [boxes EXCEPT ![id] = Became(boxes[id], "gone")] BY <1>2 DEF Removes
  <2>2. BoxesKeep BY <2>1, BecameKeeps DEF BoxStates
  <2> QED BY <1>2, <2>2 DEF Removes, EngineKeeps, AdapterTypeOK
<1>3. ASSUME NEW n \in Names, Creates(n) PROVE EngineKeeps
  BY <1>3, NewBoxKeeps DEF Creates, EngineKeeps, AdapterTypeOK
<1>4. CASE ThingsChange
  BY <1>4, SameBoxesKeep DEF ThingsChange, EngineKeeps, AdapterTypeOK
<1> QED BY <1>1, <1>2, <1>3, <1>4 DEF Meanwhile

LEMMA MeanwhileKeeps ==
    ASSUME AInv, Meanwhile, Watched
    PROVE  AInv'
<1>t. AdapterTypeOK BY DEF AInv
<1>1. EngineKeeps BY <1>t, MeanwhileIs
<1>2. UNCHANGED <<call, name, stage, todo, got, result, met, faults>> BY DEF Meanwhile, callVars
<1>w. /\ during' \in [Clients -> SUBSET Seen]
      /\ \A d \in Clients : during[d] \subseteq during'[d]
      /\ \A d \in Clients : stage[d] \notin {"idle", "done"} => FactsNow(d) \subseteq during'[d]
  BY <1>t, <1>1, WatchedDuring DEF EngineKeeps
<1>3. ASSUME NEW d \in Clients PROVE Answered(d)' /\ Visiting(d)'
  <2>1. Unmoved(d) BY <1>2 DEF Unmoved
  <2> QED BY <2>1, <1>t, <1>1, <1>w, UnmovedKeeps DEF EngineKeeps, AInv
<1>4. AdapterTypeOK' BY <1>t, <1>1, <1>2, <1>w DEF EngineKeeps, BoxesKeep, AdapterTypeOK
<1> QED BY <1>3, <1>4 DEF AInv

LEMMA InitAInv == AdapterInit => AInv
<1> SUFFICES ASSUME AdapterInit PROVE AInv
  OBVIOUS
<1> USE DEF AdapterInit
<1>1. Alive(boxes) = {} BY DEF Alive, NoBox
<1>2. boxes \in [Ids -> [name : Names \union {NotGiven}, state : BoxStates]] BY DEF NoBox, BoxStates
<1>3. result \in [Clients -> [error : Errors, cause : Causes]] BY NoResultType
<1>4. call \in [Clients -> Operations \union {"idle"}] /\ name \in [Clients -> Names \union {NotGiven}]
  OBVIOUS
<1>5. stage \in [Clients -> Stages] BY DEF Stages
<1>6. /\ todo \in [Clients -> SUBSET Ids] /\ met \in [Clients -> SUBSET Ids]
      /\ got \in [Clients -> SUBSET Seen] /\ during \in [Clients -> SUBSET Seen]
  OBVIOUS
<1>7. faults \in 0..MaxFaults
  <2>1. MaxFaults \in Nat BY AdapterAssumption
  <2>2. faults = 0 OBVIOUS
  <2> QED BY <2>1, <2>2
<1>8. pulled \in BOOLEAN /\ things \subseteq {"network", "volume"} OBVIOUS
<1>9. \A c \in Clients : stage[c] = "idle" => todo[c] = {} OBVIOUS
<1>10. AdapterTypeOK
  BY <1>1, <1>2, <1>3, <1>4, <1>5, <1>6, <1>7, <1>9, <1>8 DEF AdapterTypeOK
<1>11. ASSUME NEW c \in Clients PROVE Answered(c) /\ Visiting(c)
  <2>1. Answered(c) BY DEF Answered, Done, RightClass, NoResult, Harmless
  <2>2. Visiting(c) BY DEF Visiting, Sends, Swept, Done, Made
  <2> QED BY <2>1, <2>2
<1> QED BY <1>10, <1>11 DEF AInv

LEMMA StepAInv == AInv /\ [AdapterNext]_adapterVars => AInv'
<1> SUFFICES ASSUME AInv, [AdapterNext]_adapterVars PROVE AInv'
  OBVIOUS
<1>t. AdapterTypeOK BY DEF AInv
<1>1. ASSUME NEW c \in Clients, Request(c), Watched PROVE AInv'
  BY <1>1, <1>t, RequestIs, OneRequestKeeps
<1>2. CASE UNCHANGED adapterVars
  <2>1. UNCHANGED <<boxes, pulled, things, call, name, stage, todo, got, result, met, during, faults>>
    BY <1>2 DEF adapterVars
  <2>2. AdapterTypeOK' BY <2>1, <1>t DEF AdapterTypeOK, Alive
  <2>3. ASSUME NEW d \in Clients PROVE Answered(d)' /\ Visiting(d)'
    <3>1. Unmoved(d) /\ BoxesKeep /\ during[d] \subseteq during'[d]
      BY <2>1, <1>t, SameBoxesKeep DEF Unmoved
    <3> QED BY <2>1, <3>1, <1>t, UnmovedKeeps DEF AInv
  <2> QED BY <2>2, <2>3 DEF AInv
<1> QED BY <1>1, <1>2, CallKeeps, ReturnKeeps, MeanwhileKeeps DEF AdapterNext

-----------------------------------------------------------------------------
(* What each call has been answered, and what a list or a sweep has still  *)
(* to visit, fit what the engine holds, whatever other clients do to it.   *)
THEOREM AdapterInvariant == AdapterSpec => []AInv
BY InitAInv, StepAInv, PTL DEF AdapterSpec

(* Every variable keeps its type, and no two containers that stand have    *)
(* one name, whoever creates them.                                         *)
THEOREM AdapterTypeCorrect == AdapterSpec => []AdapterTypeOK
<1>1. AInv => AdapterTypeOK BY DEF AInv
<1> QED BY <1>1, AdapterInvariant, PTL

(* Whichever engine answers, the caller gets the error that names what is  *)
(* wrong and no such name for anything else.                               *)
THEOREM RightErrorAlways == AdapterSpec => []RightError
<1>1. AInv => RightError BY DEF AInv, Answered, RightClass, RightError
<1> QED BY <1>1, AdapterInvariant, PTL

(* A list taken while containers come and go holds every container that    *)
(* stood all the while, and nothing that was never the case meanwhile.     *)
THEOREM ListSandwichAlways == AdapterSpec => []ListSandwich
<1>1. AInv => ListSandwich BY DEF AInv, Visiting, Visited, ListSandwich
<1> QED BY <1>1, AdapterInvariant, PTL

(* That somebody else was faster never fails a list, an ensure or a sweep; *)
(* a sweep that meets something in use meets a container made meanwhile.   *)
THEOREM RacesAreNoErrorsAlways == AdapterSpec => []RacesAreNoErrors
<1>1. AInv => RacesAreNoErrors BY DEF AInv, Answered, Harmless, RacesAreNoErrors
<1> QED BY <1>1, AdapterInvariant, PTL

(* A call that returns without error has had its effect.                   *)
THEOREM OkMeansDoneAlways == AdapterSpec => []OkMeansDone
<1>1. AInv => OkMeansDone
  <2> SUFFICES ASSUME AInv, NEW c \in Clients
               PROVE  /\ Done(c, Ensures \union {"pull"}) => during[c] # {}
                      /\ Done(c, {"removeLabelled"}) => met[c] \intersect Alive(boxes) = {}
    BY DEF OkMeansDone
  <2>1. Answered(c) /\ Visiting(c) BY DEF AInv
  <2>2. Done(c, {"removeLabelled"}) => call[c] = "removeLabelled" /\ Swept(c) BY DEF Done, Swept
  <2> QED BY <2>1, <2>2 DEF Answered, Visiting
<1> QED BY <1>1, AdapterInvariant, PTL

(* Every read of a container's log, with and without a TTY, returns what   *)
(* was asked for: ReadsRight, of both kinds of containers.                 *)
THEOREM LogsFaithfulAlways ==
    ASSUME ~WideChars
    PROVE  AdapterSpec => []LogsFaithful
<1>1. TtyReadRight /\ FramesReadRight BY ReadsRight DEF TtyReadRight, FramesReadRight
<1>2. LogsFaithful BY <1>1 DEF LogsFaithful
<1> QED BY <1>2, PTL
=============================================================================
