-------------------------- MODULE ReconcileProofs --------------------------
(***************************************************************************)
(* Proofs about Reconcile, for every set of processes, janitors, apps and  *)
(* options, every number of deployments and every set of faults.           *)
(***************************************************************************)
EXTENDS Reconcile, DeployEngineProofs

(***************************************************************************)
(* The invariant.  What DeployEngine keeps is kept beside reconciles       *)
(* (IInv), and a row belongs to an app that exists (Owned).  What a plan   *)
(* has found broken has been a row, and once it has been marked it is      *)
(* closed or known to be unmarked, whoever disturbs (Broken).  A janitor that nobody         *)
(* disturbs knows more, phase by phase (Calm): that what it has listed and *)
(* sorted is still so.                                                     *)
(***************************************************************************)
Owned == \A d \in Ids : status[d] \in Statuses => owner[d] \in apps

Bad(j) == plan[j].lost \union plan[j].stuck

Broken(j) ==
    /\ rpc[j] = "idle" => plan[j] = NoPlan
    /\ rpc[j] \in {"list", "states"} => Bad(j) = {} /\ plan[j].kept = {}
    /\ \A d \in Bad(j) : status[d] # "none"
    /\ rpc[j] = "mark" =>
          \A d \in Bad(j) \ plan[j].todo : status[d] \in Closed \/ d \in plan[j].unmarked
    /\ rpc[j] \in {"prune", "redeploy"} =>
          \A d \in Bad(j) : status[d] \in Closed \/ d \in plan[j].unmarked

(* What the listing of a janitor says, while it is made and after. *)
Listing(j) ==
    LET p == plan[j]
    IN  \A d \in Ids :
            /\ ctr[d] # "absent" <=> d \in p.names \union p.todo
            /\ d \in p.up => Up(d)
            /\ Up(d) => d \in p.up \union p.todo

Listed2(j) ==
    \A d \in Ids : /\ ctr[d] # "absent" <=> d \in plan[j].names
                   /\ Up(d) <=> d \in plan[j].up

(* How it has sorted the open rows of the apps it has scanned. *)
SortedRows(j) ==
    LET p == plan[j]
    IN  \A d \in Ids :
            /\ Open(d) /\ owner[d] \notin p.left =>
                  Lost(d, p.up) \/ Stuck(d) \/ (recorded[d] => d \in p.kept)
            /\ Open(d) /\ owner[d] \notin p.left =>
                  (Lost(d, p.up) \/ Stuck(d) => d \in Bad(j))
            /\ d \in Bad(j) => Lost(d, p.up) \/ Stuck(d)
            /\ d \in p.kept => Kept(d, p.up)

(* What is left to mark, and how the other open rows are. *)
Marking(j) ==
    LET p == plan[j]
    IN  /\ p.todo \subseteq Bad(j)
        /\ \A d \in Ids :
              /\ d \in p.todo => Lost(d, p.up) \/ Stuck(d)
              /\ Open(d) /\ d \notin p.todo =>
                    ~Lost(d, p.up) /\ ~Stuck(d) /\ (recorded[d] => d \in p.kept)
              /\ d \in p.kept => Kept(d, p.up)

(* What is left to prune, and that the rows are well. *)
Pruning(j) ==
    LET p == plan[j]
    IN  \A d \in Ids :
            /\ status[d] = "running" => Up(d)
            /\ d \in stale => status[d] \notin InProgress
            /\ recorded[d] /\ Open(d) => d \in p.kept
            /\ d \in p.kept => Open(d)
            /\ d \in p.todo => d \notin p.kept
            /\ "prune" \in p.options /\ ctr[d] # "absent" => d \in p.kept \union p.todo

Mended(j) ==
    /\ \A d \in Ids : status[d] = "running" => Up(d)
    /\ \A d \in stale : status[d] \notin InProgress
    /\ "prune" \in plan[j].options => \A d \in Ids : ctr[d] # "absent" => Open(d)

Calm(j) ==
    j \in calm =>
        /\ rpc[j] = "list" => plan[j].names = {} /\ plan[j].up = {}
        /\ rpc[j] = "states" => Listing(j)
        /\ rpc[j] = "scan" => Listed2(j) /\ plan[j].left \subseteq apps /\ SortedRows(j)
        /\ rpc[j] = "mark" => Listed2(j) /\ Marking(j)
        /\ rpc[j] = "prune" => Pruning(j)
        /\ rpc[j] = "redeploy" => Mended(j)

RInv ==
    /\ ReconcileTypeOK
    /\ IInv
    /\ Owned
    /\ \A j \in Janitors : Broken(j) /\ Calm(j)

USE DEF Ids

-----------------------------------------------------------------------------
(* The records beside reconciles. *)

(* Marking a row and pruning a container are the only steps of a reconcile *)
(* that are not steps of DeployEngine; the rest of it is reading.          *)
LEMMA UserIsEngine == UserNext => Next
<1> SUFFICES ASSUME UserNext PROVE Next OBVIOUS
<1>1. CASE \E a \in AppNames : CreateApp(a) \/ DeleteApp(a)
  BY <1>1 DEF Next
<1>2. CASE \E p \in Procs \ Janitors, a \in AppNames : DeployBegin(p, a) \/ StopBegin(p, a)
  BY <1>2 DEF Next
<1>3. CASE \E p \in Procs : EngineStep(p) \/ Misbehave(p)
  BY <1>3 DEF Next, EngineStep
<1>4. CASE \E p \in Procs \ Janitors : Crash(p)
  BY <1>4 DEF Next
<1>5. CASE \E d \in Ids : OutOfBand(d)
  BY <1>5 DEF Next
<1> QED BY <1>1, <1>2, <1>3, <1>4, <1>5 DEF UserNext

(* A reconcile that only reads and decides. *)
Thinks(j) ==
    /\ \/ \E options \in Options : ReconcileBegin(j, options)
       \/ ListNames(j) \/ Listed(j) \/ Planned(j) \/ Marked(j) \/ Pruned(j)
       \/ Done(j) \/ Abort(j)
       \/ \E a \in AppNames : ScanApp(j, a) \/ ScanFails(j, a) \/ Skip(j, a) \/ RedeployFails(j, a)
       \/ \E d \in Ids : Inspect(j, d)

LEMMA ThinkingIsQuiet ==
    ASSUME NEW j \in Janitors, Thinks(j)
    PROVE  UNCHANGED <<vars, stale, ran>>
BY DEF Thinks, ReconcileBegin, ListNames, Listed, Planned, Marked, Pruned, Done, Abort, ScanApp,
       ScanFails, Skip, RedeployFails, Inspect, ReadOnly, Finish

LEMMA JanitorSteps ==
    ASSUME NEW j \in Janitors, JanitorNext(j)
    PROVE  \/ Thinks(j)
           \/ CrashRedeploy(j)
           \/ \E a \in AppNames : Redeploy(j, a)
           \/ \E d \in Ids : Mark(j, d) \/ Prune(j, d)
BY DEF JanitorNext, Thinks

(* Closed rows stay closed, and a row that was made stays made. *)
Onward ==
    \A d \in Ids : /\ status[d] # "none" => status'[d] # "none"
                   /\ status[d] \in Closed => status'[d] \in Closed

LEMMA EngineKeeps ==
    ASSUME IInv, [Next]_vars
    PROVE  IInv' /\ Onward
<1>1. IInv' BY NextIInv
<1>2. ASSUME NEW d \in Ids, status'[d] # status[d]
      PROVE  status'[d] # "none" /\ (status[d] \in Closed => status'[d] \in Closed)
  BY <1>2, NextStatus DEF Closed, Final, InProgress
<1> QED BY <1>1, <1>2 DEF Onward

(* What marking a row does. *)
LEMMA MarkDoes ==
    ASSUME TypeOK, NEW j \in Janitors, NEW d \in Ids, Mark(j, d)
    PROVE  /\ UNCHANGED <<apps, owner, recorded, seq, ctr, pc, work, todo, wants>>
           /\ \A e \in Ids \ {d} : status'[e] = status[e]
           /\ status'[d] = status[d] \/ (Open(d) /\ status'[d] = "failed")
           /\ j \in calm' /\ Open(d) => status'[d] = "failed"
           /\ TypeOK'
<1>1. UNCHANGED <<apps, owner, recorded, seq, ctr, pc, work, todo, wants>>
  BY DEF Mark, procVars
<1>2. FailRow(d) \/ status' = status BY DEF Mark
<1>3. /\ \A e \in Ids \ {d} : status'[e] = status[e]
      /\ status'[d] = status[d] \/ (Open(d) /\ status'[d] = "failed")
      /\ status' \in [Ids -> Statuses \union {"none", "deleted"}]
  BY <1>2 DEF FailRow, TypeOK, Statuses, Final
<1>4. j \in calm' => FailRow(d) BY DEF Mark
<1>5. j \in calm' /\ Open(d) => status'[d] = "failed" BY <1>4 DEF FailRow, TypeOK
<1> QED BY <1>1, <1>3, <1>5 DEF TypeOK

(* What becomes of the plan: the outcome of a row it leaves open is known. *)
LEMMA MarkPlan ==
    ASSUME ReconcileTypeOK, NEW j \in Janitors, NEW d \in Ids, Mark(j, d)
    PROVE  /\ rpc' = rpc /\ rpc[j] = "mark" /\ d \in plan[j].todo
           /\ \A i \in Janitors \ {j} : plan'[i] = plan[i]
           /\ plan'[j].todo = plan[j].todo \ {d}
           /\ plan[j].unmarked \subseteq plan'[j].unmarked
           /\ plan'[j].lost = plan[j].lost /\ plan'[j].stuck = plan[j].stuck
           /\ plan'[j].names = plan[j].names /\ plan'[j].up = plan[j].up
           /\ plan'[j].kept = plan[j].kept /\ plan'[j].options = plan[j].options
           /\ plan'[j].left = plan[j].left
           /\ status'[d] = "failed" \/ d \in plan'[j].unmarked
           /\ plan' \in [Janitors -> Plans]
<1>t. /\ plan \in [Janitors -> Plans] /\ plan[j] \in Plans /\ TypeOK
  BY DEF ReconcileTypeOK
<1> PICK U : /\ U = plan[j].unmarked \/ U = plan[j].unmarked \union {d}
             /\ plan' = [plan EXCEPT ![j] = [plan[j] EXCEPT !.todo = @ \ {d}, !.unmarked = U]]
             /\ status'[d] = "failed" \/ d \in U
  <2>1. CASE /\ plan' = [plan EXCEPT ![j].todo = @ \ {d},
                                     ![j].unmarked = IF Open(d) THEN @ ELSE @ \union {d}]
             /\ FailRow(d)
    <3>1. CASE Open(d) BY <2>1, <3>1, <1>t DEF FailRow, TypeOK
    <3>2. CASE ~Open(d) BY <2>1, <3>2, <1>t
    <3> QED BY <3>1, <3>2
  <2>2. CASE plan' = [plan EXCEPT ![j].todo = @ \ {d}, ![j].unmarked = @ \union {d}]
    BY <2>2, <1>t
  <2> QED BY <2>1, <2>2 DEF Mark
<1>1. [plan[j] EXCEPT !.todo = @ \ {d}, !.unmarked = U] \in Plans BY <1>t DEF Plans
<1>2. plan'[j] = [plan[j] EXCEPT !.todo = @ \ {d}, !.unmarked = U] BY <1>t
<1>3. /\ plan'[j].todo = plan[j].todo \ {d} /\ plan'[j].unmarked = U
      /\ plan'[j].lost = plan[j].lost /\ plan'[j].stuck = plan[j].stuck
      /\ plan'[j].names = plan[j].names /\ plan'[j].up = plan[j].up
      /\ plan'[j].kept = plan[j].kept /\ plan'[j].options = plan[j].options
      /\ plan'[j].left = plan[j].left
  BY <1>2, <1>t DEF Plans
<1>4. plan' \in [Janitors -> Plans] /\ \A i \in Janitors \ {j} : plan'[i] = plan[i]
  BY <1>1, <1>t
<1>5. rpc' = rpc /\ rpc[j] = "mark" /\ d \in plan[j].todo BY DEF Mark
<1> QED BY <1>3, <1>4, <1>5

LEMMA MarkKeeps ==
    ASSUME IInv, NEW j \in Janitors, NEW d \in Ids, Mark(j, d)
    PROVE  IInv' /\ Onward
<1>1. TypeOK BY DEF IInv
<1>2. \A e \in Ids : status'[e] = status[e] \/ (status[e] # "none" /\ status'[e] \in Closed)
  BY <1>1, MarkDoes DEF Open, InProgress, Closed, Final
<1>3. IInv' BY <1>1, <1>2, MarkDoes, ClosingKeeps
<1> QED BY <1>2, <1>3 DEF Onward, Closed, Final

LEMMA PruneKeeps ==
    ASSUME IInv, NEW j \in Janitors, NEW d \in Ids, Prune(j, d)
    PROVE  IInv' /\ Onward
<1>1. UNCHANGED <<apps, owner, status, recorded, seq, pc, work, todo, wants>>
  BY DEF Prune, rows, procVars
<1>2. ctr' \in [Ids -> CtrStates]
  BY DEF Prune, SetContainer, IInv, TypeOK, CtrStates
<1>3. TypeOK' BY <1>1, <1>2 DEF IInv, TypeOK
<1> QED BY <1>1, <1>3, SameRowsKeeps DEF Onward

LEMMA JanitorKeeps ==
    ASSUME IInv, NEW j \in Janitors, JanitorNext(j)
    PROVE  IInv' /\ Onward
<1>1. CASE Thinks(j)
  <2>1. UNCHANGED vars BY <1>1, ThinkingIsQuiet
  <2> QED BY <2>1, EngineKeeps
<1>2. CASE CrashRedeploy(j)
  BY <1>2, ReconcileAssumption, EngineKeeps DEF CrashRedeploy, Next
<1>3. CASE \E a \in AppNames : Redeploy(j, a)
  BY <1>3, ReconcileAssumption, EngineKeeps DEF Redeploy, Next
<1>4. CASE \E d \in Ids : Mark(j, d) \/ Prune(j, d)
  BY <1>4, MarkKeeps, PruneKeeps
<1> QED BY <1>1, <1>2, <1>3, <1>4, JanitorSteps

LEMMA RecordsKeep == IInv /\ [ReconcileNext]_allVars => IInv' /\ Onward
<1> SUFFICES ASSUME IInv, [ReconcileNext]_allVars PROVE IInv' /\ Onward OBVIOUS
<1>1. CASE UserNext /\ Elsewhere BY <1>1, UserIsEngine, EngineKeeps
<1>2. CASE \E d \in Ids : Age(d)
  <2>1. UNCHANGED vars BY <1>2 DEF Age
  <2> QED BY <2>1, EngineKeeps
<1>3. CASE \E j \in Janitors : JanitorNext(j) BY <1>3, JanitorKeeps
<1>4. CASE UNCHANGED allVars
  <2>1. UNCHANGED vars BY <1>4 DEF allVars
  <2> QED BY <2>1, EngineKeeps
<1> QED BY <1>1, <1>2, <1>3, <1>4 DEF ReconcileNext
-----------------------------------------------------------------------------
(* Type correctness. *)

JanitorType ==
    /\ stale \subseteq Ids
    /\ ran \subseteq Ids
    /\ rpc \in [Janitors -> Phases]
    /\ plan \in [Janitors -> Plans]
    /\ calm \subseteq Janitors

LEMMA NoPlanType == NoPlan \in Plans
BY DEF NoPlan, Plans

LEMMA InitReconcileType == ReconcileInit => ReconcileTypeOK
<1> SUFFICES ASSUME ReconcileInit PROVE ReconcileTypeOK OBVIOUS
<1>1. TypeOK BY InitType DEF ReconcileInit
<1>2. plan \in [Janitors -> Plans] BY NoPlanType DEF ReconcileInit
<1>3. rpc \in [Janitors -> Phases] BY DEF ReconcileInit, Phases
<1> QED BY <1>1, <1>2, <1>3 DEF ReconcileInit, ReconcileTypeOK

LEMMA FinishType ==
    ASSUME JanitorType, NEW j \in Janitors, Finish(j)
    PROVE  JanitorType'
BY NoPlanType DEF JanitorType, Finish, Phases

(* A plan that is changed stays one. *)
LEMMA PlanType ==
    ASSUME plan \in [Janitors -> Plans], NEW j \in Janitors, NEW p \in Plans,
           plan' = [plan EXCEPT ![j] = p]
    PROVE  plan' \in [Janitors -> Plans]
OBVIOUS

LEMMA ThinkType ==
    ASSUME ReconcileTypeOK, NEW j \in Janitors, Thinks(j)
    PROVE  JanitorType'
<1> DEFINE p == plan[j]
<1>t. /\ JanitorType /\ p \in Plans /\ apps \subseteq AppNames
      /\ plan \in [Janitors -> Plans] /\ rpc \in [Janitors -> Phases]
  BY DEF ReconcileTypeOK, JanitorType, TypeOK
<1>r. ASSUME NEW phase \in Phases, ReadOnly(j, phase), plan' \in [Janitors -> Plans]
      PROVE  JanitorType'
  BY <1>r, <1>t DEF JanitorType, ReadOnly, Enter
<1>a. ASSUME NEW S \in SUBSET Ids, plan' = [plan EXCEPT ![j].todo = S]
      PROVE  plan' \in [Janitors -> Plans]
  <2>1. [p EXCEPT !.todo = S] \in Plans BY <1>t DEF Plans
  <2> QED BY <2>1, <1>a, <1>t
<1>b. ASSUME NEW S \in SUBSET AppNames, plan' = [plan EXCEPT ![j].left = S]
      PROVE  plan' \in [Janitors -> Plans]
  <2>1. [p EXCEPT !.left = S] \in Plans BY <1>t DEF Plans
  <2> QED BY <2>1, <1>b, <1>t
<1>p. /\ p.todo \subseteq Ids /\ p.names \subseteq Ids /\ p.up \subseteq Ids /\ p.kept \subseteq Ids
      /\ p.lost \subseteq Ids /\ p.stuck \subseteq Ids /\ p.unmarked \subseteq Ids
      /\ p.left \subseteq AppNames
  BY <1>t DEF Plans
<1>f. CASE Finish(j) BY <1>f, <1>t, FinishType
<1>1. ASSUME NEW options \in Options, ReconcileBegin(j, options) PROVE JanitorType'
  <2>1. [p EXCEPT !.options = options] \in Plans BY <1>t, ReconcileAssumption DEF Plans
  <2>2. plan' \in [Janitors -> Plans] BY <2>1, <1>1, <1>t DEF ReconcileBegin
  <2> QED BY <1>1, <2>2, <1>t DEF ReconcileBegin, Enter, JanitorType, Phases
<1>2. CASE ListNames(j)
  <2>1. {d \in Ids : ctr[d] # "absent"} \in SUBSET Ids OBVIOUS
  <2> QED BY <2>1, <1>2, <1>a, <1>r DEF ListNames, Phases
<1>3. CASE Listed(j) BY <1>3, <1>t, <1>b, <1>r DEF Listed, Phases
<1>4. CASE Planned(j)
  <2>1. p.lost \union p.stuck \in SUBSET Ids BY <1>p
  <2> QED BY <2>1, <1>4, <1>a, <1>r DEF Planned, Phases
<1>5. CASE Marked(j)
  <2>1. (IF "prune" \in p.options THEN Orphans(j) ELSE {}) \in SUBSET Ids BY <1>p DEF Orphans
  <2> QED BY <2>1, <1>5, <1>a, <1>r DEF Marked, Phases
<1>6. CASE Pruned(j)
  <2> DEFINE L == IF "redeploy" \in p.options THEN apps ELSE {}
  <2>1. L \subseteq AppNames BY <1>t
  <2>2. plan' = [plan EXCEPT ![j] = [p EXCEPT !.left = L, !.names = {}, !.up = {}, !.kept = {}]]
    BY <1>6, <1>t DEF Pruned
  <2> HIDE DEF L
  <2>3. [p EXCEPT !.left = L, !.names = {}, !.up = {}, !.kept = {}] \in Plans
    BY <2>1, <1>t DEF Plans
  <2>4. plan' \in [Janitors -> Plans] BY <2>2, <2>3, <1>t
  <2> QED BY <1>6, <2>4, <1>r DEF Pruned, Phases
<1>7. CASE Done(j) \/ Abort(j) BY <1>7, <1>f DEF Done, Abort
<1>8. ASSUME NEW a \in AppNames, ScanApp(j, a) PROVE JanitorType'
  <2> DEFINE L == p.lost \union {d \in Ids : owner[d] = a /\ Lost(d, p.up)}
             S == p.stuck \union {d \in Ids : owner[d] = a /\ Stuck(d)}
             K == p.kept \union {d \in Ids : owner[d] = a /\ Kept(d, p.up)}
  <2>1. L \subseteq Ids /\ S \subseteq Ids /\ K \subseteq Ids /\ p.left \ {a} \subseteq AppNames BY <1>p
  <2>2. plan' = [plan EXCEPT ![j] = [p EXCEPT !.left = p.left \ {a}, !.lost = L, !.stuck = S, !.kept = K]]
    BY <1>8, <1>t DEF ScanApp
  <2> HIDE DEF L, S, K
  <2>3. [p EXCEPT !.left = p.left \ {a}, !.lost = L, !.stuck = S, !.kept = K] \in Plans
    BY <2>1, <1>t DEF Plans
  <2>4. plan' \in [Janitors -> Plans] BY <2>2, <2>3, <1>t
  <2> QED BY <1>8, <2>4, <1>r DEF ScanApp, Phases
<1>9. ASSUME NEW a \in AppNames, ScanFails(j, a) \/ RedeployFails(j, a) PROVE JanitorType'
  BY <1>9, <1>f DEF ScanFails, RedeployFails
<1>10. ASSUME NEW a \in AppNames, Skip(j, a) PROVE JanitorType'
  <2>1. plan' \in [Janitors -> Plans]
    <3>1. p.left \ {a} \in SUBSET AppNames BY <1>p
    <3> QED BY <3>1, <1>10, <1>b DEF Skip, Due
  <2> QED BY <1>10, <2>1, <1>t DEF Skip, Due, JanitorType
<1>11. ASSUME NEW d \in Ids, Inspect(j, d) PROVE JanitorType'
  <2> DEFINE N == IF ctr[d] = "absent" THEN p.names ELSE p.names \union {d}
             U == IF Up(d) THEN p.up \union {d} ELSE p.up
  <2>1. N \subseteq Ids /\ U \subseteq Ids /\ p.todo \ {d} \subseteq Ids BY <1>p
  <2>2. plan' = [plan EXCEPT ![j] = [p EXCEPT !.todo = p.todo \ {d}, !.names = N, !.up = U]]
    BY <1>11, <1>t DEF Inspect
  <2> HIDE DEF N, U
  <2>3. [p EXCEPT !.todo = p.todo \ {d}, !.names = N, !.up = U] \in Plans BY <2>1, <1>t DEF Plans
  <2>4. plan' \in [Janitors -> Plans] BY <2>2, <2>3, <1>t
  <2> QED BY <1>11, <2>4, <1>r DEF Inspect, Phases
<1> QED BY <1>1, <1>2, <1>3, <1>4, <1>5, <1>6, <1>7, <1>8, <1>9, <1>10, <1>11 DEF Thinks

LEMMA JanitorStepType ==
    ASSUME ReconcileTypeOK, NEW j \in Janitors, JanitorNext(j)
    PROVE  JanitorType'
<1>t. /\ JanitorType /\ plan[j] \in Plans /\ plan \in [Janitors -> Plans]
      /\ ran \subseteq Ids /\ stale \subseteq Ids
  BY DEF ReconcileTypeOK, JanitorType
<1>1. CASE Thinks(j) BY <1>1, ThinkType
<1>2. CASE CrashRedeploy(j)
  BY <1>2, <1>t, NoPlanType DEF CrashRedeploy, JanitorType, Phases
<1>3. ASSUME NEW a \in AppNames, Redeploy(j, a) PROVE JanitorType'
  <2>1. [plan[j] EXCEPT !.left = @ \ {a}] \in Plans BY <1>t DEF Plans
  <2>2. plan' \in [Janitors -> Plans] BY <1>3, <2>1, <1>t DEF Redeploy, Due
  <2> QED BY <1>3, <2>2, <1>t DEF Redeploy, Due, Events, JanitorType
<1>4. ASSUME NEW d \in Ids, Mark(j, d) \/ Prune(j, d) PROVE JanitorType'
  <2>1. [plan[j] EXCEPT !.todo = @ \ {d}] \in Plans BY <1>t DEF Plans
  <2>2. plan' \in [Janitors -> Plans] BY <1>4, <2>1, <1>t, MarkPlan DEF Prune
  <2>3. calm' \subseteq Janitors BY <1>4, <1>t DEF Mark, Prune, Disturb, JanitorType
  <2> QED BY <1>4, <2>2, <2>3, <1>t DEF Mark, Prune, Events, JanitorType
<1> QED BY <1>1, <1>2, <1>3, <1>4, JanitorSteps

LEMMA ReconcileKeepsType == ReconcileTypeOK /\ [ReconcileNext]_allVars => JanitorType'
<1> SUFFICES ASSUME ReconcileTypeOK, [ReconcileNext]_allVars PROVE JanitorType' OBVIOUS
<1>t. JanitorType BY DEF ReconcileTypeOK, JanitorType
<1>1. CASE UserNext /\ Elsewhere
  BY <1>1, <1>t DEF Elsewhere, Events, Disturb, JanitorType
<1>2. CASE \E d \in Ids : Age(d) BY <1>2, <1>t DEF Age, JanitorType
<1>3. CASE \E j \in Janitors : JanitorNext(j) BY <1>3, JanitorStepType
<1>4. CASE UNCHANGED allVars BY <1>4, <1>t DEF allVars, JanitorType
<1> QED BY <1>1, <1>2, <1>3, <1>4 DEF ReconcileNext
-----------------------------------------------------------------------------
(* Rows belong to apps that exist. *)

LEMMA OwnedByFrame ==
    ASSUME Owned, UNCHANGED owner, apps \subseteq apps',
           \A d \in Ids : status'[d] \in Statuses => status[d] \in Statuses
    PROVE  Owned'
BY DEF Owned

LEMMA OwnedByInsert ==
    ASSUME IInv, Owned, NEW p \in Procs, Insert(p)
    PROVE  Owned'
<1>1. /\ wants[p] \in apps /\ apps' = apps
      /\ \A d \in Ids : status'[d] = IF d = seq THEN "pending" ELSE status[d]
      /\ \A d \in Ids : owner'[d] = IF d = seq THEN wants[p] ELSE owner[d]
  BY InsertRow
<1> QED BY <1>1 DEF Owned

LEMMA EngineOwned ==
    ASSUME IInv, Owned, Next
    PROVE  Owned'
<1>t. TypeOK BY DEF IInv
<1>1. ASSUME NEW a \in AppNames, CreateApp(a) PROVE Owned'
  BY <1>1, OwnedByFrame DEF CreateApp
<1>2. ASSUME NEW a \in AppNames, DeleteApp(a) PROVE Owned'
  <2>1. /\ apps' = apps \ {a} /\ owner' = owner
        /\ \A d \in Ids : status'[d] = IF owner[d] = a THEN "deleted" ELSE status[d]
    BY <1>2 DEF DeleteApp
  <2>2. "deleted" \notin Statuses BY DEF Statuses, InProgress, Final
  <2> QED BY <2>1, <2>2 DEF Owned
<1>3. ASSUME NEW p \in Procs, Insert(p) PROVE Owned'
  BY <1>3, OwnedByInsert
<1>4. ASSUME NEW p \in Procs, NEW a \in AppNames, DeployBegin(p, a) PROVE Owned'
  BY <1>4, OwnedByFrame DEF DeployBegin, rows
<1>5. CASE \E p \in Procs, a \in AppNames : StopBegin(p, a)
  BY <1>5, OwnedByFrame DEF StopBegin, rows
<1>6. CASE \E p \in Procs : Step(p) /\ ~Insert(p)
  <2>1. PICK p \in Procs : OneStep(p) BY <1>6, StepOne
  <2>2. \A d \in Ids : status'[d] \in Statuses => status[d] \in Statuses
    BY <2>1 DEF OneStep, RowMove, Statuses, InProgress, Final
  <2> QED BY <2>1, <2>2, OwnedByFrame DEF OneStep
<1>7. CASE \E p \in Procs : Crash(p) \/ Misbehave(p)
  BY <1>7, OwnedByFrame DEF Crash, Misbehave, rows
<1>8. CASE \E d \in Ids : OutOfBand(d)
  BY <1>8, OwnedByFrame DEF OutOfBand, rows
<1>9. CASE \E d \in Ids : ReconcileMark(d)
  <2>1. \A d \in Ids : status'[d] \in Statuses => status[d] \in Statuses
    BY <1>9, <1>t DEF ReconcileMark, SetStatus, Open, TypeOK, Statuses
  <2> QED BY <1>9, <2>1, OwnedByFrame DEF ReconcileMark
<1> QED BY <1>1, <1>2, <1>3, <1>4, <1>5, <1>6, <1>7, <1>8, <1>9 DEF Next

LEMMA OwnedKeeps ==
    ASSUME IInv, Owned, [ReconcileNext]_allVars
    PROVE  Owned'
<1>t. TypeOK BY DEF IInv
<1>0. CASE UNCHANGED vars BY <1>0 DEF Owned, vars
<1>1. CASE UserNext BY <1>1, UserIsEngine, EngineOwned
<1>2. CASE \E d \in Ids : Age(d) BY <1>2, <1>0 DEF Age
<1>3. ASSUME NEW j \in Janitors, JanitorNext(j) PROVE Owned'
  <2>1. CASE Thinks(j) BY <2>1, <1>0, ThinkingIsQuiet
  <2>2. CASE CrashRedeploy(j)
    BY <2>2, ReconcileAssumption, EngineOwned DEF CrashRedeploy, Next
  <2>3. CASE \E a \in AppNames : Redeploy(j, a)
    BY <2>3, ReconcileAssumption, EngineOwned DEF Redeploy, Next
  <2>4. ASSUME NEW d \in Ids, Mark(j, d) PROVE Owned'
    <3>1. \A e \in Ids : status'[e] \in Statuses => status[e] \in Statuses
      BY <2>4, <1>t, MarkDoes DEF Open, Statuses
    <3> QED BY <2>4, <3>1, <1>t, MarkDoes, OwnedByFrame
  <2>5. ASSUME NEW d \in Ids, Prune(j, d) PROVE Owned'
    BY <2>5, OwnedByFrame DEF Prune, rows
  <2> QED BY <1>3, <2>1, <2>2, <2>3, <2>4, <2>5, JanitorSteps
<1>4. CASE UNCHANGED allVars BY <1>4, <1>0 DEF allVars
<1> QED BY <1>1, <1>2, <1>3, <1>4 DEF ReconcileNext

-----------------------------------------------------------------------------
(* What a plan has found broken. *)

(* Nothing that was planned changes under a janitor that does not move. *)
LEMMA BrokenStays ==
    ASSUME Onward, NEW j \in Janitors, Broken(j), ReconcileTypeOK,
           plan'[j] = plan[j], rpc'[j] = rpc[j]
    PROVE  Broken(j)'
<1>1. Bad(j)' = Bad(j) /\ Bad(j) \subseteq Ids BY DEF Bad, ReconcileTypeOK, Plans
<1> QED BY <1>1 DEF Broken, Onward

LEMMA FinishedBroken ==
    ASSUME NEW j \in Janitors, ReconcileTypeOK, rpc'[j] = "idle", plan'[j] = NoPlan
    PROVE  Broken(j)'
BY DEF Broken, Bad, NoPlan

LEMMA BrokenScan ==
    ASSUME ReconcileTypeOK, NEW j \in Janitors, NEW a \in AppNames, Broken(j), ScanApp(j, a)
    PROVE  Broken(j)'
<1> DEFINE p == plan[j]
<1>1. /\ plan'[j].lost = p.lost \union {d \in Ids : owner[d] = a /\ Lost(d, p.up)}
      /\ plan'[j].stuck = p.stuck \union {d \in Ids : owner[d] = a /\ Stuck(d)}
  BY DEF ScanApp, ReconcileTypeOK, Plans
<1>2. rpc'[j] = "scan" /\ status' = status
  BY DEF ScanApp, ReadOnly, Enter, ReconcileTypeOK, vars
<1>3. \A d \in Bad(j)' : status[d] # "none"
  BY <1>1 DEF Bad, Broken, Lost, Stuck, InProgress
<1> QED BY <1>2, <1>3 DEF Broken

LEMMA BrokenMark ==
    ASSUME IInv, ReconcileTypeOK, NEW j \in Janitors, NEW d \in Ids, Broken(j), Mark(j, d)
    PROVE  Broken(j)'
<1>1. /\ plan'[j].lost = plan[j].lost /\ plan'[j].stuck = plan[j].stuck
      /\ plan'[j].todo = plan[j].todo \ {d} /\ rpc'[j] = "mark" /\ rpc[j] = "mark"
      /\ plan[j].unmarked \subseteq plan'[j].unmarked
      /\ status'[d] = "failed" \/ d \in plan'[j].unmarked
  BY MarkPlan
<1>2. Bad(j)' = Bad(j) /\ Bad(j) \subseteq Ids BY <1>1 DEF Bad, ReconcileTypeOK, Plans
<1>3. Onward BY MarkKeeps
<1> QED BY <1>1, <1>2, <1>3 DEF Broken, Onward, Closed, Final

LEMMA BrokenThinks ==
    ASSUME IInv, ReconcileTypeOK, NEW j \in Janitors, Broken(j), Thinks(j)
    PROVE  Broken(j)'
<1> DEFINE p == plan[j]
<1>o. Onward
  <2>1. UNCHANGED vars BY ThinkingIsQuiet
  <2> QED BY <2>1, EngineKeeps
<1>t. /\ plan \in [Janitors -> Plans] /\ rpc \in [Janitors -> Phases] /\ p \in Plans
  BY DEF ReconcileTypeOK
<1>n. rpc[j] = "idle" => Bad(j) = {} /\ p.kept = {}
  BY DEF Broken, NoPlan, Bad
<1>f. CASE Finish(j)
  BY <1>f, <1>t, FinishedBroken DEF Finish
<1>1. CASE \E options \in Options : ReconcileBegin(j, options)
  <2>1. /\ plan'[j].lost = p.lost /\ plan'[j].stuck = p.stuck /\ plan'[j].kept = p.kept
        /\ plan'[j].unmarked = p.unmarked
        /\ rpc'[j] = "list" /\ rpc[j] = "idle"
    BY <1>1, <1>t DEF ReconcileBegin, Enter, Plans
  <2>2. Bad(j)' = Bad(j) /\ Bad(j) \subseteq Ids BY <2>1, <1>t DEF Bad, Plans
  <2> QED BY <2>1, <2>2, <1>n, <1>o DEF Broken, Onward
<1>2. CASE ListNames(j)
  <2>1. /\ plan'[j].lost = p.lost /\ plan'[j].stuck = p.stuck /\ plan'[j].kept = p.kept
        /\ plan'[j].unmarked = p.unmarked
        /\ rpc'[j] = "states" /\ rpc[j] = "list"
    BY <1>2, <1>t DEF ListNames, ReadOnly, Enter, Plans
  <2>2. Bad(j)' = Bad(j) /\ Bad(j) \subseteq Ids BY <2>1, <1>t DEF Bad, Plans
  <2> QED BY <2>1, <2>2, <1>o DEF Broken, Onward
<1>9. CASE \E d \in Ids : Inspect(j, d)
  <2>1. /\ plan'[j].lost = p.lost /\ plan'[j].stuck = p.stuck /\ plan'[j].kept = p.kept
        /\ plan'[j].unmarked = p.unmarked
        /\ rpc'[j] = "states" /\ rpc[j] = "states"
    BY <1>9, <1>t DEF Inspect, ReadOnly, Enter, Plans
  <2>2. Bad(j)' = Bad(j) /\ Bad(j) \subseteq Ids BY <2>1, <1>t DEF Bad, Plans
  <2> QED BY <2>1, <2>2, <1>o DEF Broken, Onward
<1>3. CASE Listed(j)
  <2>1. /\ plan'[j].lost = p.lost /\ plan'[j].stuck = p.stuck /\ plan'[j].kept = p.kept
        /\ plan'[j].unmarked = p.unmarked
        /\ rpc'[j] = "scan" /\ rpc[j] = "states"
    BY <1>3, <1>t DEF Listed, ReadOnly, Enter, Plans
  <2>2. Bad(j)' = Bad(j) /\ Bad(j) \subseteq Ids BY <2>1, <1>t DEF Bad, Plans
  <2> QED BY <2>1, <2>2, <1>o DEF Broken, Onward
<1>4. CASE Planned(j)
  <2>1. /\ plan'[j].lost = p.lost /\ plan'[j].stuck = p.stuck /\ plan'[j].kept = p.kept
        /\ plan'[j].unmarked = p.unmarked
        /\ plan'[j].todo = Bad(j) /\ rpc'[j] = "mark" /\ rpc[j] = "scan"
    BY <1>4, <1>t DEF Planned, ReadOnly, Enter, Plans, Bad
  <2>2. Bad(j)' = Bad(j) /\ Bad(j) \subseteq Ids BY <2>1, <1>t DEF Bad, Plans
  <2> QED BY <2>1, <2>2, <1>o DEF Broken, Onward
<1>5. CASE Marked(j)
  <2>1. /\ plan'[j].lost = p.lost /\ plan'[j].stuck = p.stuck /\ plan'[j].kept = p.kept
        /\ plan'[j].unmarked = p.unmarked
        /\ p.todo = {} /\ rpc'[j] = "prune" /\ rpc[j] = "mark"
    BY <1>5, <1>t DEF Marked, ReadOnly, Enter, Plans
  <2>2. Bad(j)' = Bad(j) /\ Bad(j) \subseteq Ids BY <2>1, <1>t DEF Bad, Plans
  <2> QED BY <2>1, <2>2, <1>o DEF Broken, Onward
<1>6. CASE Pruned(j)
  <2>1. /\ plan'[j].lost = p.lost /\ plan'[j].stuck = p.stuck /\ plan'[j].unmarked = p.unmarked
        /\ rpc'[j] = "redeploy" /\ rpc[j] = "prune"
    BY <1>6, <1>t DEF Pruned, ReadOnly, Enter, Plans
  <2>2. Bad(j)' = Bad(j) /\ Bad(j) \subseteq Ids BY <2>1, <1>t DEF Bad, Plans
  <2> QED BY <2>1, <2>2, <1>o DEF Broken, Onward
<1>7. CASE \E a \in AppNames : Skip(j, a)
  <2>1. /\ plan'[j].lost = p.lost /\ plan'[j].stuck = p.stuck /\ plan'[j].kept = p.kept
        /\ plan'[j].unmarked = p.unmarked
        /\ rpc'[j] = "redeploy" /\ rpc[j] = "redeploy"
    BY <1>7, <1>t DEF Skip, Due, Plans
  <2>2. Bad(j)' = Bad(j) /\ Bad(j) \subseteq Ids BY <2>1, <1>t DEF Bad, Plans
  <2> QED BY <2>1, <2>2, <1>o DEF Broken, Onward
<1>8. CASE \E a \in AppNames : ScanApp(j, a) BY <1>8, BrokenScan
<1> QED BY <1>f, <1>1, <1>2, <1>3, <1>4, <1>5, <1>6, <1>7, <1>8, <1>9
        DEF Thinks, Done, Abort, ScanFails, RedeployFails
-----------------------------------------------------------------------------
(* What a janitor that nobody disturbs knows. *)

(* While nothing changes, it goes on knowing it. *)
LEMMA CalmStays ==
    ASSUME NEW j \in Janitors, Calm(j), plan'[j] = plan[j], rpc'[j] = rpc[j],
           j \in calm' => j \in calm /\ UNCHANGED <<rows, ctr, stale>>
    PROVE  Calm(j)'
<1> SUFFICES ASSUME j \in calm' PROVE Calm(j)' BY DEF Calm
<1>1. j \in calm /\ UNCHANGED <<apps, owner, status, recorded, ctr, stale>> BY DEF rows
<1>2. CASE rpc[j] \notin {"list", "states", "scan", "mark", "prune", "redeploy"}
  BY <1>2 DEF Calm
<1>3. CASE rpc[j] = "list" BY <1>1, <1>3 DEF Calm
<1>4. CASE rpc[j] = "states" BY <1>1, <1>4 DEF Calm, Listing, Up
<1>5. CASE rpc[j] = "scan"
  <2>1. Listed2(j)' BY <1>1, <1>5 DEF Calm, Listed2, Up
  <2>2. SortedRows(j)' BY <1>1, <1>5 DEF Calm, SortedRows, Open, Lost, Stuck, Kept, Bad
  <2> QED BY <1>1, <1>5, <2>1, <2>2 DEF Calm
<1>6. CASE rpc[j] = "mark"
  <2>1. Listed2(j)' BY <1>1, <1>6 DEF Calm, Listed2, Up
  <2>2. Marking(j)' BY <1>1, <1>6 DEF Calm, Marking, Open, Lost, Stuck, Kept, Bad
  <2> QED BY <1>6, <2>1, <2>2 DEF Calm
<1>7. CASE rpc[j] = "prune" BY <1>1, <1>7 DEF Calm, Pruning, Open, Up
<1>8. CASE rpc[j] = "redeploy" BY <1>1, <1>8 DEF Calm, Mended, Open, Up
<1> QED BY <1>2, <1>3, <1>4, <1>5, <1>6, <1>7, <1>8

(* What each of its own phases leaves it with. *)
LEMMA CalmBegin ==
    ASSUME ReconcileTypeOK, NEW j \in Janitors, Broken(j), NEW options, ReconcileBegin(j, options)
    PROVE  Calm(j)'
<1>1. plan'[j].names = {} /\ plan'[j].up = {} /\ rpc'[j] = "list"
  BY DEF ReconcileBegin, Enter, ReconcileTypeOK, Broken, NoPlan
<1> QED BY <1>1 DEF Calm

LEMMA CalmListNames ==
    ASSUME ReconcileTypeOK, NEW j \in Janitors, Calm(j), ListNames(j)
    PROVE  Calm(j)'
<1> SUFFICES ASSUME j \in calm' PROVE Calm(j)' BY DEF Calm
<1>1. rpc[j] = "list" /\ rpc'[j] = "states" /\ ctr' = ctr /\ calm' = calm
  BY DEF ListNames, ReadOnly, Enter, ReconcileTypeOK, vars
<1>2. /\ plan'[j].names = {} /\ plan'[j].up = {}
      /\ plan'[j].todo = {d \in Ids : ctr[d] # "absent"}
  BY <1>1 DEF ListNames, ReconcileTypeOK, Plans, Calm
<1>3. Listing(j)' BY <1>1, <1>2 DEF Listing, Up
<1> QED BY <1>1, <1>3 DEF Calm

LEMMA CalmInspect ==
    ASSUME ReconcileTypeOK, NEW j \in Janitors, NEW d \in Ids, Calm(j), Inspect(j, d)
    PROVE  Calm(j)'
<1> SUFFICES ASSUME j \in calm' PROVE Calm(j)' BY DEF Calm
<1> DEFINE p == plan[j]
<1>1. rpc[j] = "states" /\ rpc'[j] = "states" /\ ctr' = ctr /\ calm' = calm /\ d \in p.todo
  BY DEF Inspect, Newest, ReadOnly, Enter, ReconcileTypeOK, vars
<1>2. /\ plan'[j].todo = p.todo \ {d}
      /\ plan'[j].names = IF ctr[d] = "absent" THEN p.names ELSE p.names \union {d}
      /\ plan'[j].up = IF Up(d) THEN p.up \union {d} ELSE p.up
  BY DEF Inspect, ReconcileTypeOK, Plans
<1>3. \A e \in Ids : /\ ctr[e] # "absent" <=> e \in p.names \union p.todo
                     /\ e \in p.up => Up(e)
                     /\ Up(e) => e \in p.up \union p.todo
  BY <1>1 DEF Calm, Listing
<1>4. \A e \in Ids : Up(e)' = Up(e) BY <1>1 DEF Up
<1>5. Listing(j)'
  <2> SUFFICES ASSUME NEW e \in Ids
               PROVE  /\ ctr[e] # "absent" <=> e \in plan'[j].names \union plan'[j].todo
                      /\ e \in plan'[j].up => Up(e)
                      /\ Up(e) => e \in plan'[j].up \union plan'[j].todo
    BY <1>1, <1>4 DEF Listing
  <2>1. d \in p.todo => ctr[d] # "absent" BY <1>3
  <2> QED BY <1>1, <1>2, <1>3, <2>1
<1> QED BY <1>1, <1>5 DEF Calm

LEMMA CalmListed ==
    ASSUME ReconcileTypeOK, Owned, NEW j \in Janitors, Broken(j), Calm(j), Listed(j)
    PROVE  Calm(j)'
<1> SUFFICES ASSUME j \in calm' PROVE Calm(j)' BY DEF Calm
<1> DEFINE p == plan[j]
<1>1. /\ rpc[j] = "states" /\ rpc'[j] = "scan" /\ calm' = calm /\ p.todo = {}
      /\ UNCHANGED <<apps, owner, status, recorded, ctr, stale>>
  BY DEF Listed, ReadOnly, Enter, ReconcileTypeOK, vars
<1>2. /\ plan'[j].left = apps /\ plan'[j].names = p.names /\ plan'[j].up = p.up
      /\ Bad(j)' = {} /\ plan'[j].kept = {}
  BY <1>1 DEF Listed, ReconcileTypeOK, Plans, Broken, Bad
<1>3. Listed2(j)' BY <1>1, <1>2 DEF Calm, Listing, Listed2, Up
<1>4. \A d \in Ids : Open(d)' => owner'[d] \in apps BY <1>1 DEF Open, Owned, Statuses
<1>5. SortedRows(j)' BY <1>1, <1>2, <1>4 DEF SortedRows
<1> QED BY <1>1, <1>2, <1>3, <1>5 DEF Calm

LEMMA CalmScan ==
    ASSUME ReconcileTypeOK, NEW j \in Janitors, NEW a \in AppNames, Calm(j), ScanApp(j, a)
    PROVE  Calm(j)'
<1> SUFFICES ASSUME j \in calm' PROVE Calm(j)' BY DEF Calm
<1> DEFINE p == plan[j]
           L == {d \in Ids : owner[d] = a /\ Lost(d, p.up)}
           S == {d \in Ids : owner[d] = a /\ Stuck(d)}
           K == {d \in Ids : owner[d] = a /\ Kept(d, p.up)}
<1>1. /\ rpc[j] = "scan" /\ rpc'[j] = "scan" /\ calm' = calm
      /\ UNCHANGED <<apps, owner, status, recorded, ctr, stale>>
  BY DEF ScanApp, ReadOnly, Enter, ReconcileTypeOK, vars
<1>2. /\ plan'[j].left = p.left \ {a} /\ plan'[j].names = p.names /\ plan'[j].up = p.up
      /\ plan'[j].lost = p.lost \union L /\ plan'[j].stuck = p.stuck \union S
      /\ plan'[j].kept = p.kept \union K
  BY ZenonT(40) DEF ScanApp, ReconcileTypeOK, Plans
<1>3. Listed2(j)' BY <1>1, <1>2 DEF Calm, Listed2, Up
<1>4. Bad(j)' = Bad(j) \union L \union S BY <1>2 DEF Bad
<1>5. \A d \in Ids :
         /\ Open(d) /\ owner[d] \notin p.left =>
               Lost(d, p.up) \/ Stuck(d) \/ (recorded[d] => d \in p.kept)
         /\ Open(d) /\ owner[d] \notin p.left =>
               (Lost(d, p.up) \/ Stuck(d) => d \in Bad(j))
         /\ d \in Bad(j) => Lost(d, p.up) \/ Stuck(d)
         /\ d \in p.kept => Kept(d, p.up)
  BY <1>1 DEF Calm, SortedRows
<1>6. \A d \in Ids : /\ Open(d)' = Open(d) /\ Stuck(d)' = Stuck(d) /\ recorded'[d] = recorded[d]
                     /\ owner'[d] = owner[d]
                     /\ Lost(d, plan[j].up)' = Lost(d, p.up) /\ Kept(d, plan[j].up)' = Kept(d, p.up)
  BY <1>1, <1>2 DEF Open, Stuck, Lost, Kept
<1>7. \A d \in Ids : Open(d) /\ recorded[d] /\ ~Lost(d, p.up) /\ ~Stuck(d) => Kept(d, p.up)
  BY DEF Kept
<1>8. SortedRows(j)'
  <2> SUFFICES ASSUME NEW d \in Ids
               PROVE  /\ Open(d) /\ owner[d] \notin p.left \ {a} =>
                            Lost(d, p.up) \/ Stuck(d) \/ (recorded[d] => d \in p.kept \union K)
                      /\ Open(d) /\ owner[d] \notin p.left \ {a} =>
                            (Lost(d, p.up) \/ Stuck(d) => d \in Bad(j) \union L \union S)
                      /\ d \in Bad(j) \union L \union S => Lost(d, p.up) \/ Stuck(d)
                      /\ d \in p.kept \union K => Kept(d, p.up)
    BY <1>2, <1>4, <1>6 DEF SortedRows
  <2>1. CASE owner[d] = a BY <2>1, <1>5, <1>7
  <2>2. CASE owner[d] # a BY <2>2, <1>5
  <2> QED BY <2>1, <2>2
<1> QED BY <1>1, <1>2, <1>3, <1>8 DEF Calm

LEMMA CalmPlanned ==
    ASSUME ReconcileTypeOK, NEW j \in Janitors, Calm(j), Planned(j)
    PROVE  Calm(j)'
<1> SUFFICES ASSUME j \in calm' PROVE Calm(j)' BY DEF Calm
<1> DEFINE p == plan[j]
<1>1. /\ rpc[j] = "scan" /\ rpc'[j] = "mark" /\ calm' = calm /\ p.left = {}
      /\ UNCHANGED <<apps, owner, status, recorded, ctr, stale>>
  BY DEF Planned, ReadOnly, Enter, ReconcileTypeOK, vars
<1>2. /\ plan'[j].todo = Bad(j) /\ Bad(j)' = Bad(j) /\ plan'[j].names = p.names
      /\ plan'[j].up = p.up /\ plan'[j].kept = p.kept
  BY DEF Planned, ReconcileTypeOK, Plans, Bad
<1>3. Listed2(j)' BY <1>1, <1>2 DEF Calm, Listed2, Up
<1>4. SortedRows(j) BY <1>1 DEF Calm
<1>5. \A d \in Ids : /\ Open(d)' = Open(d) /\ Stuck(d)' = Stuck(d) /\ recorded'[d] = recorded[d]
                     /\ Lost(d, plan[j].up)' = Lost(d, p.up) /\ Kept(d, plan[j].up)' = Kept(d, p.up)
  BY <1>1, <1>2 DEF Open, Stuck, Lost, Kept
<1>6. Marking(j)' BY <1>1, <1>2, <1>4, <1>5 DEF Marking, SortedRows
<1> QED BY <1>1, <1>3, <1>6 DEF Calm
LEMMA CalmMark ==
    ASSUME ReconcileTypeOK, NEW j \in Janitors, NEW d \in Ids, Calm(j), Mark(j, d)
    PROVE  Calm(j)'
<1> SUFFICES ASSUME j \in calm' PROVE Calm(j)' BY DEF Calm
<1> DEFINE p == plan[j]
<1>t. TypeOK BY DEF ReconcileTypeOK
<1>1. /\ rpc[j] = "mark" /\ rpc' = rpc /\ d \in p.todo /\ j \in calm
      /\ stale' = {e \in stale : status'[e] = status[e]}
  BY DEF Mark, Events, Disturb
<1>2. /\ plan'[j].todo = p.todo \ {d} /\ Bad(j)' = Bad(j) /\ plan'[j].names = p.names
      /\ plan'[j].up = p.up /\ plan'[j].kept = p.kept
  BY MarkPlan DEF Bad
<1>3. Listed2(j) /\ Marking(j) BY <1>1 DEF Calm
<1>4. /\ UNCHANGED <<apps, owner, recorded, ctr>>
      /\ \A e \in Ids \ {d} : status'[e] = status[e]
      /\ Open(d) => status'[d] = "failed"
      /\ ~Open(d) => status'[d] = status[d]
  BY <1>t, MarkDoes
<1>5. Listed2(j)' BY <1>2, <1>3, <1>4 DEF Listed2, Up
<1>6. ~Open(d)' BY <1>4 DEF Open, InProgress
<1>7. d \notin p.kept BY <1>1, <1>3 DEF Marking, Kept
<1>8. \A e \in Ids \ {d} :
         /\ Open(e)' = Open(e) /\ Stuck(e)' = Stuck(e) /\ recorded'[e] = recorded[e]
         /\ Lost(e, plan[j].up)' = Lost(e, p.up) /\ Kept(e, plan[j].up)' = Kept(e, p.up)
  BY <1>1, <1>2, <1>4 DEF Open, Stuck, Lost, Kept
<1>9. Marking(j)'
  <2>1. (p.todo \ {d}) \subseteq Bad(j) BY <1>3 DEF Marking
  <2>2. ASSUME NEW e \in Ids
        PROVE  /\ e \in plan'[j].todo => (Lost(e, plan[j].up) \/ Stuck(e))'
               /\ Open(e)' /\ e \notin plan'[j].todo =>
                     /\ ~Lost(e, plan[j].up)' /\ ~Stuck(e)'
                     /\ recorded'[e] => e \in plan'[j].kept
               /\ e \in plan'[j].kept => Kept(e, plan[j].up)'
    <3>1. CASE e = d BY <3>1, <1>2, <1>6, <1>7
    <3>2. CASE e # d BY <3>2, <1>2, <1>3, <1>8 DEF Marking
    <3> QED BY <3>1, <3>2
  <2> QED BY <2>1, <2>2, <1>2 DEF Marking
<1> QED BY <1>1, <1>5, <1>9 DEF Calm

LEMMA CalmMarked ==
    ASSUME ReconcileTypeOK, NEW j \in Janitors, Calm(j), Marked(j)
    PROVE  Calm(j)'
<1> SUFFICES ASSUME j \in calm' PROVE Calm(j)' BY DEF Calm
<1> DEFINE p == plan[j]
<1>1. /\ rpc[j] = "mark" /\ rpc'[j] = "prune" /\ calm' = calm /\ p.todo = {}
      /\ UNCHANGED <<apps, owner, status, recorded, ctr, stale>>
  BY DEF Marked, ReadOnly, Enter, ReconcileTypeOK, vars
<1>2. /\ plan'[j].todo = IF "prune" \in p.options THEN p.names \ p.kept ELSE {}
      /\ plan'[j].options = p.options /\ plan'[j].kept = p.kept
  BY DEF Marked, Orphans, ReconcileTypeOK, Plans
<1>3. Listed2(j) /\ Marking(j) BY <1>1 DEF Calm
<1>4. \A d \in Ids :
         /\ status[d] = "running" => Up(d)
         /\ d \in stale => status[d] \notin InProgress
         /\ recorded[d] /\ Open(d) => d \in p.kept
         /\ d \in p.kept => Open(d)
  BY <1>1, <1>3 DEF Marking, Listed2, Lost, Stuck, Kept, Open
<1>5. \A d \in Ids : ctr[d] # "absent" => d \in p.names BY <1>3 DEF Listed2
<1>6. \A d \in Ids : Open(d)' = Open(d) /\ Up(d)' = Up(d) BY <1>1 DEF Open, Up
<1>7. Pruning(j)'
  <2> SUFFICES ASSUME NEW d \in Ids
               PROVE  /\ status[d] = "running" => Up(d)
                      /\ d \in stale => status[d] \notin InProgress
                      /\ recorded[d] /\ Open(d) => d \in p.kept
                      /\ d \in p.kept => Open(d)
                      /\ d \in plan'[j].todo => d \notin p.kept
                      /\ "prune" \in p.options /\ ctr[d] # "absent" => d \in p.kept \union plan'[j].todo
    BY <1>1, <1>2, <1>6 DEF Pruning
  <2> QED BY <1>2, <1>4, <1>5
<1> QED BY <1>1, <1>7 DEF Calm

LEMMA CalmPrune ==
    ASSUME ReconcileTypeOK, IInv, NEW j \in Janitors, NEW d \in Ids, Calm(j), Prune(j, d)
    PROVE  Calm(j)'
<1> SUFFICES ASSUME j \in calm' PROVE Calm(j)' BY DEF Calm
<1> DEFINE p == plan[j]
<1>1. /\ rpc[j] = "prune" /\ rpc' = rpc /\ d \in p.todo /\ j \in calm
      /\ ctr' = [ctr EXCEPT ![d] = "absent"]
      /\ UNCHANGED <<apps, owner, status, recorded, stale>>
  BY DEF Prune, SetContainer, Disturb, rows
<1>2. /\ plan'[j].todo = p.todo \ {d} /\ plan'[j].options = p.options /\ plan'[j].kept = p.kept
  BY DEF Prune, ReconcileTypeOK, Plans
<1>3. Pruning(j) BY <1>1 DEF Calm
<1>4. ctr'[d] = "absent" /\ \A e \in Ids \ {d} : ctr'[e] = ctr[e]
  BY <1>1 DEF ReconcileTypeOK, TypeOK
<1>5. d \notin p.kept BY <1>1, <1>3 DEF Pruning
<1>6. status[d] # "running"
  BY <1>3, <1>5 DEF Pruning, Open, IInv, RunningHasContainer
<1>7. Pruning(j)'
  <2> SUFFICES ASSUME NEW e \in Ids
               PROVE  /\ status[e] = "running" => Up(e)'
                      /\ e \in stale => status[e] \notin InProgress
                      /\ recorded[e] /\ Open(e) => e \in p.kept
                      /\ e \in p.kept => Open(e)
                      /\ e \in p.todo \ {d} => e \notin p.kept
                      /\ "prune" \in p.options /\ ctr'[e] # "absent" => e \in p.kept \union (p.todo \ {d})
    BY <1>1, <1>2 DEF Pruning, Open
  <2>1. CASE e = d BY <2>1, <1>3, <1>4, <1>5, <1>6 DEF Pruning
  <2>2. CASE e # d BY <2>2, <1>3, <1>4 DEF Pruning, Up
  <2> QED BY <2>1, <2>2
<1> QED BY <1>1, <1>7 DEF Calm

LEMMA CalmPruned ==
    ASSUME ReconcileTypeOK, NEW j \in Janitors, Calm(j), Pruned(j)
    PROVE  Calm(j)'
<1> SUFFICES ASSUME j \in calm' PROVE Calm(j)' BY DEF Calm
<1>1. /\ rpc[j] = "prune" /\ rpc'[j] = "redeploy" /\ calm' = calm /\ plan[j].todo = {}
      /\ UNCHANGED <<apps, owner, status, recorded, ctr, stale>>
  BY DEF Pruned, ReadOnly, Enter, ReconcileTypeOK, vars
<1>2. plan'[j].options = plan[j].options BY DEF Pruned, ReconcileTypeOK, Plans
<1>3. Pruning(j) /\ stale \subseteq Ids BY <1>1 DEF Calm, ReconcileTypeOK
<1>4. Mended(j)' BY <1>1, <1>2, <1>3 DEF Pruning, Mended, Open, Up
<1> QED BY <1>1, <1>4 DEF Calm

LEMMA CalmSkip ==
    ASSUME ReconcileTypeOK, NEW j \in Janitors, NEW a \in AppNames, Calm(j), Skip(j, a)
    PROVE  Calm(j)'
<1> SUFFICES ASSUME j \in calm' PROVE Calm(j)' BY DEF Calm
<1>1. /\ rpc[j] = "redeploy" /\ rpc' = rpc /\ calm' = calm
      /\ UNCHANGED <<apps, owner, status, recorded, ctr, stale>>
  BY DEF Skip, Due, vars
<1>2. plan'[j].options = plan[j].options BY DEF Skip, Due, ReconcileTypeOK, Plans
<1>3. Mended(j)' BY <1>1, <1>2 DEF Calm, Mended, Open, Up
<1> QED BY <1>1, <1>3 DEF Calm

LEMMA CalmThinks ==
    ASSUME ReconcileTypeOK, Owned, NEW j \in Janitors, Broken(j), Calm(j), Thinks(j)
    PROVE  Calm(j)'
<1>f. CASE Finish(j) BY <1>f DEF Finish, Calm
<1> QED BY <1>f, CalmBegin, CalmListNames, CalmInspect, CalmListed, CalmScan, CalmPlanned,
           CalmMarked, CalmPruned, CalmSkip
        DEF Thinks, Done, Abort, ScanFails, RedeployFails

(* A step of anybody else. *)
LEMMA OthersStay ==
    ASSUME ReconcileTypeOK, NEW j \in Janitors, NEW k \in Janitors, j # k, JanitorNext(k)
    PROVE  /\ plan'[j] = plan[j] /\ rpc'[j] = rpc[j]
           /\ j \in calm' => j \in calm /\ UNCHANGED <<rows, ctr, stale>>
<1>t. plan \in [Janitors -> Plans] /\ rpc \in [Janitors -> Phases] /\ stale \subseteq Ids
  BY DEF ReconcileTypeOK
<1>1. CASE Finish(k) BY <1>1, <1>t DEF Finish, vars, rows
<1>2. CASE \E options \in Options : ReconcileBegin(k, options)
  BY <1>2, <1>t DEF ReconcileBegin, Enter, vars, rows
<1>3. CASE ListNames(k) \/ Listed(k) \/ Planned(k) \/ Marked(k) \/ Pruned(k)
  BY <1>3, <1>t DEF ListNames, Listed, Planned, Marked, Pruned, ReadOnly, Enter, vars, rows
<1>4. CASE (\E d \in Ids : Inspect(k, d)) \/ (\E a \in AppNames : ScanApp(k, a) \/ Skip(k, a))
  BY <1>4, <1>t, ZenonT(40) DEF Inspect, ScanApp, Skip, Due, ReadOnly, Enter, vars, rows
<1>5. CASE CrashRedeploy(k) BY <1>5, <1>t DEF CrashRedeploy, Crash, rows
<1>6. CASE \E a \in AppNames : Redeploy(k, a) BY <1>6, <1>t DEF Redeploy, Due, DeployBegin
<1>7. CASE \E d \in Ids : Mark(k, d) \/ Prune(k, d)
  <2>1. plan'[j] = plan[j] /\ rpc'[j] = rpc[j] BY <1>7, <1>t, MarkPlan DEF Prune
  <2>2. ASSUME NEW d \in Ids, Mark(k, d), j \in calm' PROVE j \in calm /\ UNCHANGED <<rows, ctr, stale>>
    BY <2>2, <1>t DEF Mark, Disturb, Events, rows
  <2>3. ASSUME NEW d \in Ids, Prune(k, d), j \in calm' PROVE j \in calm /\ UNCHANGED <<rows, ctr, stale>>
    BY <2>3, <1>t DEF Prune, Disturb
  <2> QED BY <1>7, <2>1, <2>2, <2>3
<1> QED BY <1>1, <1>2, <1>3, <1>4, <1>5, <1>6, <1>7
        DEF JanitorNext, Done, Abort, ScanFails, RedeployFails

LEMMA ElsewhereStays ==
    ASSUME ReconcileTypeOK, NEW j \in Janitors,
           Elsewhere \/ (\E d \in Ids : Age(d)) \/ UNCHANGED allVars
    PROVE  /\ plan'[j] = plan[j] /\ rpc'[j] = rpc[j]
           /\ j \in calm' => j \in calm /\ UNCHANGED <<rows, ctr, stale>>
<1>1. CASE Elsewhere
  BY <1>1 DEF Elsewhere, Events, Disturb, rows, ReconcileTypeOK
<1>2. CASE \E d \in Ids : Age(d) BY <1>2 DEF Age
<1>3. CASE UNCHANGED allVars BY <1>3 DEF allVars, vars, rows
<1> QED BY <1>1, <1>2, <1>3

-----------------------------------------------------------------------------
(* The invariant of reconciles. *)

LEMMA InitRInv == ReconcileInit => RInv
<1> SUFFICES ASSUME ReconcileInit PROVE RInv OBVIOUS
<1>1. ReconcileTypeOK BY InitReconcileType
<1>2. IInv BY InitIInv DEF ReconcileInit
<1>3. Owned BY DEF ReconcileInit, Init, Owned, Statuses, InProgress, Final
<1>4. \A j \in Janitors : Broken(j) BY DEF ReconcileInit, Broken, Bad, NoPlan
<1>5. \A j \in Janitors : Calm(j) BY DEF ReconcileInit, Calm
<1> QED BY <1>1, <1>2, <1>3, <1>4, <1>5 DEF RInv

LEMMA NextRInv == RInv /\ [ReconcileNext]_allVars => RInv'
<1> SUFFICES ASSUME RInv, [ReconcileNext]_allVars PROVE RInv' OBVIOUS
<1>t. ReconcileTypeOK /\ IInv /\ Owned BY DEF RInv
<1>1. IInv' /\ Onward BY <1>t, RecordsKeep
<1>2. ReconcileTypeOK'
  BY <1>1, <1>t, ReconcileKeepsType DEF IInv, ReconcileTypeOK, JanitorType
<1>3. Owned' BY <1>t, OwnedKeeps
<1>4. ASSUME NEW j \in Janitors PROVE Broken(j)' /\ Calm(j)'
  <2>t. Broken(j) /\ Calm(j) BY DEF RInv
  <2>1. ASSUME /\ plan'[j] = plan[j] /\ rpc'[j] = rpc[j]
               /\ j \in calm' => j \in calm /\ UNCHANGED <<rows, ctr, stale>>
        PROVE  Broken(j)' /\ Calm(j)'
    BY <2>1, <2>t, <1>t, <1>1, BrokenStays, CalmStays
  <2>2. CASE Elsewhere \/ (\E d \in Ids : Age(d)) \/ UNCHANGED allVars
    BY <2>2, <2>1, <1>t, ElsewhereStays
  <2>3. ASSUME NEW k \in Janitors, JanitorNext(k), k # j PROVE Broken(j)' /\ Calm(j)'
    BY <2>3, <2>1, <1>t, OthersStay
  <2>4. CASE JanitorNext(j)
    <3>1. CASE Thinks(j) BY <3>1, <1>t, <2>t, BrokenThinks, CalmThinks
    <3>2. CASE CrashRedeploy(j)
      <4>1. rpc'[j] = "idle" /\ plan'[j] = NoPlan BY <3>2, <1>t DEF CrashRedeploy, ReconcileTypeOK
      <4> QED BY <4>1, <1>t, FinishedBroken DEF Calm
    <3>3. ASSUME NEW a \in AppNames, Redeploy(j, a) PROVE Broken(j)' /\ Calm(j)'
      <4>1. /\ rpc'[j] = "redeploy" /\ rpc[j] = "redeploy" /\ calm' = calm
            /\ plan'[j].lost = plan[j].lost /\ plan'[j].stuck = plan[j].stuck
            /\ plan'[j].unmarked = plan[j].unmarked /\ plan'[j].options = plan[j].options
            /\ UNCHANGED <<status, ctr, stale>>
        BY <3>3, <1>t DEF Redeploy, Due, ReconcileTypeOK, Plans, DeployBegin, rows
      <4>2. Bad(j)' = Bad(j) /\ Bad(j) \subseteq Ids BY <4>1, <1>t DEF Bad, ReconcileTypeOK, Plans
      <4>3. Broken(j)' BY <4>1, <4>2, <1>1, <2>t DEF Broken, Onward
      <4>4. Calm(j)' BY <4>1, <2>t DEF Calm, Mended, Open, Up
      <4> QED BY <4>3, <4>4
    <3>4. ASSUME NEW d \in Ids, Mark(j, d) PROVE Broken(j)' /\ Calm(j)'
      BY <3>4, <1>t, <2>t, BrokenMark, CalmMark
    <3>5. ASSUME NEW d \in Ids, Prune(j, d) PROVE Broken(j)' /\ Calm(j)'
      <4>1. /\ rpc'[j] = "prune" /\ rpc[j] = "prune"
            /\ plan'[j].lost = plan[j].lost /\ plan'[j].stuck = plan[j].stuck
            /\ plan'[j].unmarked = plan[j].unmarked
        BY <3>5, <1>t DEF Prune, ReconcileTypeOK, Plans
      <4>2. Bad(j)' = Bad(j) /\ Bad(j) \subseteq Ids BY <4>1, <1>t DEF Bad, ReconcileTypeOK, Plans
      <4>3. Broken(j)' BY <4>1, <4>2, <1>1, <2>t DEF Broken, Onward
      <4> QED BY <3>5, <4>3, <1>t, <2>t, CalmPrune
    <3> QED BY <2>4, <3>1, <3>2, <3>3, <3>4, <3>5, JanitorSteps
  <2> QED BY <2>2, <2>3, <2>4 DEF ReconcileNext
<1> QED BY <1>1, <1>2, <1>3, <1>4 DEF RInv

(* What a reconcile has seen and decided is still so, as long as nobody    *)
(* disturbs it, and what the engine keeps is kept beside it.               *)
THEOREM ReconcileInvariant == ReconcileSpec => []RInv
BY InitRInv, NextRInv, PTL DEF ReconcileSpec

-----------------------------------------------------------------------------
(* The theorems. *)

(* A reconcile, its plan and the records keep to their types.              *)
THEOREM ReconcileTypeCorrect == ReconcileSpec => []ReconcileTypeOK
<1>1. RInv => ReconcileTypeOK BY DEF RInv
<1> QED BY <1>1, ReconcileInvariant, PTL

(* Left alone, a reconcile repairs whatever crashes and faults have left,  *)
(* for any number of apps, deployments and other commands.                 *)
THEOREM RepairsAlways == ReconcileSpec => []Repairs
<1>1. RInv => Repairs
  BY DEF RInv, Calm, Mended, Repairs
<1> QED BY <1>1, ReconcileInvariant, PTL

(* Left alone, it fails only what is broken and prunes only what no open   *)
(* row has recorded.                                                       *)
THEOREM TouchesOnlyBrokenAlways == ReconcileSpec => TouchesOnlyBroken
<1>1. ASSUME RInv, NEW j \in Janitors, NEW d \in Ids, j \in calm, Mark(j, d)
      PROVE  Stuck(d) \/ ~Up(d)
  <2>1. rpc[j] = "mark" /\ d \in plan[j].todo BY <1>1 DEF Mark
  <2>2. Listed2(j) /\ Marking(j) BY <1>1, <2>1 DEF RInv, Calm
  <2> QED BY <2>1, <2>2 DEF Marking, Listed2, Lost
<1>2. ASSUME RInv, NEW j \in Janitors, NEW d \in Ids, j \in calm, Prune(j, d)
      PROVE  ~(recorded[d] /\ Open(d))
  <2>1. rpc[j] = "prune" /\ d \in plan[j].todo BY <1>2 DEF Prune
  <2>2. Pruning(j) BY <1>2, <2>1 DEF RInv, Calm
  <2> QED BY <2>1, <2>2 DEF Pruning
<1>3. RInv => [\A j \in Janitors, d \in Ids :
                  j \in calm =>
                      /\ Mark(j, d) => Stuck(d) \/ ~Up(d)
                      /\ Prune(j, d) => ~(recorded[d] /\ Open(d))]_allVars
  BY <1>1, <1>2
<1> QED BY <1>3, ReconcileInvariant, PTL DEF ReconcileSpec, TouchesOnlyBroken

(* Whoever deploys, stops or reconciles beside it, and whatever write      *)
(* throws, a redeploy starts only for an app of which nothing runs but     *)
(* what the reconcile knows it could not mark: the rows its plan failed    *)
(* are closed, or among the outcomes "failed".                             *)
THEOREM RedeploysOnlyWhenDownAlways == ReconcileSpec => RedeploysOnlyWhenDown
<1>1. ASSUME RInv, NEW j \in Janitors, NEW a \in AppNames, Redeploy(j, a)
      PROVE  Rows(a, {"running"}) \subseteq plan[j].unmarked
  <2>1. rpc[j] = "redeploy" /\ ~RunningLeft(j, a) BY <1>1 DEF Redeploy, Due
  <2>2. \A d \in Bad(j) : status[d] # "running" \/ d \in plan[j].unmarked
    BY <1>1, <2>1 DEF RInv, Broken, Closed, Final
  <2>3. \A d \in Rows(a, {"running"}) : d \in Bad(j) BY <2>1 DEF RunningLeft, Bad
  <2> QED BY <2>2, <2>3 DEF Rows
<1>2. RInv => [\A j \in Janitors, a \in AppNames :
                  Redeploy(j, a) => Rows(a, {"running"}) \subseteq plan[j].unmarked]_allVars
  BY <1>1
<1> QED BY <1>2, ReconcileInvariant, PTL DEF ReconcileSpec, RedeploysOnlyWhenDown

(* A janitor keeps what a check has cleared. *)
LEMMA JanitorCleared ==
    ASSUME IInv, Cleared, OneChecking, NEW j \in Janitors, JanitorNext(j)
    PROVE  Cleared'
<1>t. TypeOK BY DEF IInv
<1>1. CASE [Next]_vars BY <1>1, NextCleared
<1>2. CASE Thinks(j) BY <1>1, <1>2, ThinkingIsQuiet
<1>3. CASE CrashRedeploy(j) \/ \E a \in AppNames : Redeploy(j, a)
  BY <1>1, <1>3, ReconcileAssumption DEF CrashRedeploy, Redeploy, Next
<1>4. ASSUME NEW d \in Ids, Mark(j, d) PROVE Cleared'
  <2>1. /\ UNCHANGED <<owner, pc, wants>>
        /\ \A e \in Ids : status'[e] = status[e] \/ status'[e] = "failed"
    BY <1>4, <1>t, MarkDoes
  <2> QED BY <2>1 DEF Cleared, OneInFlight, Rows, InProgress
<1>5. ASSUME NEW d \in Ids, Prune(j, d) PROVE Cleared'
  BY <1>5 DEF Prune, rows, procVars, Cleared, OneInFlight, Rows
<1> QED BY <1>2, <1>3, <1>4, <1>5, JanitorSteps

(* Beside reconciles too, as long as no two processes are between check    *)
(* and insert for one app, a second deployment of it is never in flight:   *)
(* neither a row that a reconcile fails under a live deploy nor an app it  *)
(* deploys again makes room for one.                                       *)
THEOREM OneInFlightBesideReconciles == ReconcileSpec => OneInFlightUnlessCrossed
<1>1. ReconcileInit => Cleared BY InitCleared DEF ReconcileInit
<1>2. ASSUME RInv, Cleared, OneChecking, [ReconcileNext]_allVars PROVE Cleared'
  <2>t. IInv BY <1>2 DEF RInv
  <2>0. CASE [Next]_vars BY <1>2, <2>t, <2>0, NextCleared
  <2>1. CASE UserNext BY <2>0, <2>1, UserIsEngine
  <2>2. CASE \E d \in Ids : Age(d) BY <2>0, <2>2 DEF Age
  <2>3. CASE \E j \in Janitors : JanitorNext(j) BY <1>2, <2>t, <2>3, JanitorCleared
  <2>4. CASE UNCHANGED allVars BY <2>0, <2>4 DEF allVars
  <2> QED BY <1>2, <2>1, <2>2, <2>3, <2>4 DEF ReconcileNext
<1>3. RInv /\ Cleared /\ OneChecking /\ [ReconcileNext]_allVars => Cleared' BY <1>2
<1>4. Cleared => OneInFlight BY DEF Cleared
<1> QED BY <1>1, <1>3, <1>4, ReconcileInvariant, PTL DEF ReconcileSpec, OneInFlightUnlessCrossed

-----------------------------------------------------------------------------
(* Reconcile implements the engine. *)

USE DEF Engine!Ids

(* The definitions of the engine read the same on both sides; only its     *)
(* faults are more.                                                        *)
LEMMA StepMaps ==
    ASSUME NEW p \in Procs, Step(p)
    PROVE  Engine!Step(p)
<1> USE DEF Goto, Engine!Goto, Return, Engine!Return, SetContainer, Engine!SetContainer,
        SetStatus, Engine!SetStatus, rows, Engine!rows, Open, Engine!Open, CatchAt, Engine!CatchAt,
        Holding, Engine!Holding, InProgress, Engine!InProgress
<1>a. Insert(p) => Engine!Insert(p) BY DEF Insert, Engine!Insert, AddRow, Engine!AddRow
<1>b. NotInserted(p) => Engine!NotInserted(p) BY DEF NotInserted, Engine!NotInserted
<1>c. SetPulling(p) => Engine!SetPulling(p) BY DEF SetPulling, Engine!SetPulling
<1>d. WriteFails(p) => Engine!WriteFails(p)
  BY DEF WriteFails, Engine!WriteFails, Written, Engine!Written, StoreId, Engine!StoreId,
     Bare, Engine!Bare, Newest, Engine!Newest
<1>1. Pulled(p) => Engine!Pulled(p) BY DEF Pulled, Engine!Pulled
<1>2. Created(p) => Engine!Created(p) BY DEF Created, Engine!Created
<1>3. RecordStarting(p) => Engine!RecordStarting(p)
  BY DEF RecordStarting, Engine!RecordStarting, StoreId, Engine!StoreId
<1>4. Started(p) => Engine!Started(p) BY DEF Started, Engine!Started
<1>5. Probe(p) => Engine!Probe(p) BY DEF Probe, Engine!Probe, Up, Engine!Up
<1>6. Verdict(p) => Engine!Verdict(p) BY DEF Verdict, Engine!Verdict, Steady, Engine!Steady
<1>7. Reap(p) => Engine!Reap(p) BY DEF Reap, Engine!Reap
<1>8. Reaped(p) => Engine!Reaped(p) BY DEF Reaped, Engine!Reaped
<1>9. NotFound(p) => Engine!NotFound(p) BY DEF NotFound, Engine!NotFound
<1>10. CallFails(p) => Engine!CallFails(p) BY DEF CallFails, Engine!CallFails
<1>11. ForceRemove(p) => Engine!ForceRemove(p) BY DEF ForceRemove, Engine!ForceRemove
<1>12. GiveUp(p) => Engine!GiveUp(p) BY DEF GiveUp, Engine!GiveUp, MarkFailed, Engine!MarkFailed
<1>13. /\ Promote(p) => Engine!Promote(p)
       /\ HookDone(p) => Engine!HookDone(p)
  BY DEF Promote, Engine!Promote, HookDone, Engine!HookDone, StartReplacing, Engine!StartReplacing,
         PreviousOf, Engine!PreviousOf, Rows, Engine!Rows
<1>14. HookFails(p) => Engine!HookFails(p) BY DEF HookFails, Engine!HookFails
<1>15. /\ StopPrevious(p) => Engine!StopPrevious(p)
       /\ RemovePrevious(p) => Engine!RemovePrevious(p)
  BY DEF StopPrevious, Engine!StopPrevious, RemovePrevious, Engine!RemovePrevious,
         Newest, Engine!Newest
<1>16. Replaced(p) => Engine!Replaced(p)
  BY DEF Replaced, Engine!Replaced, StartReplacing, Engine!StartReplacing, Newest, Engine!Newest
<1>17. StopContainer(p) => Engine!StopContainer(p) BY DEF StopContainer, Engine!StopContainer
<1>18. RemoveContainer(p) => Engine!RemoveContainer(p) BY DEF RemoveContainer, Engine!RemoveContainer
<1>19. Stopped(p) => Engine!Stopped(p) BY DEF Stopped, Engine!Stopped
<1> QED
  BY <1>1, <1>2, <1>3, <1>4, <1>5, <1>6, <1>7, <1>8, <1>9, <1>10, <1>11, <1>12, <1>13, <1>14,
     <1>15, <1>16, <1>17, <1>18, <1>19, <1>a, <1>b, <1>c, <1>d DEF Step, Engine!Step

LEMMA BeginMaps ==
    ASSUME NEW p \in Procs, NEW a \in AppNames, DeployBegin(p, a)
    PROVE  Engine!DeployBegin(p, a)
BY DEF DeployBegin, Engine!DeployBegin, Blocking, Engine!Blocking, Rows, Engine!Rows,
       InProgress, Engine!InProgress, rows, Engine!rows

LEMMA CrashMaps ==
    ASSUME NEW p \in Procs, Crash(p)
    PROVE  Engine!Crash(p)
BY DEF Crash, Engine!Crash, Return, Engine!Return, rows, Engine!rows

LEMMA UserMaps == UserNext => Engine!Next
<1> SUFFICES ASSUME UserNext PROVE Engine!Next OBVIOUS
<1> USE DEF procVars, Engine!procVars, rows, Engine!rows, Rows, Engine!Rows
<1>1. ASSUME NEW a \in AppNames, CreateApp(a) \/ DeleteApp(a)
      PROVE  Engine!CreateApp(a) \/ Engine!DeleteApp(a)
  BY <1>1 DEF CreateApp, Engine!CreateApp, DeleteApp, Engine!DeleteApp, Deletable,
     Engine!Deletable
<1>2. ASSUME NEW p \in Procs, NEW a \in AppNames, StopBegin(p, a) PROVE Engine!StopBegin(p, a)
  BY <1>2 DEF StopBegin, Engine!StopBegin, Newest, Engine!Newest
<1>3. ASSUME NEW p \in Procs, Misbehave(p) PROVE Engine!Misbehave(p)
  BY <1>3 DEF Misbehave, Engine!Misbehave, Up, Engine!Up, SetContainer, Engine!SetContainer
<1>4. ASSUME NEW d \in Ids, OutOfBand(d) PROVE Engine!OutOfBand(d)
  BY <1>4 DEF OutOfBand, Engine!OutOfBand, SetContainer, Engine!SetContainer
<1> QED BY <1>1, <1>2, <1>3, <1>4, StepMaps, BeginMaps, CrashMaps
        DEF UserNext, EngineStep, Engine!Next

LEMMA MarkMaps ==
    ASSUME NEW j \in Janitors, NEW d \in Ids, Mark(j, d)
    PROVE  Engine!ReconcileMark(d) \/ UNCHANGED vars
<1>1. /\ UNCHANGED <<apps, owner, recorded, seq, ctr, procVars>>
      /\ FailRow(d) \/ UNCHANGED status
  BY DEF Mark
<1> QED BY <1>1 DEF FailRow, Engine!ReconcileMark, Open, Engine!Open, InProgress, Engine!InProgress,
        SetStatus, Engine!SetStatus, procVars, Engine!procVars, vars

LEMMA PruneMaps ==
    ASSUME TypeOK, NEW j \in Janitors, NEW d \in Ids, Prune(j, d)
    PROVE  Engine!OutOfBand(d) \/ UNCHANGED vars
<1>1. UNCHANGED <<rows, procVars>> BY DEF Prune
<1>2. CASE ctr[d] # "absent" /\ SetContainer(d, "absent")
  BY <1>1, <1>2 DEF Engine!OutOfBand, SetContainer, Engine!SetContainer, rows, Engine!rows,
     procVars, Engine!procVars
<1>3. CASE ctr[d] = "absent" /\ SetContainer(d, "absent")
  <2>1. ctr' = ctr BY <1>3 DEF SetContainer, TypeOK
  <2> QED BY <1>1, <2>1 DEF vars, rows, procVars
<1>4. CASE UNCHANGED ctr BY <1>1, <1>4 DEF vars, rows, procVars
<1> QED BY <1>2, <1>3, <1>4 DEF Prune

LEMMA ReconcileMaps == RInv /\ [ReconcileNext]_allVars => [Engine!Next]_(Engine!vars)
<1> SUFFICES ASSUME RInv, [ReconcileNext]_allVars PROVE [Engine!Next]_(Engine!vars) OBVIOUS
<1>v. UNCHANGED vars => UNCHANGED Engine!vars BY DEF vars, Engine!vars
<1>1. CASE UserNext BY <1>1, UserMaps
<1>2. CASE \E d \in Ids : Age(d) BY <1>2, <1>v DEF Age
<1>3. ASSUME NEW j \in Janitors, JanitorNext(j) PROVE [Engine!Next]_(Engine!vars)
  <2>1. CASE Thinks(j) BY <2>1, <1>v, ThinkingIsQuiet
  <2>2. CASE CrashRedeploy(j)
    BY <2>2, CrashMaps, ReconcileAssumption DEF CrashRedeploy, Engine!Next
  <2>3. CASE \E a \in AppNames : Redeploy(j, a)
    BY <2>3, BeginMaps, ReconcileAssumption DEF Redeploy, Engine!Next
  <2>4. CASE \E d \in Ids : Mark(j, d) \/ Prune(j, d)
    <3>1. TypeOK BY DEF RInv, IInv
    <3> QED BY <2>4, <3>1, <1>v, MarkMaps, PruneMaps DEF Engine!Next
  <2> QED BY <1>3, <2>1, <2>2, <2>3, <2>4, JanitorSteps
<1>4. CASE UNCHANGED allVars BY <1>4, <1>v DEF allVars
<1> QED BY <1>1, <1>2, <1>3, <1>4 DEF ReconcileNext

(* All a reconcile does is what DeployEngine allows under the faults       *)
(* "mark" and "outOfBand", whatever else goes wrong beside it.             *)
THEOREM ReconcileImplementsEngine == ReconcileSpec => ImplementsEngine
<1>1. ReconcileInit => Engine!Init BY DEF ReconcileInit, Init, Engine!Init
<1>2. RInv /\ [ReconcileNext]_allVars => [Engine!Next]_(Engine!vars) BY ReconcileMaps
<1> QED BY <1>1, <1>2, ReconcileInvariant, PTL DEF ReconcileSpec, ImplementsEngine, Engine!Spec

-----------------------------------------------------------------------------
(* What is pruned, whoever disturbs. *)

(* While a reconcile reads the rows, every container it has listed whose   *)
(* deployment is open has its id stored.                                   *)
ListedAreStored ==
    \A j \in Janitors : rpc[j] = "scan" => \A d \in plan[j].names : Open(d) => recorded[d]

(* The rows a reconcile could not mark are not open: they were gone or     *)
(* final, and no write of it has thrown before it was done.                *)
MarksHold == \A j \in Janitors : \A d \in plan[j].unmarked : ~Open(d)

(* A container is made for a row that has been made. *)
Made == \A d \in Ids : ctr[d] # "absent" => status[d] # "none"

(* A listed container of an app that has been scanned is kept, or its row  *)
(* is closed or about to be: so what is left to prune belongs to closed    *)
(* rows.                                                                   *)
Sees(j) ==
    LET p == plan[j]
    IN  /\ rpc[j] = "list" => p.names = {}
        /\ \A d \in p.names : status[d] # "none"
        /\ rpc[j] = "states" => \A d \in p.todo : status[d] # "none"
        /\ rpc[j] = "scan" => \A d \in p.names : status[d] \in Closed \/ owner[d] \in p.left \/ d \in p.kept \union Bad(j)
        /\ rpc[j] = "mark" => \A d \in p.names : status[d] \in Closed \/ d \in p.kept \union Bad(j)
        /\ rpc[j] = "prune" => \A d \in p.todo : status[d] \in Closed

PInv == RInv /\ Made /\ \A j \in Janitors : Sees(j)

(* Who made a container, and whose app a row is. *)
LEMMA EngineMade ==
    ASSUME IInv, Made, [Next]_vars
    PROVE  Made'
<1>t. TypeOK /\ Onward BY EngineKeeps DEF IInv
<1>1. ASSUME NEW d \in Ids, ctr'[d] # ctr[d] PROVE status[d] # "none"
  <2>1. ASSUME NEW p \in Procs, Step(p) PROVE status[d] # "none"
    <3>1. CASE d \in todo[p] BY <3>1 DEF IInv, HasRun, Closed, Final
    <3>2. CASE AtRow(p) /\ d = work[p]
      BY <3>2 DEF IInv, InStep, Allowed, Closed, Final, InProgress, Unlogged
    <3> QED BY <1>1, <1>t, <2>1, <3>1, <3>2, StepTouches DEF Watches, Bare, Holding, Stopping, AtRow
  <2>2. ASSUME NEW p \in Procs, Misbehave(p) PROVE status[d] # "none"
    <3>1. AtRow(p) /\ d = work[p] BY <1>1, <1>t, <2>2 DEF Misbehave, SetContainer, TypeOK, AtRow
    <3> QED BY <3>1 DEF IInv, InStep, Allowed, Closed, Final, InProgress, Unlogged
  <2>3. ASSUME NEW e \in Ids, OutOfBand(e) PROVE status[d] # "none"
    BY <1>1, <1>t, <2>3 DEF OutOfBand, SetContainer, TypeOK, Made
  <2> QED BY <1>1, <2>1, <2>2, <2>3
          DEF Next, vars, CreateApp, DeleteApp, DeployBegin, StopBegin, Crash, ReconcileMark
<1> QED BY <1>1, <1>t DEF Made, Onward

LEMMA OwnersStay ==
    ASSUME IInv, [Next]_vars, NEW d \in Ids, status[d] # "none"
    PROVE  owner'[d] = owner[d]
<1>1. ASSUME NEW p \in Procs, Insert(p) PROVE owner'[d] = owner[d]
  BY <1>1, InsertRow
<1>2. ASSUME NEW p \in Procs, Step(p) PROVE owner'[d] = owner[d]
  BY <1>1, <1>2, StepOne DEF OneStep
<1> QED BY <1>1, <1>2
        DEF Next, vars, rows, CreateApp, DeleteApp, DeployBegin, StopBegin, Crash, Misbehave,
            OutOfBand, ReconcileMark

LEMMA RecordsStay ==
    ASSUME IInv, Made, [ReconcileNext]_allVars
    PROVE  Made' /\ \A d \in Ids : status[d] # "none" => owner'[d] = owner[d]
<1>t. TypeOK /\ Onward BY RecordsKeep DEF IInv
<1>0. CASE [Next]_vars BY <1>0, EngineMade, OwnersStay
<1>1. CASE UserNext BY <1>1, <1>0, UserIsEngine
<1>2. CASE \E d \in Ids : Age(d) BY <1>2, <1>0 DEF Age
<1>3. ASSUME NEW j \in Janitors, Thinks(j) PROVE [Next]_vars BY <1>3, ThinkingIsQuiet
<1>4. ASSUME NEW j \in Janitors, CrashRedeploy(j) \/ \E a \in AppNames : Redeploy(j, a) PROVE [Next]_vars
  BY <1>4, ReconcileAssumption DEF CrashRedeploy, Redeploy, Next
<1>5. ASSUME NEW j \in Janitors, NEW d \in Ids, Mark(j, d)
      PROVE  Made' /\ \A e \in Ids : owner'[e] = owner[e]
  BY <1>5, <1>t, MarkDoes DEF Made, Onward
<1>6. ASSUME NEW j \in Janitors, NEW d \in Ids, Prune(j, d)
      PROVE  Made' /\ \A e \in Ids : owner'[e] = owner[e]
  <2>1. \A e \in Ids : ctr'[e] = ctr[e] \/ ctr'[e] = "absent"
    BY <1>6, <1>t DEF Prune, SetContainer, TypeOK
  <2> QED BY <1>6, <2>1 DEF Prune, Made, rows
<1>7. CASE UNCHANGED allVars BY <1>7, <1>0 DEF allVars
<1> QED BY <1>0, <1>1, <1>2, <1>3, <1>4, <1>5, <1>6, <1>7, JanitorSteps DEF ReconcileNext

(* Whoever moves the rows leaves it with what it sees. *)
LEMMA SeesStays ==
    ASSUME ReconcileTypeOK, Onward, NEW j \in Janitors, Sees(j), plan'[j] = plan[j], rpc'[j] = rpc[j],
           \A d \in Ids : status[d] # "none" => owner'[d] = owner[d]
    PROVE  Sees(j)'
<1>1. plan[j].names \subseteq Ids /\ plan[j].todo \subseteq Ids BY DEF ReconcileTypeOK, Plans
<1>2. Bad(j)' = Bad(j) BY DEF Bad
<1> QED BY <1>1, <1>2 DEF Sees, Onward

LEMMA SeesScan ==
    ASSUME ReconcileTypeOK, ListedAreStored, NEW j \in Janitors, NEW a \in AppNames, Sees(j), ScanApp(j, a)
    PROVE  Sees(j)'
<1> DEFINE p == plan[j]
           L == {d \in Ids : owner[d] = a /\ Lost(d, p.up)}
           S == {d \in Ids : owner[d] = a /\ Stuck(d)}
           K == {d \in Ids : owner[d] = a /\ Kept(d, p.up)}
<1>1. rpc[j] = "scan" /\ rpc'[j] = "scan" /\ UNCHANGED <<owner, status>>
  BY DEF ScanApp, ReadOnly, Enter, ReconcileTypeOK, vars
<1>2. /\ plan'[j].left = p.left \ {a} /\ plan'[j].names = p.names
      /\ plan'[j].lost = p.lost \union L /\ plan'[j].stuck = p.stuck \union S
      /\ plan'[j].kept = p.kept \union K
  BY ZenonT(40) DEF ScanApp, ReconcileTypeOK, Plans
<1>3. Bad(j)' = Bad(j) \union L \union S BY <1>2 DEF Bad
<1>4. \A d \in p.names : d \in Ids /\ status[d] \in Statuses \union {"deleted"}
  BY DEF Sees, ReconcileTypeOK, TypeOK, Plans
<1>5. ASSUME NEW d \in p.names, owner[d] = a PROVE status[d] \in Closed \/ d \in K \union L \union S
  <2>1. Open(d) \/ status[d] \in Closed BY <1>4 DEF Open, Closed, Statuses
  <2>2. Open(d) => recorded[d] BY <1>1 DEF ListedAreStored
  <2> QED BY <1>4, <1>5, <2>1, <2>2 DEF Kept
<1>6. \A d \in p.names : status[d] \in Closed \/ owner[d] \in p.left \/ d \in p.kept \union Bad(j)
  BY <1>1 DEF Sees
<1>7. \A d \in p.names : \/ status[d] \in Closed \/ owner[d] \in p.left \ {a}
                         \/ d \in (p.kept \union K) \union (Bad(j) \union L \union S)
  BY <1>5, <1>6
<1>8. \A d \in p.names : status[d] # "none" BY DEF Sees
<1> HIDE DEF L, S, K
<1> QED BY <1>1, <1>2, <1>3, <1>7, <1>8 DEF Sees

LEMMA SeesInspect ==
    ASSUME ReconcileTypeOK, NEW j \in Janitors, NEW d \in Ids, Sees(j), Inspect(j, d)
    PROVE  Sees(j)'
<1> DEFINE p == plan[j]
<1>1. rpc[j] = "states" /\ rpc'[j] = "states" /\ UNCHANGED status /\ d \in p.todo
  BY DEF Inspect, Newest, ReadOnly, Enter, ReconcileTypeOK, vars
<1>2. /\ plan'[j].todo = p.todo \ {d}
      /\ plan'[j].names = IF ctr[d] = "absent" THEN p.names ELSE p.names \union {d}
  BY DEF Inspect, ReconcileTypeOK, Plans
<1>3. (\A e \in p.names : status[e] # "none") /\ (\A e \in p.todo : status[e] # "none")
  BY <1>1 DEF Sees
<1> QED BY <1>1, <1>2, <1>3 DEF Sees

LEMMA SeesThinks ==
    ASSUME PInv, ListedAreStored, MarksHold, NEW j \in Janitors, Thinks(j)
    PROVE  Sees(j)'
<1> DEFINE p == plan[j]
<1>t. /\ ReconcileTypeOK /\ TypeOK /\ Owned /\ Made /\ Broken(j) /\ Sees(j) /\ p \in Plans
      /\ plan \in [Janitors -> Plans] /\ rpc \in [Janitors -> Phases]
  BY DEF PInv, RInv, ReconcileTypeOK
<1>u. UNCHANGED <<apps, owner, status, ctr>> BY ThinkingIsQuiet DEF vars
<1>p. /\ p.names \subseteq Ids /\ p.todo \subseteq Ids /\ \A d \in p.names : status[d] # "none"
      /\ p.kept \subseteq Ids /\ p.lost \subseteq Ids /\ p.stuck \subseteq Ids
  BY <1>t DEF Plans, Sees
<1>f. CASE Finish(j)
  <2>1. rpc'[j] = "idle" /\ plan'[j].names = {} BY <1>f, <1>t DEF Finish, NoPlan
  <2> QED BY <2>1 DEF Sees
<1>1. CASE \E options \in Options : ReconcileBegin(j, options)
  <2>1. plan'[j].names = {} /\ rpc'[j] = "list"
    BY <1>1, <1>t DEF ReconcileBegin, Enter, Broken, NoPlan
  <2> QED BY <2>1 DEF Sees
<1>2. CASE ListNames(j)
  <2>1. /\ plan'[j].names = p.names /\ plan'[j].todo = {d \in Ids : ctr[d] # "absent"}
        /\ rpc'[j] = "states"
    BY <1>2, <1>t DEF ListNames, ReadOnly, Enter, Plans
  <2> QED BY <1>t, <1>u, <1>p, <2>1 DEF Sees, Made
<1>3. CASE Listed(j)
  <2>1. plan'[j].names = p.names /\ plan'[j].left = apps /\ rpc'[j] = "scan"
    BY <1>3, <1>t DEF Listed, ReadOnly, Enter, Plans
  <2>2. \A d \in p.names : status[d] \in Closed \/ owner[d] \in apps
    BY <1>t, <1>p DEF Owned, TypeOK, Closed
  <2> QED BY <1>u, <1>p, <2>1, <2>2 DEF Sees
<1>4. CASE Planned(j)
  <2>1. /\ plan'[j].names = p.names /\ plan'[j].kept = p.kept /\ Bad(j)' = Bad(j)
        /\ rpc[j] = "scan" /\ p.left = {} /\ rpc'[j] = "mark"
    BY <1>4, <1>t DEF Planned, ReadOnly, Enter, Plans, Bad
  <2>2. \A d \in p.names : status[d] \in Closed \/ d \in p.kept \union Bad(j)
    BY <1>t, <2>1 DEF Sees
  <2> QED BY <1>u, <1>p, <2>1, <2>2 DEF Sees
<1>5. CASE Marked(j)
  <2>1. /\ plan'[j].names = p.names /\ rpc[j] = "mark" /\ p.todo = {} /\ rpc'[j] = "prune"
        /\ plan'[j].todo \subseteq p.names \ p.kept
    BY <1>5, <1>t DEF Marked, ReadOnly, Enter, Plans, Orphans
  <2>2. \A d \in Bad(j) : status[d] \in Closed
    BY <1>t, <1>p, <2>1 DEF Broken, MarksHold, Bad, Open, Closed, TypeOK, Statuses
  <2>3. \A d \in p.names : status[d] \in Closed \/ d \in p.kept \union Bad(j)
    BY <1>t, <2>1 DEF Sees
  <2> QED BY <1>u, <1>p, <2>1, <2>2, <2>3 DEF Sees
<1>6. CASE Pruned(j) \/ \E a \in AppNames : Skip(j, a)
  <2>1. plan'[j].names \subseteq p.names /\ rpc'[j] = "redeploy"
    BY <1>6, <1>t DEF Pruned, Skip, Due, ReadOnly, Enter, Plans
  <2> QED BY <1>u, <1>p, <2>1 DEF Sees
<1> QED BY <1>f, <1>t, <1>1, <1>2, <1>3, <1>4, <1>5, <1>6, SeesScan, SeesInspect
        DEF Thinks, Done, Abort, ScanFails, RedeployFails

LEMMA NextPInv == PInv /\ ListedAreStored /\ MarksHold /\ [ReconcileNext]_allVars => PInv'
<1> SUFFICES ASSUME PInv, ListedAreStored, MarksHold, [ReconcileNext]_allVars PROVE PInv' OBVIOUS
<1>t. RInv /\ ReconcileTypeOK /\ IInv /\ TypeOK /\ Made BY DEF PInv, RInv, IInv
<1>1. RInv' BY <1>t, NextRInv
<1>2. Onward BY <1>t, RecordsKeep
<1>3. Made' /\ \A d \in Ids : status[d] # "none" => owner'[d] = owner[d] BY <1>t, RecordsStay
<1>4. ASSUME NEW j \in Janitors PROVE Sees(j)'
  <2>t. Sees(j) /\ plan[j] \in Plans /\ plan \in [Janitors -> Plans] BY <1>t DEF PInv, ReconcileTypeOK
  <2>1. CASE plan'[j] = plan[j] /\ rpc'[j] = rpc[j] BY <2>1, <2>t, <1>t, <1>2, <1>3, SeesStays
  <2>2. CASE Elsewhere \/ (\E d \in Ids : Age(d)) \/ UNCHANGED allVars
    BY <2>2, <2>1, <1>t, ElsewhereStays
  <2>3. ASSUME NEW k \in Janitors, JanitorNext(k), k # j PROVE Sees(j)'
    BY <2>3, <2>1, <1>t, OthersStay
  <2>p. plan[j].names \subseteq Ids /\ plan[j].todo \subseteq Ids BY <2>t DEF Plans
  <2>4. CASE JanitorNext(j)
    <3>1. CASE Thinks(j) BY <3>1, SeesThinks
    <3>2. CASE CrashRedeploy(j)
      <4>1. rpc'[j] = "idle" /\ plan'[j].names = {} BY <3>2, <1>t DEF CrashRedeploy, ReconcileTypeOK, NoPlan
      <4> QED BY <4>1 DEF Sees
    <3>3. ASSUME NEW a \in AppNames, Redeploy(j, a) PROVE Sees(j)'
      <4>1. rpc'[j] = "redeploy" /\ plan'[j].names = plan[j].names
        BY <3>3, <1>t DEF Redeploy, Due, ReconcileTypeOK, Plans
      <4> QED BY <1>2, <2>t, <2>p, <4>1 DEF Sees, Onward
    <3>4. ASSUME NEW d \in Ids, Mark(j, d) PROVE Sees(j)'
      <4>1. /\ rpc'[j] = "mark" /\ rpc[j] = "mark" /\ plan'[j].names = plan[j].names
            /\ plan'[j].kept = plan[j].kept /\ Bad(j)' = Bad(j)
        BY <3>4, <1>t, MarkPlan DEF Bad
      <4> QED BY <1>2, <2>t, <2>p, <4>1 DEF Sees, Onward
    <3>5. ASSUME NEW d \in Ids, Prune(j, d) PROVE Sees(j)'
      <4>1. /\ rpc'[j] = "prune" /\ rpc[j] = "prune" /\ plan'[j].names = plan[j].names
            /\ plan'[j].todo = plan[j].todo \ {d}
        BY <3>5, <1>t DEF Prune, ReconcileTypeOK, Plans
      <4> QED BY <1>2, <2>t, <2>p, <4>1 DEF Sees, Onward
    <3> QED BY <2>4, <3>1, <3>2, <3>3, <3>4, <3>5, JanitorSteps
  <2> QED BY <2>2, <2>3, <2>4 DEF ReconcileNext
<1> QED BY <1>1, <1>3, <1>4 DEF PInv

(* Whoever deploys, stops or reconciles at the same time and whatever      *)
(* fails, no container of an open deployment is pruned if, when the rows   *)
(* are read, the open ones among the listed have stored their ids, and no  *)
(* write of the reconcile throws before it is done: the moment between the *)
(* creation of a container and the storing of its id (engine.ts:171) is    *)
(* the only one at which planReconcile takes a live deployment's container *)
(* for an orphan (reconcile.ts:135), and a row that could not be failed    *)
(* the only other one whose container goes (reconcile.ts:180).             *)
THEOREM PrunesNoLiveOnceStored ==
    ReconcileSpec /\ []ListedAreStored /\ []MarksHold => PrunesNoLiveDeployment
<1>1. ReconcileInit => PInv
  <2> SUFFICES ASSUME ReconcileInit PROVE PInv OBVIOUS
  <2>1. Made BY DEF ReconcileInit, Init, Made
  <2>2. \A j \in Janitors : Sees(j) BY DEF ReconcileInit, Sees, NoPlan
  <2> QED BY <2>1, <2>2, InitRInv DEF PInv
<1>2. PInv /\ ListedAreStored /\ MarksHold /\ [ReconcileNext]_allVars => PInv' BY NextPInv
<1>3. ASSUME PInv, NEW j \in Janitors, NEW d \in Ids, Prune(j, d) PROVE ~Open(d)
  BY <1>3 DEF PInv, Sees, Prune, Open, Closed, Final, InProgress
<1>4. PInv => [\A j \in Janitors, d \in Ids : Prune(j, d) /\ ctr'[d] # ctr[d] => ~Open(d)]_allVars
  BY <1>3
<1> QED BY <1>1, <1>2, <1>4, PTL DEF ReconcileSpec, PrunesNoLiveDeployment

-----------------------------------------------------------------------------
(* What is deployed again. *)

(* Nobody else is about to end, in order, a deployment that a reconcile    *)
(* has found without its container and that is open.                       *)
NobodyElseEnds ==
    \A j \in Janitors : \A d \in plan[j].lost : \A p \in Procs \ {j} :
        Open(d) => /\ pc[p] = "stopped" => work[p] # d
                   /\ pc[p] = "replaced" => d \notin todo[p]

(* A janitor is at work on a deployment of its own only while it deploys   *)
(* apps again, and then on an app it has done with.                        *)
Own(j) ==
    /\ pc[j] # "idle" => rpc[j] = "redeploy" /\ pc[j] \notin Stopping
    /\ pc[j] = "insert" => wants[j] \notin plan[j].left
    /\ AtRow(j) => owner[work[j]] \notin plan[j].left
    /\ \A d \in todo[j] : AtRow(j) /\ owner[d] = owner[work[j]]

(* What it has found without its container runs, or has failed. *)
LostFailed(j) ==
    \A d \in plan[j].lost :
        status[d] \in {"running", "failed", "deleted"} \/ (rpc[j] = "redeploy" /\ owner[d] \notin plan[j].left)

FInv == RInv /\ \A j \in Janitors : Own(j) /\ LostFailed(j)

(* How a step of the engine leaves what a janitor is at. *)
LEMMA OwnInsert ==
    ASSUME IInv, NEW p \in Procs, Insert(p), NEW j \in Janitors, j \in Procs, Own(j),
           rpc'[j] = rpc[j], plan'[j] = plan[j]
    PROVE  Own(j)'
<1>1. /\ seq \in Ids /\ status[seq] = "none" /\ pc[p] = "insert"
      /\ \A d \in Ids : owner'[d] = IF d = seq THEN wants[p] ELSE owner[d]
      /\ Others(p) /\ todo'[p] \subseteq todo[p]
      /\ \/ pc'[p] = "pending" /\ work'[p] = seq
         \/ pc'[p] = "idle"
  BY InsertRow
<1>2. CASE p = j
  <2>1. todo'[j] = {} BY <1>1, <1>2 DEF Own, AtRow
  <2> QED BY <1>1, <1>2, <2>1 DEF Own, AtRow, Stopping
<1>3. CASE p # j
  <2>1. AtRow(j) => owner'[work[j]] = owner[work[j]] BY <1>1 DEF IInv, Busy
  <2>2. \A d \in todo[j] : owner'[d] = owner[d]
    BY <1>1 DEF IInv, HasRun, TypeOK, Closed, Final
  <2> QED BY <1>1, <1>3, <2>1, <2>2 DEF Others, Own, AtRow
<1> QED BY <1>2, <1>3

LEMMA OwnStep ==
    ASSUME IInv, NEW p \in Procs, Step(p), NEW j \in Janitors, j \in Procs, Own(j),
           rpc'[j] = rpc[j], plan'[j] = plan[j]
    PROVE  Own(j)'
<1>0. CASE Insert(p) BY <1>0, OwnInsert
<1>t. CASE ~Insert(p)
  <2>t. TypeOK /\ OneStep(p) /\ owner' = owner BY <1>t, StepOne DEF IInv, OneStep
  <2>1. CASE p # j BY <2>1, <2>t DEF OneStep, Others, Own, AtRow
  <2>2. CASE p = j
    <3>1. pc[j] # "idle" /\ pc[j] \notin Stopping
      <4>1. pc[j] # "idle"
        BY <2>2, <1>t
        DEF Step, NotInserted, SetPulling, WriteFails, Written, Pulled, Created, RecordStarting, Started,
            Probe, Verdict, Reap, Reaped, NotFound, CallFails, ForceRemove, GiveUp, Promote, HookDone,
            HookFails, StopPrevious, RemovePrevious, Replaced, StopContainer, RemoveContainer, Stopped
      <4> QED BY <4>1 DEF Own
    <3>2. CASE pc'[j] = "idle"
      <4>1. todo'[j] = {}
        BY <2>2, <1>t, <2>t, <3>1, <3>2
        DEF Step, NotInserted, SetPulling, WriteFails, Pulled, Created, RecordStarting, Started, Probe,
            Verdict, Reap, Reaped, NotFound, CallFails, ForceRemove, GiveUp, Promote, HookDone, HookFails,
            StopPrevious, RemovePrevious, Replaced, StopContainer, RemoveContainer, Stopped, Goto, Return,
            StartReplacing, CatchAt, TypeOK, Stopping
      <4> QED BY <3>2, <4>1 DEF Own, AtRow
    <3>3. CASE pc'[j] # "idle"
      <4>1. work'[j] = work[j] /\ AtRow(j) /\ AtRow(j)' BY <2>2, <2>t, <3>3 DEF OneStep, Onwards
      <4>2. pc'[j] \notin Stopping /\ todo'[j] \subseteq todo[j] \union PreviousOf(work[j])
        BY <2>2, <1>t, <2>t, <3>1, <3>3
        DEF Step, NotInserted, SetPulling, WriteFails, Pulled, Created, RecordStarting, Started, Probe,
            Verdict, Reap, Reaped, NotFound, CallFails, ForceRemove, GiveUp, Promote, HookDone, HookFails,
            StopPrevious, RemovePrevious, Replaced, StopContainer, RemoveContainer, Stopped, Goto, Return,
            StartReplacing, CatchAt, TypeOK, Stopping
      <4>3. \A d \in PreviousOf(work[j]) : owner[d] = owner[work[j]] BY DEF PreviousOf, Rows
      <4> QED BY <2>t, <3>1, <3>3, <4>1, <4>2, <4>3 DEF Own, AtRow
    <3> QED BY <3>2, <3>3
  <2> QED BY <2>1, <2>2
<1> QED BY <1>0, <1>t

(* Only a stop and a replacement end a deployment in order. *)
LEMMA StepEnds ==
    ASSUME IInv, NEW p \in Procs, Step(p), NEW d \in Ids,
           status[d] # status'[d], status'[d] \in {"stopped", "replaced"}
    PROVE  /\ Open(d)
           /\ \/ pc[p] = "stopped" /\ d = work[p]
              \/ pc[p] = "replaced" /\ d \in todo[p]
<1>t. TypeOK BY DEF IInv
<1>0. CASE Insert(p)
  <2>1. status'[d] = "pending" \/ status'[d] = status[d] BY <1>0, InsertRow
  <2> QED BY <2>1
<1>1. CASE Reaped(p) \/ GiveUp(p) \/ Promote(p) \/ RecordStarting(p) \/ SetPulling(p)
  <2>1. \/ status' = status
        \/ \E s \in {"running", "starting", "failed", "pulling"} : status' = [status EXCEPT ![work[p]] = s]
    BY <1>1 DEF Reaped, GiveUp, Promote, RecordStarting, SetPulling, SetStatus, MarkFailed, rows
  <2> QED BY <1>t, <2>1 DEF TypeOK
<1>2. CASE Replaced(p)
  <2>1. PICK e \in todo[p] : status' = status \/ (Open(e) /\ status' = [status EXCEPT ![e] = "replaced"])
    BY <1>2 DEF Replaced, SetStatus
  <2> QED BY <1>2, <1>t, <2>1 DEF TypeOK, Replaced
<1>3. CASE Stopped(p) BY <1>3, <1>t DEF Stopped, TypeOK
<1>4. CASE WriteFails(p)
  <2>1. status' # status OBVIOUS
  <2>2. PICK e \in Ids : /\ IF pc[p] = "replaced" THEN Newest(e, todo[p]) ELSE e = work[p]
                         /\ Open(e) /\ SetStatus(e, Written[pc[p]])
    BY <1>4, <2>1 DEF WriteFails
  <2>3. e = d /\ Written[pc[p]] \in {"stopped", "replaced"} BY <1>t, <2>2 DEF SetStatus, TypeOK
  <2>4. pc[p] \in DOMAIN Written BY <1>4 DEF WriteFails
  <2>5. pc[p] \in {"stopped", "replaced"} BY <2>3, <2>4 DEF Written
  <2> QED BY <2>2, <2>3, <2>5 DEF Newest
<1>5. CASE ~(\/ Insert(p) \/ Reaped(p) \/ GiveUp(p) \/ Promote(p) \/ RecordStarting(p)
             \/ SetPulling(p) \/ Replaced(p) \/ Stopped(p) \/ WriteFails(p))
  <2>1. status' = status
    BY <1>5 DEF Step, NotInserted, Pulled, Created, Started, Probe, Verdict, Reap, NotFound, CallFails,
                ForceRemove, HookDone, HookFails, StopPrevious, RemovePrevious, StopContainer,
                RemoveContainer, rows
  <2> QED BY <2>1
<1> QED BY <1>0, <1>1, <1>2, <1>3, <1>4, <1>5

(* Other engine steps end nothing in order, and leave a janitor alone that *)
(* does not move.                                                          *)
LEMMA AroundEnds ==
    ASSUME IInv, [Next]_vars, \A p \in Procs : ~Step(p), NEW d \in Ids, status[d] # "none",
           status'[d] # status[d]
    PROVE  status'[d] \notin {"stopped", "replaced", "running"}
<1>t. TypeOK BY DEF IInv
<1>2. ASSUME NEW a \in AppNames, DeleteApp(a) PROVE status'[d] = "deleted" BY <1>2, DeleteMove
<1>3. ASSUME NEW e \in Ids, ReconcileMark(e) PROVE status'[d] = "failed"
  BY <1>3, <1>t DEF ReconcileMark, SetStatus, TypeOK
<1> QED BY <1>2, <1>3
        DEF Next, vars, rows, CreateApp, DeployBegin, StopBegin, Crash, Misbehave, OutOfBand

LEMMA OwnFrame ==
    ASSUME IInv, NEW j \in Janitors, Own(j),
           pc'[j] = pc[j], work'[j] = work[j], todo'[j] = todo[j], wants'[j] = wants[j],
           rpc'[j] = rpc[j],
           plan'[j].left \subseteq plan[j].left,
           \A d \in Ids : status[d] # "none" => owner'[d] = owner[d]
    PROVE  Own(j)'
<1>j. j \in Procs BY ReconcileAssumption
<1>1. AtRow(j) => owner'[work[j]] = owner[work[j]]
  BY <1>j DEF IInv, Busy, Numbered, InStep, Allowed, Closed, Final, InProgress, Unlogged
<1>2. \A d \in todo[j] : owner'[d] = owner[d]
  BY <1>j DEF IInv, HasRun, TypeOK, Closed, Final
<1> QED BY <1>1, <1>2 DEF Own, AtRow

(* Nobody but the janitor itself moves it. *)
Still(j) == pc'[j] = pc[j] /\ work'[j] = work[j] /\ todo'[j] = todo[j] /\ wants'[j] = wants[j]

LEMMA LeftAlone ==
    ASSUME IInv, NEW j \in Janitors, [Next]_vars, ~Step(j), ~Crash(j),
           \A a \in AppNames : ~DeployBegin(j, a) /\ ~StopBegin(j, a)
    PROVE  Still(j)
<1>t. TypeOK /\ j \in Procs BY ReconcileAssumption DEF IInv
<1>1. ASSUME NEW p \in Procs, Step(p) PROVE Still(j)
  BY <1>1, <1>t, StepOne, InsertRow DEF OneStep, Others, Still
<1>2. ASSUME NEW p \in Procs, NEW a \in AppNames, p # j, DeployBegin(p, a) \/ StopBegin(p, a)
      PROVE  Still(j)
  BY <1>2, <1>t DEF DeployBegin, StopBegin, TypeOK, Still
<1>3. ASSUME NEW p \in Procs, p # j, Crash(p)
      PROVE  Still(j)
  BY <1>3, <1>t DEF Crash, Return, TypeOK, Still
<1> QED BY <1>1, <1>2, <1>3
        DEF Next, vars, procVars, CreateApp, DeleteApp, Misbehave, OutOfBand, ReconcileMark, Still

LEMMA OwnThinks ==
    ASSUME RInv, NEW j \in Janitors, Own(j), Thinks(j)
    PROVE  Own(j)'
<1>1. pc[j] = "idle" BY DEF Own, Thinks, ReconcileBegin, ListNames, Listed, Planned, Marked, Pruned, Done, Abort,
                            ScanApp, ScanFails, Skip, Due, RedeployFails, Inspect
<1>2. UNCHANGED <<pc, todo>> BY ThinkingIsQuiet DEF vars
<1> QED BY <1>1, <1>2 DEF Own, AtRow

LEMMA OwnRedeploy ==
    ASSUME RInv, NEW j \in Janitors, Own(j), NEW a \in AppNames, Redeploy(j, a)
    PROVE  Own(j)'
<1>t. IInv /\ TypeOK /\ ReconcileTypeOK /\ j \in Procs BY ReconcileAssumption DEF RInv, IInv
<1>1. /\ pc[j] = "idle" /\ pc'[j] = "insert" /\ wants'[j] = a /\ todo'[j] = todo[j]
  BY <1>t DEF Redeploy, DeployBegin, TypeOK
<1>2. rpc'[j] = "redeploy" /\ plan'[j].left = plan[j].left \ {a}
  BY <1>t DEF Redeploy, Due, ReconcileTypeOK, Plans
<1>3. todo[j] = {} BY <1>1 DEF Own, AtRow
<1> QED BY <1>1, <1>2, <1>3 DEF Own, Stopping, AtRow

LEMMA NextOwn ==
    ASSUME RInv, NEW j \in Janitors, Own(j), [ReconcileNext]_allVars
    PROVE  Own(j)'
<1>t. /\ IInv /\ TypeOK /\ ReconcileTypeOK /\ j \in Procs
      /\ plan \in [Janitors -> Plans] /\ rpc \in [Janitors -> Phases]
  BY ReconcileAssumption DEF RInv, IInv, ReconcileTypeOK
<1>o. ASSUME [Next]_vars PROVE \A d \in Ids : status[d] # "none" => owner'[d] = owner[d]
  BY <1>o, <1>t, OwnersStay
<1>i. ASSUME Crash(j) PROVE Own(j)' BY <1>i, <1>t DEF Crash, Return, TypeOK, Own, AtRow
<1>s. ASSUME plan'[j] = plan[j], rpc'[j] = rpc[j], [Next]_vars,
             \A a \in AppNames : ~DeployBegin(j, a) /\ ~StopBegin(j, a)
      PROVE  Own(j)'
  <2>1. CASE Step(j) BY <1>s, <1>t, <2>1, OwnStep
  <2>2. CASE ~Step(j) /\ ~Crash(j)
    <3>1. Still(j) BY <1>s, <1>t, <2>2, LeftAlone
    <3> QED BY <1>s, <1>o, <1>t, <3>1, OwnFrame DEF Still
  <2> QED BY <1>i, <2>1, <2>2
<1>b. ASSUME NEW a \in AppNames, NEW b \in AppNames, NEW p \in Procs, p # j, DeployBegin(p, a) \/ StopBegin(p, a)
      PROVE  ~DeployBegin(j, b) /\ ~StopBegin(j, b)
  BY <1>b, <1>t DEF DeployBegin, StopBegin, TypeOK
<1>v. ASSUME UNCHANGED vars, plan'[j] = plan[j], rpc'[j] = rpc[j] PROVE Own(j)'
  BY <1>v DEF vars, Own, AtRow
<1>p. ASSUME UNCHANGED <<owner, pc, work, todo, wants>>, plan'[j].left = plan[j].left, rpc'[j] = rpc[j]
      PROVE  Own(j)'
  BY <1>p DEF Own, AtRow
<1>1. CASE UserNext /\ Elsewhere
  <2>1. plan'[j] = plan[j] /\ rpc'[j] = rpc[j] /\ Next BY <1>1, UserIsEngine DEF Elsewhere
  <2>2. CASE pc'[j] # "idle" /\ pc[j] = "idle"
    <3>1. ASSUME NEW a \in AppNames, DeployBegin(j, a) \/ StopBegin(j, a) PROVE FALSE
      <4>1. CASE \E p \in Procs \ Janitors, b \in AppNames : DeployBegin(p, b) \/ StopBegin(p, b)
        BY <1>b, <3>1, <4>1
      <4>2. CASE \E p \in Procs : EngineStep(p)
        <5>1. PICK p \in Procs : Step(p) BY <4>2 DEF EngineStep
        <5>2. CASE Insert(p) BY <1>t, <2>2, <5>1, <5>2, InsertRow DEF Others
        <5>3. CASE ~Insert(p) BY <1>t, <2>2, <5>1, <5>3, StepOne DEF OneStep, Others, Onwards, AtRow
        <5> QED BY <5>2, <5>3
      <4>3. CASE \E p \in Procs \ Janitors : Crash(p)
        BY <1>t, <2>2, <4>3 DEF Crash, Return, TypeOK
      <4> QED BY <1>1, <2>2, <4>1, <4>2, <4>3
              DEF UserNext, CreateApp, DeleteApp, Misbehave, OutOfBand, procVars
    <3> QED BY <1>s, <2>1, <3>1
  <2>3. CASE ~(pc'[j] # "idle" /\ pc[j] = "idle")
    <3>1. ASSUME NEW a \in AppNames, DeployBegin(j, a) \/ StopBegin(j, a) PROVE FALSE
      BY <1>t, <2>3, <3>1 DEF DeployBegin, StopBegin, TypeOK
    <3> QED BY <1>s, <2>1, <3>1
  <2> QED BY <2>2, <2>3
<1>2. CASE (\E d \in Ids : Age(d)) \/ UNCHANGED allVars BY <1>2, <1>v DEF Age, allVars
<1>3. ASSUME NEW k \in Janitors, k # j, JanitorNext(k) PROVE Own(j)'
  <2>1. plan'[j] = plan[j] /\ rpc'[j] = rpc[j] BY <1>3, <1>t, OthersStay
  <2>2. CASE Thinks(k) BY <2>1, <2>2, <1>v, ThinkingIsQuiet
  <2>3. CASE CrashRedeploy(k)
    <3>1. Crash(k) /\ UNCHANGED owner BY <2>3 DEF CrashRedeploy, Crash, rows
    <3>2. pc'[j] = pc[j] /\ work'[j] = work[j] /\ todo'[j] = todo[j] /\ wants'[j] = wants[j]
      BY <1>3, <1>t, <3>1 DEF Crash, Return, TypeOK
    <3> QED BY <1>t, <2>1, <3>1, <3>2, OwnFrame
  <2>4. ASSUME NEW a \in AppNames, Redeploy(k, a) PROVE Own(j)'
    <3>1. DeployBegin(k, a) /\ k \in Procs BY <2>4, ReconcileAssumption DEF Redeploy
    <3>2. \A b \in AppNames : ~DeployBegin(j, b) /\ ~StopBegin(j, b) BY <1>3, <1>b, <3>1
    <3> QED BY <1>s, <2>1, <3>1, <3>2 DEF Next
  <2>5. CASE \E d \in Ids : Mark(k, d) \/ Prune(k, d)
    <3>1. UNCHANGED <<owner, pc, work, todo, wants>> BY <2>5 DEF Mark, Prune, rows, procVars
    <3> QED BY <1>p, <2>1, <3>1
  <2> QED BY <1>3, <2>2, <2>3, <2>4, <2>5, JanitorSteps
<1>4. CASE JanitorNext(j)
  <2>1. CASE CrashRedeploy(j) BY <1>i, <2>1 DEF CrashRedeploy
  <2>2. ASSUME NEW d \in Ids, Mark(j, d) \/ Prune(j, d) PROVE Own(j)'
    <3>1. UNCHANGED <<owner, pc, work, todo, wants>> BY <2>2 DEF Mark, Prune, rows, procVars
    <3>2. plan'[j].left = plan[j].left /\ rpc'[j] = rpc[j]
      BY <1>t, <2>2, MarkPlan DEF Prune, Plans
    <3> QED BY <1>p, <3>1, <3>2
  <2> QED BY <1>4, <2>1, <2>2, OwnThinks, OwnRedeploy, JanitorSteps
<1> QED BY <1>1, <1>2, <1>3, <1>4 DEF ReconcileNext

(* How the row of a deployment that was lost goes on, when only the        *)
(* janitor itself may end one in order.                                    *)
LEMMA LostGoesOn ==
    ASSUME RInv, NobodyElseEnds, [ReconcileNext]_allVars, NEW j \in Janitors, Own(j),
           NEW d \in plan[j].lost, d \in Ids, status[d] \in {"running", "failed", "deleted"},
           status'[d] \notin {"running", "failed", "deleted"}
    PROVE  rpc[j] = "redeploy" /\ d \in todo[j]
<1>t. IInv /\ TypeOK /\ j \in Procs BY ReconcileAssumption DEF RInv, IInv
<1>0. status'[d] # status[d] /\ status[d] # "none" OBVIOUS
<1>1. CASE [Next]_vars
  <2>1. status'[d] \in {"stopped", "replaced"}
    BY <1>0, <1>1, <1>t, NextStatus DEF InProgress, Final
  <2>2. PICK p \in Procs : Step(p) BY <1>0, <1>1, <1>t, <2>1, AroundEnds
  <2>3. /\ Open(d)
        /\ \/ pc[p] = "stopped" /\ d = work[p]
           \/ pc[p] = "replaced" /\ d \in todo[p]
    BY <1>0, <1>t, <2>1, <2>2, StepEnds
  <2>4. p = j BY <2>2, <2>3 DEF NobodyElseEnds
  <2> QED BY <2>3, <2>4 DEF Own, Stopping
<1>2. CASE UserNext BY <1>1, <1>2, UserIsEngine
<1>3. CASE (\E e \in Ids : Age(e)) \/ UNCHANGED allVars BY <1>0, <1>3 DEF Age, vars, allVars
<1>4. ASSUME NEW k \in Janitors, JanitorNext(k) PROVE rpc[j] = "redeploy" /\ d \in todo[j]
  <2>1. CASE Thinks(k) BY <1>0, <2>1, ThinkingIsQuiet DEF vars
  <2>2. CASE CrashRedeploy(k) \/ \E a \in AppNames : Redeploy(k, a)
    BY <1>1, <2>2, ReconcileAssumption DEF CrashRedeploy, Redeploy, Next
  <2>3. ASSUME NEW e \in Ids, Mark(k, e) PROVE FALSE BY <1>0, <1>t, <2>3, MarkDoes
  <2>4. ASSUME NEW e \in Ids, Prune(k, e) PROVE FALSE BY <1>0, <2>4 DEF Prune, rows
  <2> QED BY <1>4, <2>1, <2>2, <2>3, <2>4, JanitorSteps
<1> QED BY <1>2, <1>3, <1>4 DEF ReconcileNext

LEMMA LostStays ==
    ASSUME RInv, Made, NobodyElseEnds, [ReconcileNext]_allVars, NEW j \in Janitors, Own(j), LostFailed(j),
           plan'[j].lost = plan[j].lost, plan'[j].left \subseteq plan[j].left,
           rpc[j] = "redeploy" => rpc'[j] = "redeploy"
    PROVE  LostFailed(j)'
<1>t. IInv /\ ReconcileTypeOK /\ Broken(j) BY DEF RInv
<1> SUFFICES ASSUME NEW d \in plan[j].lost, status'[d] \notin {"running", "failed", "deleted"}
             PROVE  rpc'[j] = "redeploy" /\ owner'[d] \notin plan'[j].left
  BY DEF LostFailed
<1>1. d \in Ids /\ status[d] # "none" BY <1>t DEF ReconcileTypeOK, Plans, Broken, Bad
<1>2. owner'[d] = owner[d] BY <1>t, <1>1, RecordsStay
<1>3. CASE status[d] \in {"running", "failed", "deleted"}
  <2>1. rpc[j] = "redeploy" /\ d \in todo[j] BY <1>1, <1>3, LostGoesOn
  <2> QED BY <1>2, <2>1 DEF Own
<1>4. CASE rpc[j] = "redeploy" /\ owner[d] \notin plan[j].left BY <1>2, <1>4
<1> QED BY <1>3, <1>4 DEF LostFailed

LEMMA NextLost ==
    ASSUME RInv, Made, NobodyElseEnds, [ReconcileNext]_allVars, NEW j \in Janitors, Own(j), LostFailed(j)
    PROVE  LostFailed(j)'
<1>t. /\ ReconcileTypeOK /\ Broken(j) /\ plan[j] \in Plans
      /\ plan \in [Janitors -> Plans] /\ rpc \in [Janitors -> Phases]
  BY DEF RInv, ReconcileTypeOK
<1>n. plan[j].lost # {} => rpc[j] \notin {"idle", "list", "states"}
  BY <1>t DEF Broken, NoPlan, Bad
<1>e. ASSUME plan'[j].lost = {} PROVE LostFailed(j)' BY <1>e DEF LostFailed
<1>f. CASE Finish(j) BY <1>e, <1>f, <1>t DEF Finish, NoPlan
<1>s. ASSUME plan'[j].lost = plan[j].lost, plan'[j].left \subseteq plan[j].left,
             rpc[j] = "redeploy" => rpc'[j] = "redeploy"
      PROVE  LostFailed(j)'
  BY <1>s, LostStays
<1>1. CASE Elsewhere \/ (\E d \in Ids : Age(d)) \/ UNCHANGED allVars
  BY <1>s, <1>t, <1>1, ElsewhereStays
<1>2. ASSUME NEW k \in Janitors, k # j, JanitorNext(k) PROVE LostFailed(j)'
  BY <1>s, <1>t, <1>2, OthersStay
<1>3. CASE JanitorNext(j)
  <2>1. CASE \E options \in Options : ReconcileBegin(j, options)
    <3>1. plan'[j].lost = {} BY <2>1, <1>t DEF ReconcileBegin, Broken, NoPlan
    <3> QED BY <1>e, <3>1
  <2>2. CASE ListNames(j) \/ Listed(j) \/ \E d \in Ids : Inspect(j, d)
    <3>1. plan'[j].lost = plan[j].lost /\ rpc[j] \in {"list", "states"}
      <4>1. CASE ListNames(j) \/ Listed(j) BY <4>1, <1>t DEF ListNames, Listed, Plans
      <4>2. ASSUME NEW d \in Ids, Inspect(j, d)
            PROVE  plan'[j].lost = plan[j].lost /\ rpc[j] \in {"list", "states"}
        BY <4>2, <1>t DEF Inspect, Plans
      <4> QED BY <2>2, <4>1, <4>2
    <3> QED BY <1>e, <1>n, <3>1
  <2>3. ASSUME NEW a \in AppNames, ScanApp(j, a) PROVE LostFailed(j)'
    <3>1. plan'[j].lost = plan[j].lost \union {d \in Ids : owner[d] = a /\ Lost(d, plan[j].up)}
      BY <2>3, <1>t DEF ScanApp, Plans
    <3>2. rpc[j] = "scan" /\ UNCHANGED status BY <2>3 DEF ScanApp, ReadOnly, vars
    <3> QED BY <3>1, <3>2 DEF LostFailed, Lost
  <2>4. CASE Planned(j) \/ Marked(j) \/ \E d \in Ids : Mark(j, d) \/ Prune(j, d)
    <3>1. plan'[j].lost = plan[j].lost /\ plan'[j].left = plan[j].left /\ rpc[j] # "redeploy"
      BY <2>4, <1>t, MarkPlan DEF Planned, Marked, Prune, Plans
    <3> QED BY <1>s, <3>1
  <2>5. CASE Pruned(j)
    <3>1. plan'[j].lost = plan[j].lost /\ rpc[j] = "prune" /\ UNCHANGED status
      BY <2>5, <1>t DEF Pruned, ReadOnly, vars, Plans
    <3> QED BY <3>1 DEF LostFailed
  <2>6. ASSUME NEW a \in AppNames, Skip(j, a) \/ Redeploy(j, a) PROVE LostFailed(j)'
    <3>1. plan'[j].lost = plan[j].lost /\ plan'[j].left = plan[j].left \ {a} /\ rpc'[j] = rpc[j]
      BY <2>6, <1>t DEF Skip, Redeploy, Due, Plans
    <3> QED BY <1>s, <3>1
  <2>7. CASE CrashRedeploy(j)
    <3>1. plan'[j].lost = {} BY <2>7, <1>t DEF CrashRedeploy, NoPlan
    <3> QED BY <1>e, <3>1
  <2> QED BY <1>3, <1>f, <2>1, <2>2, <2>3, <2>4, <2>5, <2>6, <2>7
          DEF JanitorNext, Done, Abort, ScanFails, RedeployFails
<1> QED BY <1>1, <1>2, <1>3 DEF ReconcileNext

(* As long as nobody stops or replaces what a reconcile has found without  *)
(* its container, before the reconcile has failed it, and no write of the  *)
(* reconcile throws before it is done, an app is deployed again only when  *)
(* its latest deployment has failed (spec cli:350), whoever deploys,       *)
(* stops, deletes apps or is killed at the same time: these two are all    *)
(* that commands/reconcile.ts:216 leaves open, where it trusts the plan    *)
(* for a deployment the plan has failed.                                   *)
THEOREM RedeploysOnlyFailedUnlessEnded ==
    ReconcileSpec /\ []NobodyElseEnds /\ []MarksHold => RedeploysOnlyFailed
<1>1. ReconcileInit => FInv /\ Made
  <2> SUFFICES ASSUME ReconcileInit PROVE FInv /\ Made OBVIOUS
  <2>1. Made BY DEF ReconcileInit, Init, Made
  <2>2. \A j \in Janitors : Own(j) /\ LostFailed(j)
    BY ReconcileAssumption DEF ReconcileInit, Init, Own, LostFailed, NoPlan
  <2> QED BY <2>1, <2>2, InitRInv DEF FInv
<1>2. FInv /\ Made /\ NobodyElseEnds /\ [ReconcileNext]_allVars => FInv' /\ Made'
  <2> SUFFICES ASSUME FInv, Made, NobodyElseEnds, [ReconcileNext]_allVars PROVE FInv' /\ Made' OBVIOUS
  <2>1. RInv /\ IInv BY DEF FInv, RInv
  <2>2. RInv' /\ Made' BY <2>1, NextRInv, RecordsStay
  <2>3. ASSUME NEW j \in Janitors PROVE Own(j)' /\ LostFailed(j)'
    BY <2>1, NextOwn, NextLost DEF FInv
  <2> QED BY <2>2, <2>3 DEF FInv
<1>3. ASSUME FInv, MarksHold, NEW j \in Janitors, NEW a \in AppNames, Redeploy(j, a),
             NEW d \in Ids, Newest(d, Rows(a, Statuses))
      PROVE  status[d] = "failed"
  <2>1. rpc[j] = "redeploy" /\ a \in plan[j].left BY <1>3 DEF Redeploy, Due
  <2>2. PICK e \in Rows(a, Statuses) :
            Newest(e, Rows(a, Statuses)) /\ (e \in plan[j].lost \/ status[e] = "failed")
    BY <1>3 DEF Redeploy, IsDown
  <2>3. d = e BY <1>3, <2>2, EngineAssumption DEF Newest, Rows
  <2>4. owner[d] = a /\ status[d] \in Statuses BY <2>2, <2>3 DEF Rows
  <2>5. CASE d \in plan[j].lost
    <3>0. status[d] \in Closed \/ d \in plan[j].unmarked
      BY <1>3, <2>1, <2>5 DEF FInv, RInv, Broken, Bad
    <3>1. status[d] \in Closed
      BY <1>3, <2>4, <3>0 DEF MarksHold, Open, Closed, Statuses
    <3>2. status[d] \in {"running", "failed", "deleted"}
      BY <1>3, <2>1, <2>4, <2>5 DEF FInv, LostFailed
    <3> QED BY <2>4, <3>1, <3>2 DEF Closed, Final, Statuses, InProgress
  <2> QED BY <2>2, <2>3, <2>5
<1>4. FInv /\ MarksHold => [\A j \in Janitors, a \in AppNames :
                  Redeploy(j, a) =>
                      \A d \in Ids : Newest(d, Rows(a, Statuses)) => status[d] = "failed"]_allVars
  BY <1>3
<1> QED BY <1>1, <1>2, <1>4, PTL DEF ReconcileSpec, RedeploysOnlyFailed

=============================================================================
