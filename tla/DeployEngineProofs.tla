------------------------ MODULE DeployEngineProofs ------------------------
(***************************************************************************)
(* Proofs about DeployEngine for every set of processes and of apps, every *)
(* number of deployments and every set of faults.                          *)
(***************************************************************************)
EXTENDS DeployEngine, TLAPS

-----------------------------------------------------------------------------
(* The inductive invariant: where a process is tells which statuses the    *)
(* row it works on can have, because nobody else writes that row except to *)
(* close it.                                                               *)

Closed == Final \union {"deleted"}

(* Awaits of deploy before its row runs: the try block and its catch. *)
Catching == {"forceRemove", "giveUp"}
InTry == Bare \union Holding \union Catching

(* Awaits at which deploy has stored the container id. *)
Late == Holding \ {"created"}

(* An update that was done although its event could not be inserted. *)
Unlogged == IF "storeError" \in Faults THEN {"running"} ELSE {}

(* Where a process works on a row. *)
AtRow(p) == pc[p] \notin {"idle", "insert"}

(* The statuses the row of a process can have at each await. *)
Allowed(where) ==
    Closed \union
    (IF where = "pending" THEN {"pending"}
     ELSE IF where \in Bare \union {"created"} THEN {"pulling"}
     ELSE IF where \in Late THEN {"starting"}
     ELSE IF where \in Catching THEN InProgress \union Unlogged
     ELSE {"running"})

(* Ids are handed out in order, and an unused one has no app. *)
Numbered ==
    \A d \in Ids : /\ d >= seq => status[d] = "none"
                   /\ status[d] = "none" => owner[d] = NoApp

(* A process is idle, has an app to deploy, or works on a deployment that  *)
(* has been made.                                                          *)
Busy ==
    \A p \in Procs :
        /\ AtRow(p) => work[p] \in Ids /\ work[p] < seq
        /\ pc[p] = "insert" => wants[p] \in AppNames

(* The row a process works on is where the process is, or closed. *)
InStep ==
    \A p \in Procs : AtRow(p) => status[work[p]] \in Allowed(pc[p])

(* No two processes deploy the same deployment. *)
Alone ==
    \A p, q \in Procs : p # q /\ pc[p] \in InTry /\ pc[q] \in InTry => work[p] # work[q]

(* What is left to replace has run. *)
HasRun ==
    \A p \in Procs : \A d \in todo[p] : status[d] \in {"running"} \union Closed

(* From starting on, the container id is in the row. *)
Stored ==
    \A p \in Procs : pc[p] \in Late => recorded[work[p]]

IInv == /\ TypeOK /\ Numbered /\ Busy /\ InStep /\ Alone /\ HasRun /\ Stored
        /\ RunningHasContainer

USE DEF Ids

-----------------------------------------------------------------------------
(* Type correctness *)

LEMMA InitType == Init => TypeOK
BY EngineAssumption DEF Init, TypeOK, Pcs, CtrStates

ProcType ==
    /\ pc \in [Procs -> Pcs]
    /\ work \in [Procs -> Ids \union {0}]
    /\ todo \in [Procs -> SUBSET Ids]
    /\ wants \in [Procs -> AppNames \union {NoApp}]

LEMMA GotoType ==
    ASSUME TypeOK, NEW p \in Procs, NEW where \in Pcs, Goto(p, where)
    PROVE  ProcType'
BY DEF TypeOK, ProcType, Goto

LEMMA ReturnType ==
    ASSUME TypeOK, NEW p \in Procs, Return(p)
    PROVE  ProcType'
BY DEF TypeOK, ProcType, Return, Pcs

LEMMA ReplacingType ==
    ASSUME TypeOK, NEW p \in Procs, NEW S \in SUBSET Ids, StartReplacing(p, S)
    PROVE  ProcType'
<1>1. CASE S = {} BY <1>1, ReturnType DEF StartReplacing
<1>2. CASE S # {} BY <1>2 DEF StartReplacing, TypeOK, ProcType, Pcs, Replacing
<1> QED BY <1>1, <1>2

LEMMA WrittenStatus == \A where \in DOMAIN Written : Written[where] \in Statuses
BY DEF Written, Statuses, InProgress, Final

LEMMA StepType ==
    ASSUME TypeOK, NEW p \in Procs, Step(p)
    PROVE  TypeOK'
<1> USE EngineAssumption DEF TypeOK, Goto, Return, SetStatus, SetContainer, Pcs, CtrStates,
        Bare, Holding, Replacing, Stopping, Statuses, InProgress, Final, rows, CatchAt
<1>a. CASE Insert(p)
  <2>1. ProcType'
    <3>1. CASE Return(p) BY <3>1, ReturnType
    <3>2. CASE pc' = [pc EXCEPT ![p] = "pending"]
      BY <1>a, <3>2 DEF Insert, ProcType
    <3> QED BY <1>a, <3>1, <3>2 DEF Insert
  <2>2. /\ apps' \subseteq AppNames /\ owner' \in [Ids -> AppNames \union {NoApp}]
        /\ status' \in [Ids -> Statuses \union {"none", "deleted"}]
        /\ recorded' \in [Ids -> BOOLEAN] /\ seq' \in 1..(MaxDeployments + 1) /\ ctr' = ctr
    BY <1>a DEF Insert, AddRow
  <2> QED BY <2>1, <2>2 DEF ProcType
<1>b. CASE NotInserted(p) BY <1>b DEF NotInserted
<1>c. CASE SetPulling(p) BY <1>c DEF SetPulling
<1>d. CASE WriteFails(p)
  <2>1. ProcType' BY <1>d, GotoType, ReturnType DEF WriteFails
  <2>2. status' \in [Ids -> Statuses \union {"none", "deleted"}] /\ recorded' \in [Ids -> BOOLEAN]
    BY <1>d, WrittenStatus DEF WriteFails, StoreId
  <2> QED BY <1>d, <2>1, <2>2 DEF WriteFails, ProcType
<1>1. CASE Pulled(p) BY <1>1 DEF Pulled
<1>2. CASE Created(p) BY <1>2 DEF Created
<1>3. CASE RecordStarting(p) BY <1>3 DEF RecordStarting, StoreId
<1>4. CASE Started(p) BY <1>4 DEF Started
<1>5. CASE Probe(p) BY <1>5 DEF Probe
<1>6. CASE Verdict(p) BY <1>6 DEF Verdict
<1>7. CASE Reap(p) BY <1>7 DEF Reap
<1>8. CASE Reaped(p) BY <1>8 DEF Reaped
<1>9. CASE NotFound(p) BY <1>9 DEF NotFound
<1>10. CASE CallFails(p) BY <1>10 DEF CallFails
<1>11. CASE ForceRemove(p) BY <1>11 DEF ForceRemove
<1>12. CASE GiveUp(p) BY <1>12 DEF GiveUp, MarkFailed
<1>0. PreviousOf(work[p]) \in SUBSET Ids BY DEF PreviousOf, Rows
<1>13. CASE Promote(p)
  <2>1. status' \in [Ids -> Statuses \union {"none", "deleted"}] BY <1>13 DEF Promote
  <2>2. ProcType'
    <3>1. CASE Goto(p, "hook") \/ Goto(p, CatchAt("healthy")) BY <3>1, GotoType
    <3>2. CASE StartReplacing(p, PreviousOf(work[p])) BY <3>2, <1>0, ReplacingType
    <3> QED BY <3>1, <3>2, <1>13 DEF Promote
  <2> QED BY <2>1, <2>2, <1>13 DEF Promote, ProcType
<1>14. CASE HookDone(p) BY <1>14, <1>0, ReplacingType DEF HookDone, ProcType
<1>15. CASE HookFails(p) BY <1>15 DEF HookFails
<1>16. CASE StopPrevious(p) BY <1>16 DEF StopPrevious
<1>17. CASE RemovePrevious(p) BY <1>17 DEF RemovePrevious
<1>18. CASE Replaced(p) BY <1>18, ReplacingType, ReturnType DEF Replaced, ProcType
<1>19. CASE StopContainer(p)
  <2>1. ProcType' BY <1>19, GotoType, ReturnType DEF StopContainer
  <2>2. ctr' \in [Ids -> CtrStates] BY <1>19, SMTT(30) DEF StopContainer
  <2> QED BY <2>1, <2>2, <1>19 DEF StopContainer, ProcType
<1>20. CASE RemoveContainer(p)
  <2>1. ProcType' BY <1>20, GotoType, ReturnType DEF RemoveContainer
  <2>2. ctr' \in [Ids -> CtrStates] BY <1>20 DEF RemoveContainer
  <2> QED BY <2>1, <2>2, <1>20 DEF RemoveContainer, ProcType
<1>21. CASE Stopped(p) BY <1>21 DEF Stopped
<1> QED BY <1>1, <1>2, <1>3, <1>4, <1>5, <1>6, <1>7, <1>8, <1>9, <1>10, <1>11, <1>12,
           <1>13, <1>14, <1>15, <1>16, <1>17, <1>18, <1>19, <1>20, <1>21, <1>a, <1>b, <1>c, <1>d
        DEF Step

LEMMA NextType == TypeOK /\ [Next]_vars => TypeOK'
<1> SUFFICES ASSUME TypeOK, [Next]_vars PROVE TypeOK' OBVIOUS
<1> USE EngineAssumption DEF TypeOK
<1>1. ASSUME NEW a \in AppNames, CreateApp(a) PROVE TypeOK'
  BY <1>1 DEF CreateApp, procVars
<1>2. ASSUME NEW a \in AppNames, DeleteApp(a) PROVE TypeOK'
  BY <1>2 DEF DeleteApp, procVars
<1>4. ASSUME NEW p \in Procs, NEW a \in AppNames, DeployBegin(p, a) PROVE TypeOK'
  BY <1>4 DEF DeployBegin, rows, Pcs
<1>5. ASSUME NEW p \in Procs, NEW a \in AppNames, StopBegin(p, a) PROVE TypeOK'
  BY <1>5 DEF StopBegin, Rows, rows, Pcs, Stopping
<1>6. ASSUME NEW p \in Procs, Step(p) PROVE TypeOK'
  BY <1>6, StepType
<1>7. ASSUME NEW p \in Procs, Crash(p) PROVE TypeOK'
  BY <1>7 DEF Crash, Return, rows, Pcs
<1>8. ASSUME NEW p \in Procs, Misbehave(p) PROVE TypeOK'
  BY <1>8 DEF Misbehave, SetContainer, CtrStates, rows, procVars
<1>9. ASSUME NEW d \in Ids, OutOfBand(d) PROVE TypeOK'
  BY <1>9 DEF OutOfBand, SetContainer, CtrStates, rows, procVars
<1>10. ASSUME NEW d \in Ids, ReconcileMark(d) PROVE TypeOK'
  BY <1>10 DEF ReconcileMark, SetStatus, Statuses, Final, procVars
<1>11. CASE UNCHANGED vars BY <1>11 DEF vars
<1> QED BY <1>1, <1>2, <1>4, <1>5, <1>6, <1>7, <1>8, <1>9, <1>10, <1>11 DEF Next

(* The store, the engine and the processes keep to their types.            *)
THEOREM TypeCorrect == Spec => []TypeOK
BY InitType, NextType, PTL DEF Spec

-----------------------------------------------------------------------------
(* What a step of a process at a row may do to the rows and to itself.     *)
(* Every such step does no more, and this is enough for the invariant.     *)

RowMove(p, d) ==
    \/ status'[d] = status[d]
    \/ status[d] \in InProgress /\ status'[d] = "failed"
    \/ status[d] = "running" /\ status'[d] \in Final
    \/ /\ d = work[p] /\ pc[p] \in InTry
       /\ \/ status[d] = "pending" /\ status'[d] = "pulling"
          \/ status[d] = "pulling" /\ status'[d] = "starting"
          \/ status[d] = "starting" /\ status'[d] = "running"

Others(p) ==
    \A q \in Procs \ {p} :
        pc'[q] = pc[q] /\ work'[q] = work[q] /\ todo'[q] = todo[q] /\ wants'[q] = wants[q]

Onwards(p) ==
    /\ AtRow(p) /\ AtRow(p)'
    /\ work'[p] = work[p]
    /\ status'[work[p]] \in Allowed(pc'[p])
    /\ pc'[p] \in InTry => pc[p] \in InTry
    /\ pc'[p] \in Late => recorded'[work[p]]

OneStep(p) ==
    /\ TypeOK'
    /\ UNCHANGED <<apps, owner, seq>>
    /\ \A d \in Ids : recorded[d] => recorded'[d]
    /\ \A d \in Ids : status'[d] = "running" => recorded'[d]
    /\ \A d \in Ids : RowMove(p, d)
    /\ \A d \in todo'[p] : status'[d] \in {"running"} \union Closed
    /\ Others(p)
    /\ pc'[p] = "idle" \/ Onwards(p)

LEMMA AllowedClosed == \A where : Final \subseteq Allowed(where)
BY DEF Allowed, Closed

LEMMA OneStepKeeps ==
    ASSUME IInv, NEW p \in Procs, OneStep(p)
    PROVE  IInv'
<1> USE DEF IInv, OneStep, Others, TypeOK
<1>1. Numbered'
  <2> SUFFICES ASSUME NEW d \in Ids
               PROVE (d >= seq => status'[d] = "none") /\ (status'[d] = "none" => owner[d] = NoApp)
    BY DEF Numbered
  <2> QED BY DEF Numbered, RowMove, Open, InProgress, Final
<1>2. Busy' BY DEF Busy, Onwards, AtRow
<1>3. InStep'
  <2> SUFFICES ASSUME NEW q \in Procs, AtRow(q)'
               PROVE  status'[work'[q]] \in Allowed(pc'[q])
    BY DEF InStep
  <2>1. CASE q = p BY <2>1 DEF Onwards, AtRow
  <2>2. CASE q # p
    <3> DEFINE w == work[q]
    <3>1. w \in Ids /\ status[w] \in Allowed(pc[q]) /\ pc'[q] = pc[q] /\ work'[q] = w
      BY <2>2 DEF Busy, InStep, AtRow
    <3>2. CASE status'[w] = status[w] BY <3>1, <3>2
    <3>3. CASE status'[w] \in Final
      BY <3>1, <3>3, AllowedClosed
    <3>4. CASE /\ w = work[p] /\ pc[p] \in InTry
               /\ status[w] \in InProgress
      <4>1. pc[q] \notin InTry BY <2>2, <3>4 DEF Alone
      <4>2. status[w] \in Closed \union {"running"}
        BY <4>1, <3>1 DEF Allowed, InTry, Late, Bare, Holding, Catching
      <4> QED BY <4>2, <3>4 DEF Closed, Final, InProgress
    <3> QED BY <3>1, <3>2, <3>3, <3>4 DEF RowMove, Final, InProgress
  <2> QED BY <2>1, <2>2
<1>4. Alone' BY DEF Alone, Onwards, InTry, Bare, Holding, Catching
<1>5. HasRun'
  <2> SUFFICES ASSUME NEW q \in Procs, NEW d \in todo'[q]
               PROVE  status'[d] \in {"running"} \union Closed
    BY DEF HasRun
  <2>1. CASE q = p BY <2>1
  <2>2. CASE q # p
    <3>1. d \in Ids /\ status[d] \in {"running"} \union Closed BY <2>2 DEF HasRun
    <3> QED BY <3>1 DEF RowMove, Closed, Final
  <2> QED BY <2>1, <2>2
<1>6. Stored'
  <2> SUFFICES ASSUME NEW q \in Procs, pc'[q] \in Late
               PROVE  recorded'[work'[q]]
    BY DEF Stored
  <2>1. CASE q = p BY <2>1 DEF Onwards, Late, Holding
  <2>2. CASE q # p
    <3>1. work[q] \in Ids /\ recorded[work[q]] /\ work'[q] = work[q]
      BY <2>2 DEF Stored, Busy, Late, Holding, AtRow
    <3> QED BY <3>1
  <2> QED BY <2>1, <2>2
<1>8. RunningHasContainer' BY DEF RunningHasContainer
<1> QED BY <1>1, <1>2, <1>3, <1>4, <1>5, <1>6, <1>8

-----------------------------------------------------------------------------
(* Steps that leave the rows alone. *)

LEMMA QuietGoto ==
    ASSUME IInv, TypeOK', NEW p \in Procs, NEW where, UNCHANGED rows, Goto(p, where),
           AtRow(p), where \notin {"idle", "insert"}, status[work[p]] \in Allowed(where),
           where \in InTry => pc[p] \in InTry, where \in Late => pc[p] \in Late
    PROVE  OneStep(p)
BY DEF AtRow, IInv, OneStep, TypeOK, Goto, rows, RowMove, RunningHasContainer, HasRun, Others,
       Onwards, Stored

LEMMA QuietReturn ==
    ASSUME IInv, TypeOK', NEW p \in Procs, UNCHANGED rows, Return(p)
    PROVE  OneStep(p)
BY DEF IInv, OneStep, TypeOK, Return, rows, RowMove, RunningHasContainer, Others

(* A deploy goes into its catch block. *)
LEMMA QuietCatch ==
    ASSUME IInv, TypeOK', NEW p \in Procs, NEW where \in Catching, UNCHANGED rows, Goto(p, where),
           pc[p] \in InTry
    PROVE  OneStep(p)
<1>1. AtRow(p) BY DEF AtRow, InTry, Bare, Holding, Catching
<1>2. status[work[p]] \in Allowed(where)
  BY <1>1 DEF IInv, InStep, Allowed, InTry, Bare, Late, Holding, Catching, InProgress
<1> QED BY <1>1, <1>2, QuietGoto DEF Catching, InTry, Late, Holding

(* A row is closed and the process goes on or returns. *)
LEMMA CloseRow ==
    ASSUME IInv, TypeOK', NEW p \in Procs, NEW d \in Ids, NEW s \in Final,
           Open(d), s = "failed" \/ status[d] = "running", SetStatus(d, s), Return(p), UNCHANGED <<apps, owner, recorded, seq>>
    PROVE  OneStep(p)
BY DEF IInv, OneStep, TypeOK, Return, SetStatus, RowMove, RunningHasContainer, Others, Final, Open

LEMMA Replacing1 ==
    ASSUME IInv, TypeOK', NEW p \in Procs, NEW S \in SUBSET Ids,
           UNCHANGED <<apps, owner, recorded, seq>>, StartReplacing(p, S),
           AtRow(p), status'[work[p]] \in {"running"} \union Closed,
           \A d \in S : status'[d] \in {"running"} \union Closed,
           \A d \in Ids : RowMove(p, d),
           \A d \in Ids : status'[d] = "running" => recorded[d]
    PROVE  OneStep(p)
<1>1. CASE S = {}
  BY <1>1 DEF IInv, OneStep, TypeOK, Return, StartReplacing, Others
<1>2. CASE S # {}
  BY <1>2, ZenonT(40) DEF IInv, OneStep, TypeOK, StartReplacing, Others, Onwards, Allowed, InTry, Late,
              Bare, Holding, Catching, AtRow
<1> QED BY <1>1, <1>2

(* A write that throws, with the row updated or not. *)
LEMMA WriteOne ==
    ASSUME IInv, TypeOK', NEW p \in Procs, WriteFails(p)
    PROVE  OneStep(p)
<1> DEFINE w == work[p]
<1>t. TypeOK BY DEF IInv
<1>1. pc[p] \in {"pending", "created", "reaped", "healthy", "giveUp", "replaced", "stopped"}
  BY DEF WriteFails, Written
<1>2. w \in Ids /\ status[w] \in Allowed(pc[p]) BY <1>1 DEF IInv, Busy, InStep, AtRow
<1>3. pc[p] \in Bare \union Holding => Goto(p, CatchAt(pc[p])) /\ CatchAt(pc[p]) \in Catching
  BY DEF WriteFails, CatchAt, Catching
<1>4. pc[p] \notin Bare \union Holding => Return(p) BY DEF WriteFails
<1>5. UNCHANGED <<apps, owner, seq>> BY DEF WriteFails
<1>6. CASE UNCHANGED <<status, recorded>>
  <2>0. UNCHANGED rows BY <1>5, <1>6 DEF rows
  <2>1. CASE pc[p] \in Bare \union Holding
    <3> PICK where \in Catching : where = CatchAt(pc[p]) BY <1>3, <2>1
    <3>1. status[w] \in Allowed(where)
      BY <1>1, <1>2, <2>1 DEF Allowed, Catching, Bare, Late, Holding, InProgress
    <3>2. AtRow(p) /\ pc[p] \in InTry BY <1>1, <2>1 DEF AtRow, InTry
    <3>3. where \notin {"idle", "insert"} /\ where \notin Late BY DEF Catching, Late, Holding
    <3> QED BY <1>3, <2>0, <2>1, <3>1, <3>2, <3>3, QuietGoto
  <2>2. CASE pc[p] \notin Bare \union Holding BY <1>4, <2>0, <2>2, QuietReturn
  <2> QED BY <2>1, <2>2
<1>7. CASE ~UNCHANGED <<status, recorded>>
  <2>1. PICK d \in Ids :
          /\ IF pc[p] = "replaced" THEN d \in todo[p] ELSE d = w
          /\ Open(d)
          /\ SetStatus(d, Written[pc[p]])
          /\ IF pc[p] = "created" THEN StoreId(d) ELSE UNCHANGED recorded
    BY <1>7 DEF WriteFails, Newest
  <2>2. \A e \in Ids : status'[e] = IF e = d THEN Written[pc[p]] ELSE status[e]
    BY <1>t, <2>1 DEF SetStatus, TypeOK
  <2>3. CASE pc[p] \in {"giveUp", "replaced", "stopped"}
    <3>1. Return(p) /\ UNCHANGED recorded BY <1>4, <2>1, <2>3 DEF Bare, Holding
    <3>2. /\ Written[pc[p]] \in Final
          /\ Written[pc[p]] = "failed" \/ pc[p] \in {"replaced", "stopped"}
      BY <2>3 DEF Written, Final
    <3>3. pc[p] = "replaced" => status[d] = "running"
      BY <2>1 DEF IInv, HasRun, Open, Closed, Final, InProgress
    <3>4. pc[p] = "stopped" => status[d] = "running"
      BY <1>2, <2>1 DEF Allowed, Bare, Late, Holding, Catching, Closed, Open, Final, InProgress
    <3> QED BY <1>5, <2>1, <3>1, <3>2, <3>3, <3>4, CloseRow
  <2>4. CASE pc[p] \in {"pending", "created", "reaped", "healthy"}
    <3>0. d = w /\ pc[p] \in Bare \union Holding /\ pc[p] \in InTry /\ AtRow(p)
      BY <2>1, <2>4 DEF Bare, Holding, InTry, AtRow
    <3>1. PICK where \in Catching : Goto(p, where) BY <1>3, <3>0
    <3>2. /\ pc'[p] = where /\ work'[p] = w /\ todo'[p] = todo[p] /\ Others(p)
          /\ where \in InTry /\ where \notin {"idle", "insert"} /\ where \notin Late
      BY <1>t, <3>1 DEF Goto, TypeOK, Others, Catching, InTry, Late, Holding
    <3>3. \/ status[w] = "pending" /\ status'[w] = "pulling"
          \/ status[w] = "pulling" /\ status'[w] = "starting"
          \/ status[w] = "starting" /\ status'[w] \in {"failed", "running"}
      BY <1>2, <2>1, <2>2, <2>4, <3>0
      DEF Written, Allowed, Bare, Late, Holding, Closed, Open, Final, InProgress
    <3>4. \A e \in Ids : RowMove(p, e) BY <2>2, <3>0, <3>3 DEF RowMove, InProgress
    <3>5. \A e \in Ids : recorded[e] => recorded'[e]
      BY <1>t, <2>1 DEF StoreId, TypeOK
    <3>6. status'[w] = "running" => recorded[w]
      <4>1. pc[p] = "created" => status'[w] = "starting" BY <2>2, <3>0 DEF Written
      <4>2. pc[p] = "pending" => status'[w] = "pulling" BY <2>2, <3>0 DEF Written
      <4> QED BY <2>4, <4>1, <4>2 DEF IInv, Stored, Late, Holding
    <3>7. \A e \in Ids : status'[e] = "running" => recorded'[e]
      BY <2>2, <3>0, <3>5, <3>6 DEF IInv, RunningHasContainer
    <3>8. \A e \in todo'[p] : status'[e] \in {"running"} \union Closed
      <4>1. \A e \in todo[p] : e \in Ids /\ status[e] \in {"running"} \union Closed
        BY <1>t DEF IInv, HasRun, TypeOK
      <4>2. status[w] \notin {"running"} \union Closed BY <3>3 DEF Closed, Final
      <4> QED BY <2>2, <3>0, <3>2, <4>1, <4>2
    <3>9. status'[w] \in Allowed(where)
      <4>1. status'[w] \in InProgress \union {"failed", "running"} BY <3>3 DEF InProgress
      <4>2. "storeError" \in Faults BY DEF WriteFails
      <4> QED BY <4>1, <4>2 DEF Allowed, Catching, Bare, Late, Holding, Unlogged, Closed, Final
    <3>10. Onwards(p) BY <3>0, <3>2, <3>9 DEF Onwards, AtRow
    <3> QED BY <1>5, <3>2, <3>4, <3>5, <3>7, <3>8, <3>10 DEF OneStep
  <2> QED BY <1>1, <2>3, <2>4
<1> QED BY <1>6, <1>7

LEMMA StepOne ==
    ASSUME IInv, NEW p \in Procs, Step(p), ~Insert(p)
    PROVE  OneStep(p)
<1> TypeOK' BY StepType DEF IInv
<1> DEFINE w == work[p]
<1>a. AtRow(p) => w \in Ids /\ status[w] \in Allowed(pc[p]) /\ w < seq
  BY DEF IInv, Busy, InStep
<1>b. PreviousOf(w) \in SUBSET Ids /\ \A d \in PreviousOf(w) : d # w /\ status[d] = "running"
  BY DEF PreviousOf, Rows
<1>c. todo[p] \in SUBSET Ids /\ \A d \in todo[p] : status[d] \in {"running"} \union Closed
  BY DEF IInv, HasRun, TypeOK
<1>d. \A d \in Ids : status[d] = "running" => recorded[d]
  BY DEF IInv, RunningHasContainer
<1> USE DEF Allowed, InTry, Late, Bare, Holding, CatchAt, Catching, AtRow
<1>b1. CASE NotInserted(p) BY <1>b1, QuietReturn DEF NotInserted, rows
<1>c1. CASE SetPulling(p)
  <2>1. CASE Open(w)
    BY <1>c1, <2>1, <1>a, <1>d DEF SetPulling, IInv, OneStep, TypeOK, Goto, SetStatus,
       Open, Closed, Final, InProgress, RowMove, Others, Onwards, HasRun
  <2>2. CASE ~Open(w)
    BY <1>c1, <2>2, <1>a, QuietGoto DEF SetPulling, Closed, Final, Open, InProgress, rows
  <2> QED BY <2>1, <2>2
<1>d1. CASE WriteFails(p) BY <1>d1, WriteOne
<1>1. CASE Pulled(p) BY <1>1, <1>a, QuietGoto DEF Pulled, InProgress
<1>2. CASE Created(p) BY <1>2, <1>a, QuietGoto, QuietCatch DEF Created, InProgress
<1>3. CASE RecordStarting(p)
  <2>1. CASE Open(w)
    BY <1>3, <2>1, <1>a, <1>d DEF RecordStarting, IInv, OneStep, TypeOK, Goto, SetStatus, StoreId,
       Open, Closed, Final, InProgress, RowMove, Others, Onwards, HasRun
  <2>2. CASE ~Open(w) BY <1>3, <2>2, <1>a, QuietGoto DEF RecordStarting, Closed, Final, Open, InProgress
  <2> QED BY <2>1, <2>2
<1>4. CASE Started(p) BY <1>4, <1>a, QuietGoto DEF Started
<1>5. CASE Probe(p) BY <1>5, <1>a, QuietGoto DEF Probe
<1>6. CASE Verdict(p) BY <1>6, <1>a, QuietGoto DEF Verdict
<1>7. CASE Reap(p) BY <1>7, <1>a, QuietGoto DEF Reap
<1>8. CASE Reaped(p)
  <2>1. CASE Open(w) BY <1>8, <2>1, <1>a, CloseRow DEF Reaped, Final
  <2>2. CASE ~Open(w) BY <1>8, <2>2, QuietCatch DEF Reaped, rows
  <2> QED BY <2>1, <2>2
<1>9. CASE NotFound(p) BY <1>9, QuietCatch DEF NotFound
<1>10. CASE CallFails(p) BY <1>10, QuietCatch DEF CallFails
<1>11. CASE ForceRemove(p) BY <1>11, <1>a, QuietGoto DEF ForceRemove
<1>12. CASE GiveUp(p)
  <2>1. CASE Open(w) BY <1>12, <2>1, <1>a, CloseRow DEF GiveUp, MarkFailed, SetStatus, Final
  <2>2. CASE ~Open(w) BY <1>12, <2>2, QuietReturn DEF GiveUp, MarkFailed, rows
  <2> QED BY <2>1, <2>2
<1>13. CASE Promote(p)
  <2>1. CASE Open(w)
    <3>1. /\ status[w] = "starting" /\ w \in Ids /\ recorded[w]
      BY <1>13, <2>1, <1>a DEF Promote, Open, Closed, Final, InProgress, IInv, Stored
    <3>2. /\ status' = [status EXCEPT ![w] = "running"]
          /\ UNCHANGED <<apps, owner, recorded, seq>>
      BY <1>13, <2>1 DEF Promote, SetStatus
    <3>3. /\ status'[w] = "running"
          /\ \A d \in Ids : RowMove(p, d)
          /\ \A d \in Ids : status'[d] = "running" => recorded[d]
      <4>1. pc[p] = "healthy" BY <1>13 DEF Promote
      <4>2. \A d \in Ids : status'[d] = IF d = w THEN "running" ELSE status[d]
        BY <3>2 DEF IInv, TypeOK
      <4> QED BY <4>1, <4>2, <3>1, <1>d DEF RowMove
    <3>4. CASE Goto(p, "hook")
      <4>1. pc[p] = "healthy" BY <1>13 DEF Promote
      <4>2. pc'[p] = "hook" /\ work'[p] = w /\ todo'[p] = todo[p] /\ Others(p)
        BY <3>4 DEF Goto, IInv, TypeOK, Others
      <4>3. Onwards(p) BY <4>1, <4>2, <3>3 DEF Onwards
      <4>4. \A d \in todo'[p] : status'[d] \in {"running"} \union Closed
        BY <4>2, <3>2, <1>c DEF IInv, TypeOK
      <4> QED BY <3>2, <3>3, <4>2, <4>3, <4>4 DEF OneStep
    <3>5. CASE StartReplacing(p, PreviousOf(w))
      <4>1. AtRow(p) BY <1>13 DEF Promote
      <4>2. \A d \in PreviousOf(w) : status'[d] \in {"running"} \union Closed
        BY <3>2, <1>b DEF IInv, TypeOK
      <4> QED BY <4>1, <4>2, <3>2, <3>3, <3>5, <1>b, Replacing1
    <3> QED BY <1>13, <2>1, <3>4, <3>5 DEF Promote
  <2>2. CASE ~Open(w) BY <1>13, <2>2, QuietCatch DEF Promote, rows
  <2> QED BY <2>1, <2>2
<1>14. CASE HookDone(p)
  <2>1. pc[p] = "hook" /\ UNCHANGED rows /\ StartReplacing(p, PreviousOf(w)) BY <1>14 DEF HookDone
  <2>2. status[w] \in {"running"} \union Closed BY <2>1, <1>a
  <2> QED BY <2>1, <2>2, <1>b, <1>d, Replacing1 DEF rows, RowMove
<1>15. CASE HookFails(p) BY <1>15, QuietReturn DEF HookFails
<1>16. CASE StopPrevious(p) BY <1>16, <1>a, QuietGoto DEF StopPrevious
<1>17. CASE RemovePrevious(p) BY <1>17, <1>a, QuietGoto DEF RemovePrevious
<1>18. CASE Replaced(p)
  <2>1. PICK d \in todo[p] :
          \/ Open(d) /\ SetStatus(d, "replaced") /\ StartReplacing(p, todo[p] \ {d})
          \/ ~Open(d) /\ Return(p) /\ UNCHANGED status
    BY <1>18 DEF Replaced
  <2>2. pc[p] = "replaced" /\ UNCHANGED <<apps, owner, recorded, seq>> BY <1>18 DEF Replaced
  <2>3. CASE Open(d)
    <3>1. SetStatus(d, "replaced") /\ StartReplacing(p, todo[p] \ {d}) BY <2>1, <2>3
    <3>2. \A e \in Ids : status'[e] = IF e = d THEN "replaced" ELSE status[e]
      BY <3>1 DEF SetStatus, IInv, TypeOK
    <3>3. status'[w] \in {"running"} \union Closed BY <2>2, <3>2, <1>a DEF Closed, Final
    <3>4. \A e \in todo[p] \ {d} : status'[e] \in {"running"} \union Closed BY <3>2, <1>c
    <3>5. \A e \in Ids : RowMove(p, e)
      BY <2>3, <3>2, <1>c DEF RowMove, Open, Closed, Final, InProgress
    <3>6. \A e \in Ids : status'[e] = "running" => recorded[e] BY <3>2, <1>d
    <3> QED BY <2>2, <3>1, <3>3, <3>4, <3>5, <3>6, <1>c, Replacing1
  <2>4. CASE ~Open(d) BY <2>1, <2>2, <2>4, QuietReturn DEF rows
  <2> QED BY <2>3, <2>4
<1>19. CASE StopContainer(p) BY <1>19, <1>a, QuietGoto, QuietReturn DEF StopContainer
<1>20. CASE RemoveContainer(p) BY <1>20, <1>a, QuietGoto, QuietReturn DEF RemoveContainer
<1>21. CASE Stopped(p)
  <2>1. CASE Open(w) BY <1>21, <2>1, <1>a, CloseRow DEF Stopped, SetStatus, Final, Open, Closed, InProgress
  <2>2. CASE ~Open(w) BY <1>21, <2>2, QuietReturn DEF Stopped, rows
  <2> QED BY <2>1, <2>2
<1> QED BY <1>1, <1>2, <1>3, <1>4, <1>5, <1>6, <1>7, <1>8, <1>9, <1>10, <1>11, <1>12,
           <1>13, <1>14, <1>15, <1>16, <1>17, <1>18, <1>19, <1>20, <1>21, <1>b1, <1>c1, <1>d1
        DEF Step

-----------------------------------------------------------------------------
(* Steps that make a row, and steps around the processes. *)

LEMMA InitIInv == Init => IInv
BY InitType DEF Init, IInv, Numbered, Busy, InStep, Alone, HasRun, Stored, AtRow,
   RunningHasContainer, InTry, Late, Bare, Holding, Catching

LEMMA InsertRow ==
    ASSUME IInv, NEW p \in Procs, Insert(p)
    PROVE  /\ seq \in Ids /\ seq' = seq + 1 /\ recorded' = recorded /\ apps' = apps /\ ctr' = ctr
           /\ pc[p] = "insert" /\ wants[p] \in apps
           /\ status[seq] = "none"
           /\ \A d \in Ids : status'[d] = IF d = seq THEN "pending" ELSE status[d]
           /\ \A d \in Ids : owner'[d] = IF d = seq THEN wants[p] ELSE owner[d]
           /\ Others(p) /\ todo'[p] \subseteq todo[p]
           /\ \/ pc'[p] = "pending" /\ work'[p] = seq
              \/ pc'[p] = "idle"
<1>t. TypeOK BY DEF IInv
<1>1. /\ seq \in Ids /\ seq' = seq + 1 /\ recorded' = recorded /\ apps' = apps /\ ctr' = ctr
      /\ pc[p] = "insert" /\ wants[p] \in apps
  BY DEF Insert, AddRow
<1>2. status[seq] = "none" BY <1>1 DEF IInv, Numbered
<1>3. /\ \A d \in Ids : status'[d] = IF d = seq THEN "pending" ELSE status[d]
      /\ \A d \in Ids : owner'[d] = IF d = seq THEN wants[p] ELSE owner[d]
  BY <1>t DEF Insert, AddRow, TypeOK
<1>4. /\ Others(p) /\ todo'[p] \subseteq todo[p]
      /\ \/ pc'[p] = "pending" /\ work'[p] = seq
         \/ pc'[p] = "idle"
  <2>1. CASE Return(p) BY <1>t, <2>1 DEF Return, TypeOK, Others
  <2>2. CASE ~Return(p) BY <1>t, <2>2 DEF Insert, TypeOK, Others
  <2> QED BY <2>1, <2>2
<1> QED BY <1>1, <1>2, <1>3, <1>4

LEMMA InsertKeeps ==
    ASSUME IInv, TypeOK', NEW p \in Procs, Insert(p)
    PROVE  IInv'
<1>t. TypeOK BY DEF IInv
<1>1. /\ seq \in Ids /\ seq' = seq + 1 /\ recorded' = recorded
      /\ status[seq] = "none" /\ status'[seq] = "pending"
      /\ \A d \in Ids \ {seq} : status'[d] = status[d] /\ owner'[d] = owner[d]
      /\ Others(p) /\ todo'[p] \subseteq todo[p]
      /\ \/ pc'[p] = "pending" /\ work'[p] = seq
         \/ pc'[p] = "idle"
  BY InsertRow
<1>2. \A q \in Procs : AtRow(q) => work[q] \in Ids /\ work[q] < seq
  BY DEF IInv, Busy
<1>3. Numbered' BY <1>1 DEF IInv, Numbered
<1>4. RunningHasContainer' BY <1>1 DEF IInv, RunningHasContainer
<1>6. Busy' BY <1>1, <1>2, <1>t DEF IInv, Busy, Others, AtRow, TypeOK
<1>7. InStep'
  <2> SUFFICES ASSUME NEW q \in Procs, AtRow(q)'
               PROVE  status'[work'[q]] \in Allowed(pc'[q])
    BY DEF InStep
  <2>1. CASE q = p BY <2>1, <1>1 DEF Allowed, AtRow
  <2>2. CASE q # p BY <2>2, <1>1, <1>2 DEF Others, IInv, InStep, AtRow
  <2> QED BY <2>1, <2>2
<1>8. Alone'
  <2> SUFFICES ASSUME NEW q \in Procs, NEW r \in Procs, q # r, pc'[q] \in InTry, pc'[r] \in InTry,
                      work'[q] = work'[r]
               PROVE  FALSE
    BY DEF Alone
  <2>1. \A x \in InTry : x \notin {"idle", "insert"} BY DEF InTry, Bare, Holding, Catching
  <2>2. CASE q # p /\ r # p BY <1>1, <2>2 DEF IInv, Alone, Others
  <2>3. CASE q = p
    <3>1. work'[r] = work[r] /\ AtRow(r) /\ work'[q] = seq BY <1>1, <2>1, <2>3 DEF Others, AtRow
    <3> QED BY <1>1, <1>2, <3>1
  <2>4. CASE r = p
    <3>1. work'[q] = work[q] /\ AtRow(q) /\ work'[r] = seq BY <1>1, <2>1, <2>4 DEF Others, AtRow
    <3>2. work[q] = seq /\ work[q] \in Ids /\ work[q] < seq BY <1>2, <3>1
    <3> QED BY <3>2
  <2> QED BY <2>2, <2>3, <2>4
<1>9. HasRun'
  <2> SUFFICES ASSUME NEW q \in Procs, NEW d \in todo'[q]
               PROVE  status'[d] \in {"running"} \union Closed
    BY DEF HasRun
  <2>1. d \in todo[q] BY <1>1 DEF Others
  <2>2. d \in Ids /\ status[d] \in {"running"} \union Closed BY <1>t, <2>1 DEF IInv, HasRun, TypeOK
  <2> QED BY <1>1, <2>2 DEF Closed, Final
<1>10. Stored' BY <1>1 DEF IInv, Stored, Others, Late, Holding
<1> QED BY <1>3, <1>4, <1>6, <1>7, <1>8, <1>9, <1>10 DEF IInv

LEMMA BeginKeeps ==
    ASSUME IInv, TypeOK', NEW p \in Procs, NEW a \in AppNames, DeployBegin(p, a)
    PROVE  IInv'
<1>1. /\ pc'[p] = "insert" /\ wants'[p] = a /\ Others(p)
      /\ UNCHANGED <<apps, owner, status, recorded, seq, todo, work>>
  BY DEF DeployBegin, Others, IInv, TypeOK, rows
<1>2. Numbered' /\ RunningHasContainer' /\ HasRun'
  BY <1>1 DEF IInv, Numbered, RunningHasContainer, HasRun
<1>3. Busy' /\ InStep' BY <1>1 DEF IInv, Busy, InStep, Others, AtRow
<1>4. Alone' /\ Stored'
  BY <1>1 DEF IInv, Alone, Stored, Others, InTry, Bare, Holding, Catching, Late
<1> QED BY <1>2, <1>3, <1>4 DEF IInv

LEMMA StopBeginKeeps ==
    ASSUME IInv, TypeOK', NEW p \in Procs, NEW a \in AppNames, StopBegin(p, a)
    PROVE  IInv'
<1>1. PICK d \in Rows(a, {"running"}) : work' = [work EXCEPT ![p] = d]
  BY DEF StopBegin
<1>2. d \in Ids /\ status[d] = "running" /\ d < seq
  BY <1>1 DEF Rows, IInv, Numbered, TypeOK
<1>3. UNCHANGED <<apps, owner, status, recorded, seq, todo>> BY DEF StopBegin, rows
<1>4. pc'[p] = "stop" /\ work'[p] = d /\ Others(p)
  BY <1>1, <1>3 DEF StopBegin, Others, IInv, TypeOK
<1>5. Numbered' /\ RunningHasContainer' /\ HasRun'
  BY <1>3 DEF IInv, Numbered, RunningHasContainer, HasRun
<1>6. Busy' BY <1>2, <1>3, <1>4 DEF IInv, Busy, Others, AtRow
<1>7. InStep'
  BY <1>2, <1>3, <1>4 DEF IInv, InStep, Others, Allowed, Bare, Late, Holding, Catching, AtRow
<1>8. Alone' BY <1>4 DEF IInv, Alone, Others, InTry, Bare, Holding, Catching
<1>9. Stored' BY <1>3, <1>4 DEF IInv, Stored, Others, Late, Holding
<1> QED BY <1>5, <1>6, <1>7, <1>8, <1>9 DEF IInv

(* Rows that are closed while no process moves. *)
LEMMA ClosingKeeps ==
    ASSUME IInv, TypeOK', UNCHANGED <<owner, recorded, seq, pc, work, todo, wants>>,
           \A d \in Ids : status'[d] = status[d] \/ (status[d] # "none" /\ status'[d] \in Closed)
    PROVE  IInv'
<1>1. \A d \in Ids : status'[d] \in {"none", "running"} \union InProgress => status'[d] = status[d]
  BY DEF Closed, Final, InProgress
<1>2. \A where : Closed \subseteq Allowed(where) BY DEF Allowed
<1>3. Numbered' BY <1>1 DEF IInv, Numbered
<1>4. Busy' /\ Alone' /\ Stored' BY DEF IInv, Busy, Alone, Stored, AtRow
<1>5. InStep' BY <1>2 DEF IInv, InStep, Busy, AtRow
<1>6. HasRun' BY DEF IInv, HasRun, TypeOK
<1>8. RunningHasContainer' BY <1>1 DEF IInv, RunningHasContainer
<1> QED BY <1>3, <1>4, <1>5, <1>6, <1>8 DEF IInv

LEMMA SameRowsKeeps ==
    ASSUME IInv, TypeOK', UNCHANGED <<owner, status, recorded, seq, pc, work, todo, wants>>
    PROVE  IInv'
BY ClosingKeeps

LEMMA DeleteMove ==
    ASSUME IInv, NEW a \in AppNames, DeleteApp(a), NEW d \in Ids
    PROVE  \/ status'[d] = status[d]
           \/ status[d] \notin {"none", "running"} /\ status'[d] = "deleted"
<1>1. CASE owner[d] = a
  BY <1>1, EngineAssumption DEF DeleteApp, Deletable, Rows, IInv, Numbered
<1>2. CASE owner[d] # a BY <1>2 DEF DeleteApp
<1> QED BY <1>1, <1>2

LEMMA NextIInv == IInv /\ [Next]_vars => IInv'
<1> SUFFICES ASSUME IInv, [Next]_vars PROVE IInv' OBVIOUS
<1> TypeOK' BY NextType DEF IInv
<1>1. ASSUME NEW a \in AppNames, CreateApp(a) PROVE IInv'
  BY <1>1, SameRowsKeeps DEF CreateApp, procVars
<1>2. ASSUME NEW a \in AppNames, DeleteApp(a) PROVE IInv'
  <2>1. \A d \in Ids : status'[d] = status[d] \/ (status[d] # "none" /\ status'[d] \in Closed)
    BY <1>2, DeleteMove DEF Closed
  <2>2. UNCHANGED <<owner, recorded, seq, pc, work, todo, wants>> BY <1>2 DEF DeleteApp, procVars
  <2> QED BY <2>1, <2>2, ClosingKeeps
<1>4. ASSUME NEW p \in Procs, NEW a \in AppNames, DeployBegin(p, a) PROVE IInv'
  BY <1>4, BeginKeeps
<1>5. ASSUME NEW p \in Procs, NEW a \in AppNames, StopBegin(p, a) PROVE IInv'
  BY <1>5, StopBeginKeeps
<1>6. ASSUME NEW p \in Procs, Step(p) PROVE IInv'
  BY <1>6, InsertKeeps, StepOne, OneStepKeeps
<1>7. ASSUME NEW p \in Procs, Crash(p) PROVE IInv'
  BY <1>7, QuietReturn, OneStepKeeps DEF Crash
<1>8. ASSUME NEW p \in Procs, Misbehave(p) PROVE IInv'
  BY <1>8, SameRowsKeeps DEF Misbehave, procVars, rows
<1>9. ASSUME NEW d \in Ids, OutOfBand(d) PROVE IInv'
  BY <1>9, SameRowsKeeps DEF OutOfBand, procVars, rows
<1>10. ASSUME NEW d \in Ids, ReconcileMark(d) PROVE IInv'
  <2>1. \A e \in Ids : status'[e] = status[e] \/ (status[e] # "none" /\ status'[e] \in Closed)
    BY <1>10 DEF ReconcileMark, SetStatus, Open, Closed, Final, InProgress, IInv, TypeOK
  <2>2. UNCHANGED <<owner, recorded, seq, pc, work, todo, wants>> BY <1>10 DEF ReconcileMark, procVars
  <2> QED BY <2>1, <2>2, ClosingKeeps
<1>11. CASE UNCHANGED vars BY <1>11, SameRowsKeeps DEF vars
<1> QED BY <1>1, <1>2, <1>4, <1>5, <1>6, <1>7, <1>8, <1>9, <1>10, <1>11 DEF Next

(* What each process knows of its row at each await is so in every state.  *)
THEOREM Invariant == Spec => []IInv
BY InitIInv, NextIInv, PTL DEF Spec

(* A process between its check and its insert has seen its app without a   *)
(* deployment in flight, and as long as nobody else is there for the app   *)
(* it stays so.                                                            *)
Cleared ==
    /\ OneInFlight
    /\ \A p \in Procs : pc[p] = "insert" => Rows(wants[p], InProgress) = {}

LEMMA InitCleared == Init => Cleared
BY DEF Init, Cleared, OneInFlight, Rows, InProgress

LEMMA NextCleared ==
    ASSUME IInv, Cleared, OneChecking, [Next]_vars
    PROVE  Cleared'
<1>t. TypeOK BY DEF IInv
<1>q. ASSUME \A d \in Ids : status'[d] \in InProgress => status[d] \in InProgress /\ owner'[d] = owner[d],
             \A q \in Procs : pc'[q] = "insert" =>
                 \/ pc[q] = "insert" /\ wants'[q] = wants[q]
                 \/ Rows(wants'[q], InProgress) = {}
      PROVE  Cleared'
  <2>1. OneInFlight' BY <1>q DEF Cleared, OneInFlight
  <2>2. ASSUME NEW q \in Procs, pc'[q] = "insert" PROVE Rows(wants[q], InProgress)' = {}
    BY <1>q, <2>2 DEF Cleared, Rows
  <2> QED BY <2>1, <2>2 DEF Cleared
<1>1. ASSUME NEW a \in AppNames, CreateApp(a) PROVE Cleared'
  BY <1>1, <1>q DEF CreateApp, procVars
<1>2. ASSUME NEW a \in AppNames, DeleteApp(a) PROVE Cleared'
  <2>1. UNCHANGED <<owner, pc, wants>> BY <1>2 DEF DeleteApp, procVars
  <2>2. \A d \in Ids : status'[d] = status[d] \/ status'[d] = "deleted" BY <1>2, DeleteMove
  <2> QED BY <1>q, <2>1, <2>2 DEF InProgress
<1>3. ASSUME NEW p \in Procs, NEW a \in AppNames, DeployBegin(p, a) PROVE Cleared'
  <2>1. /\ UNCHANGED <<owner, status>> /\ Rows(a, InProgress) = {}
        /\ wants'[p] = a /\ \A q \in Procs \ {p} : pc'[q] = pc[q] /\ wants'[q] = wants[q]
    BY <1>3, <1>t DEF DeployBegin, TypeOK, rows, Blocking
  <2> QED BY <1>q, <2>1
<1>4. ASSUME NEW p \in Procs, NEW a \in AppNames, StopBegin(p, a) PROVE Cleared'
  <2>1. UNCHANGED <<owner, status, wants>> BY <1>4 DEF StopBegin, rows
  <2>2. pc'[p] = "stop" /\ \A q \in Procs \ {p} : pc'[q] = pc[q] BY <1>4, <1>t DEF StopBegin, TypeOK
  <2> QED BY <1>q, <2>1, <2>2
<1>5. ASSUME NEW p \in Procs, Insert(p) PROVE Cleared'
  <2>1. /\ seq \in Ids /\ pc[p] = "insert" /\ Others(p) /\ pc'[p] \in {"pending", "idle"}
        /\ \A d \in Ids : status'[d] = IF d = seq THEN "pending" ELSE status[d]
        /\ \A d \in Ids : owner'[d] = IF d = seq THEN wants[p] ELSE owner[d]
    BY <1>5, InsertRow
  <2>2. \A d \in Ids : owner[d] = wants[p] => status[d] \notin InProgress
    BY <2>1 DEF Cleared, Rows
  <2>3. OneInFlight' BY <2>1, <2>2 DEF Cleared, OneInFlight
  <2>4. ASSUME NEW q \in Procs, pc'[q] = "insert" PROVE Rows(wants[q], InProgress)' = {}
    <3>1. q # p /\ pc[q] = "insert" /\ wants'[q] = wants[q] BY <2>1, <2>4 DEF Others
    <3>2. wants[q] # wants[p] BY <2>1, <3>1 DEF OneChecking
    <3>3. \A d \in Ids : owner[d] = wants[q] => status[d] \notin InProgress
      BY <3>1 DEF Cleared, Rows
    <3> QED BY <2>1, <3>1, <3>2, <3>3 DEF Rows
  <2> QED BY <2>3, <2>4 DEF Cleared
<1>6. ASSUME NEW p \in Procs, OneStep(p), pc'[p] # "insert" PROVE Cleared'
  <2>1. \A d \in Ids : status'[d] \in InProgress => status[d] \in InProgress
    BY <1>6 DEF OneStep, RowMove, InProgress, Final
  <2> QED BY <1>6, <1>q, <2>1 DEF OneStep, Others
<1>7. ASSUME NEW p \in Procs, Step(p), ~Insert(p) PROVE Cleared'
  <2>1. OneStep(p) BY <1>7, StepOne
  <2>2. pc'[p] # "insert" BY <2>1 DEF OneStep, Onwards, AtRow
  <2> QED BY <1>6, <2>1, <2>2
<1>8. ASSUME NEW p \in Procs, Crash(p) PROVE Cleared'
  <2>1. pc'[p] = "idle" /\ \A q \in Procs \ {p} : pc'[q] = pc[q] /\ wants'[q] = wants[q]
    BY <1>8, <1>t DEF Crash, Return, TypeOK
  <2>2. UNCHANGED <<owner, status>> BY <1>8 DEF Crash, rows
  <2> QED BY <1>q, <2>1, <2>2
<1>9. ASSUME UNCHANGED <<owner, status, pc, wants>> PROVE Cleared' BY <1>9, <1>q
<1>10. ASSUME NEW d \in Ids, ReconcileMark(d) PROVE Cleared'
  <2>1. UNCHANGED <<owner, pc, wants>> BY <1>10 DEF ReconcileMark, procVars
  <2>2. \A e \in Ids : status'[e] = status[e] \/ status'[e] = "failed"
    BY <1>10, <1>t DEF ReconcileMark, SetStatus, TypeOK
  <2> QED BY <1>q, <2>1, <2>2 DEF InProgress
<1> QED BY <1>1, <1>2, <1>3, <1>4, <1>5, <1>7, <1>8, <1>9, <1>10
        DEF Next, Misbehave, OutOfBand, vars, procVars, rows

(* As long as no two processes are between check and insert for one app,   *)
(* at most one deployment of it is in flight: no kill, no throw and no     *)
(* reconcile opens another way to a second one.                            *)
THEOREM OneInFlightUnlessCrossedAlways == Spec => OneInFlightUnlessCrossed
<1>1. Init => Cleared BY InitCleared
<1>2. IInv /\ Cleared /\ OneChecking /\ [Next]_vars => Cleared' BY NextCleared
<1>3. Cleared => OneInFlight BY DEF Cleared
<1> QED BY <1>1, <1>2, <1>3, Invariant, PTL DEF Spec, OneInFlightUnlessCrossed

(* A running deployment has its container id stored.                       *)
THEOREM RunningHasContainerAlways == Spec => []RunningHasContainer
<1>1. IInv => RunningHasContainer BY DEF IInv
<1> QED BY <1>1, Invariant, PTL

-----------------------------------------------------------------------------
(* The walk of a status. *)

LEMMA NextStatus ==
    ASSUME IInv, [Next]_vars, NEW d \in Ids, status'[d] # status[d]
    PROVE  \/ status[d] = "none" /\ status'[d] = "pending"
           \/ status[d] = "pending" /\ status'[d] = "pulling"
           \/ status[d] = "pulling" /\ status'[d] = "starting"
           \/ status[d] = "starting" /\ status'[d] = "running"
           \/ status[d] \in InProgress /\ status'[d] = "failed"
           \/ status[d] = "running" /\ status'[d] \in Final
           \/ status[d] \notin {"none", "running", "deleted"} /\ status'[d] = "deleted"
<1> TypeOK' BY NextType DEF IInv
<1>1. ASSUME NEW a \in AppNames, CreateApp(a) PROVE FALSE BY <1>1 DEF CreateApp
<1>2. CASE \E a \in AppNames : DeleteApp(a) BY <1>2, DeleteMove
<1>4. ASSUME NEW p \in Procs, NEW a \in AppNames, DeployBegin(p, a) PROVE FALSE
  BY <1>4 DEF DeployBegin, rows
<1>5. ASSUME NEW p \in Procs, NEW a \in AppNames, StopBegin(p, a) PROVE FALSE
  BY <1>5 DEF StopBegin, rows
<1>6. CASE \E p \in Procs : Step(p)
  <2>1. CASE \E p \in Procs : Insert(p) BY <2>1, InsertRow
  <2>2. CASE ~\E p \in Procs : Insert(p)
    <3>1. PICK p \in Procs : RowMove(p, d) BY <1>6, <2>2, StepOne DEF OneStep
    <3> QED BY <3>1 DEF RowMove
  <2> QED BY <2>1, <2>2
<1>7. ASSUME NEW p \in Procs, Crash(p) \/ Misbehave(p) PROVE FALSE
  BY <1>7 DEF Crash, Misbehave, rows
<1>8. ASSUME NEW e \in Ids, OutOfBand(e) PROVE FALSE BY <1>8 DEF OutOfBand, rows
<1>9. CASE \E e \in Ids : ReconcileMark(e)
  BY <1>9 DEF ReconcileMark, SetStatus, Open, IInv, TypeOK, Final
<1>10. CASE UNCHANGED vars BY <1>10 DEF vars
<1> QED BY <1>1, <1>2, <1>4, <1>5, <1>6, <1>7, <1>8, <1>9, <1>10 DEF Next

(* No interleaving of deploys, stops, deletions, crashes and reconciles    *)
(* skips a status, takes one back or revives a finished deployment, as far *)
(* as they interleave at awaits (FinalStaysUncrossed has the statements).  *)
THEOREM StatusPathAlways == Spec => StatusPath
<1>1. ASSUME IInv, [Next]_vars, NEW d \in Ids, status'[d] # status[d]
      PROVE  status'[d] \in Walk[status[d]]
  BY <1>1, NextStatus DEF Walk, InProgress, Final, IInv, TypeOK, Statuses
<1>2. IInv /\ [Next]_vars
        => [\A d \in Ids : status'[d] # status[d] => status'[d] \in Walk[status[d]]]_vars
  BY <1>1
<1> QED BY <1>2, Invariant, PTL DEF Spec, StatusPath

-----------------------------------------------------------------------------
(* Who touches a container. *)

(* A step of a process changes the container it deploys, the one it stops, *)
(* or one that is left to be replaced.                                     *)
LEMMA StepTouches ==
    ASSUME TypeOK, NEW p \in Procs, Step(p), NEW d \in Ids, ctr'[d] # ctr[d]
    PROVE  \/ Watches(p, d)
           \/ d \in todo[p]
           \/ pc[p] \in Stopping /\ d = work[p]
<1> USE DEF TypeOK, SetContainer, Watches, Bare, Holding, Stopping
<1>0. CASE Insert(p) \/ NotInserted(p) \/ SetPulling(p) \/ WriteFails(p)
  BY <1>0 DEF Insert, NotInserted, SetPulling, WriteFails
<1>1. CASE Pulled(p) \/ Probe(p) \/ Verdict(p) \/ NotFound(p) \/ HookDone(p) \/ HookFails(p)
  BY <1>1 DEF Pulled, Probe, Verdict, NotFound, HookDone, HookFails
<1>2. CASE Created(p) BY <1>2 DEF Created
<1>3. CASE RecordStarting(p) \/ Reaped(p) \/ GiveUp(p) \/ Promote(p) \/ Replaced(p) \/ Stopped(p)
  BY <1>3 DEF RecordStarting, Reaped, GiveUp, Promote, Replaced, Stopped
<1>4. CASE Started(p) \/ Reap(p) \/ CallFails(p) \/ ForceRemove(p)
  BY <1>4 DEF Started, Reap, CallFails, ForceRemove
<1>5. CASE StopPrevious(p) \/ RemovePrevious(p) BY <1>5 DEF StopPrevious, RemovePrevious
<1>6. CASE StopContainer(p) \/ RemoveContainer(p) BY <1>6 DEF StopContainer, RemoveContainer
<1> QED BY <1>0, <1>1, <1>2, <1>3, <1>4, <1>5, <1>6 DEF Step

LEMMA NextHands ==
    ASSUME IInv, [Next]_vars, NEW d \in Ids, status[d] \in InProgress, ctr'[d] # ctr[d]
    PROVE  OutOfBand(d) \/ \E p \in Procs : Watches(p, d)
<1> TypeOK BY DEF IInv
<1>1. CASE \E p \in Procs : Step(p)
  <2>1. PICK p \in Procs : Step(p) BY <1>1
  <2>2. d \notin todo[p] BY DEF IInv, HasRun, Closed, InProgress, Final
  <2>3. ~(pc[p] \in Stopping /\ d = work[p])
    BY DEF IInv, InStep, Allowed, Stopping, Bare, Holding, Late, Catching, Closed, InProgress, Final, AtRow
  <2> QED BY <2>1, <2>2, <2>3, StepTouches
<1>2. CASE \E p \in Procs : Misbehave(p)
  BY <1>2 DEF Misbehave, SetContainer, Watches, Holding, TypeOK
<1>3. CASE \E e \in Ids : OutOfBand(e)
  BY <1>3 DEF OutOfBand, SetContainer, TypeOK
<1>4. ASSUME NEW a \in AppNames,
             \/ CreateApp(a) \/ DeleteApp(a)
             \/ \E p \in Procs : DeployBegin(p, a) \/ StopBegin(p, a)
      PROVE  FALSE
  BY <1>4 DEF CreateApp, DeleteApp, DeployBegin, StopBegin
<1>5. ASSUME (\E p \in Procs : Crash(p)) \/ (\E e \in Ids : ReconcileMark(e)) PROVE FALSE
  BY <1>5 DEF Crash, ReconcileMark
<1>6. CASE UNCHANGED vars BY <1>6 DEF vars
<1> QED BY <1>1, <1>2, <1>3, <1>4, <1>5, <1>6 DEF Next

(* While a deployment is in flight, no process but its own touches its     *)
(* container, however slow a hook, a stop or a replacement is.             *)
THEOREM HandsOffAlways == Spec => HandsOff
<1>1. IInv /\ [Next]_vars
        => [\A d \in Ids :
              status[d] \in InProgress /\ ctr'[d] # ctr[d]
                  => OutOfBand(d) \/ \E p \in Procs : Watches(p, d)]_vars
  BY NextHands
<1> QED BY <1>1, Invariant, PTL DEF Spec, HandsOff

-----------------------------------------------------------------------------
(* No container is left behind, unless a fault leaves it to reconcile: a   *)
(* killed process, a reply that is lost, a removal that is refused, a row  *)
(* that a reconcile fails.  Calls and hooks may fail, and containers exit, *)
(* be restarted and be removed behind paas's back.                         *)
Clean == {"crash", "removeError", "lostReply", "mark"} \intersect Faults = {}

(* Where a process has made sure that its container is gone, or has not    *)
(* made it yet.                                                            *)
GoneAt == {"pending", "pull", "create", "reaped", "giveUp", "stopped"}

Gone == \A p \in Procs : pc[p] \in GoneAt => ctr[work[p]] = "absent"

(* What replacePrevious marks replaced has lost its container. *)
GoneFirst ==
    \A p \in Procs :
        pc[p] = "replaced" => \A d \in todo[p] : Newest(d, todo[p]) => ctr[d] = "absent"

(* What a process takes down, no process is still deploying.  (One that is *)
(* cleaning up may have its row running, when it could not add the event.) *)
Trying == InTry \ Catching

Untouched ==
    \A p, q \in Procs :
        pc[q] \in Trying => /\ work[q] \notin todo[p]
                            /\ pc[p] \in Stopping => work[p] # work[q]

CInv == IInv /\ NoLeak /\ Gone /\ GoneFirst /\ Untouched

(* What a step of a process may do to the containers. *)
CtrStep(p) ==
    /\ \A d \in Ids : ctr[d] = "absent" /\ ctr'[d] # "absent" =>
          pc[p] = "create" /\ d = work[p] /\ Watches(p, d)'
    /\ \A d \in Ids : Watches(p, d) =>
          Watches(p, d)' \/ ctr'[d] = "absent" \/ status'[d] = "running"
    /\ \A d \in Ids : status[d] = "running" => status'[d] = "running" \/ ctr'[d] = "absent"
    /\ pc'[p] \in GoneAt => ctr'[work'[p]] = "absent"
    /\ pc'[p] = "replaced" =>
          \A d \in todo'[p] : Newest(d, todo'[p]) => ctr'[d] = "absent"
    /\ \A d \in todo'[p] : d \in todo[p] \/ status[d] = "running"
    /\ pc'[p] \in Trying => pc[p] \in Trying /\ work'[p] = work[p]
    /\ pc'[p] \in Stopping => pc[p] \in Stopping /\ work'[p] = work[p]

LEMMA CtrStepKeeps ==
    ASSUME CInv, NEW p \in Procs, OneStep(p), CtrStep(p)
    PROVE  NoLeak' /\ Gone' /\ GoneFirst' /\ Untouched'
<1> USE DEF CtrStep
<1>c. /\ "create" \in Trying /\ "create" \in InTry
      /\ GoneAt \subseteq InTry \union Stopping
      /\ \A where \in Trying : where \in Bare \union Holding /\ where \in InTry
  BY DEF GoneAt, Trying, InTry, Bare, Holding, Catching, Stopping
<1>o. /\ IInv /\ TypeOK
      /\ \A q \in Procs : q # p => pc'[q] = pc[q] /\ work'[q] = work[q] /\ todo'[q] = todo[q]
  BY DEF OneStep, Others, CInv, IInv
<1>b. \A q \in Procs : AtRow(q) => work[q] \in Ids BY <1>o DEF IInv, Busy
<1>1. NoLeak'
  <2> SUFFICES ASSUME NEW d \in Ids, ctr'[d] # "absent"
               PROVE  status'[d] = "running" \/ \E q \in Procs : Watches(q, d)'
    BY DEF NoLeak
  <2>1. CASE ctr[d] = "absent" BY <2>1
  <2>2. CASE status[d] = "running" BY <2>2
  <2>3. ASSUME NEW q \in Procs, Watches(q, d)
        PROVE  status'[d] = "running" \/ \E x \in Procs : Watches(x, d)'
    <3>1. CASE q = p BY <2>3, <3>1
    <3>2. CASE q # p
      <4>1. Watches(q, d)' BY <2>3, <3>2, <1>o DEF Watches
      <4> QED BY <4>1
    <3> QED BY <3>1, <3>2
  <2> QED BY <2>1, <2>2, <2>3 DEF CInv, NoLeak
<1>2. Gone'
  <2> SUFFICES ASSUME NEW q \in Procs, pc'[q] \in GoneAt PROVE ctr'[work'[q]] = "absent"
    BY DEF Gone
  <2>1. CASE q = p BY <2>1
  <2>2. CASE q # p
    <3>1. pc[q] \in GoneAt /\ work'[q] = work[q] /\ work[q] \in Ids /\ ctr[work[q]] = "absent"
      BY <2>2, <1>o, <1>b DEF CInv, Gone, GoneAt, AtRow
    <3>2. ~(pc[p] = "create" /\ work[p] = work[q])
      BY <2>2, <3>1, <1>o, <1>c DEF CInv, IInv, Alone, Untouched
    <3> QED BY <3>1, <3>2
  <2> QED BY <2>1, <2>2
<1>3. GoneFirst'
  <2> SUFFICES ASSUME NEW q \in Procs, pc'[q] = "replaced",
                      NEW d \in todo'[q], Newest(d, todo'[q])
               PROVE  ctr'[d] = "absent"
    BY DEF GoneFirst, Newest
  <2>1. CASE q = p BY <2>1
  <2>2. CASE q # p
    <3>1. pc[q] = "replaced" /\ d \in todo[q] /\ Newest(d, todo[q]) /\ d \in Ids
      BY <2>2, <1>o DEF TypeOK
    <3>2. ctr[d] = "absent" BY <3>1 DEF CInv, GoneFirst
    <3>3. ~(pc[p] = "create" /\ work[p] = d) BY <3>1, <1>c DEF CInv, Untouched
    <3> QED BY <3>1, <3>2, <3>3
  <2> QED BY <2>1, <2>2
<1>4. Untouched'
  <2> SUFFICES ASSUME NEW x \in Procs, NEW q \in Procs, pc'[q] \in Trying
               PROVE  work'[q] \notin todo'[x] /\ (pc'[x] \in Stopping => work'[x] # work'[q])
    BY DEF Untouched
  <2>1. pc[q] \in Trying /\ work'[q] = work[q] BY <1>o
  <2>2. status[work[q]] # "running"
    <3>1. status[work[q]] \in Allowed(pc[q]) /\ pc[q] \in Bare \union Holding
      BY <2>1, <1>o, <1>c DEF IInv, InStep, AtRow, Bare, Holding
    <3> QED BY <3>1 DEF Allowed, Bare, Holding, Late, Closed, Final
  <2>3. work[q] \notin todo[x] /\ (pc[x] \in Stopping => work[x] # work[q])
    BY <2>1 DEF CInv, Untouched
  <2> QED BY <2>1, <2>2, <2>3, <1>o
<1> QED BY <1>1, <1>2, <1>3, <1>4

(* Nobody moves; containers go or stay, and what runs by the records does  *)
(* so on.                                                                  *)
LEMMA AroundKeeps ==
    ASSUME CInv, UNCHANGED procVars, ctr' \in [Ids -> CtrStates],
           \A d \in Ids : ctr[d] = "absent" => ctr'[d] = "absent",
           \A d \in Ids : status[d] = "running" => status'[d] = "running"
    PROVE  NoLeak' /\ Gone' /\ GoneFirst' /\ Untouched'
<1> USE DEF CInv, procVars
<1>1. NoLeak' BY DEF NoLeak, Watches
<1>2. Gone' BY DEF Gone, GoneAt, IInv, Busy, AtRow
<1>3. GoneFirst' BY DEF GoneFirst, Newest, IInv, TypeOK
<1>4. Untouched' BY DEF Untouched
<1> QED BY <1>1, <1>2, <1>3, <1>4

LEMMA BeginCtr ==
    ASSUME CInv, NEW p \in Procs, NEW a \in AppNames, DeployBegin(p, a)
    PROVE  NoLeak' /\ Gone' /\ GoneFirst' /\ Untouched'
<1>1. /\ pc[p] = "idle" /\ pc'[p] = "insert" /\ UNCHANGED <<status, ctr, work, todo>>
      /\ \A q \in Procs : q # p => pc'[q] = pc[q]
  BY DEF DeployBegin, rows, CInv, IInv, TypeOK
<1>2. NoLeak'
  <2>1. ASSUME NEW q \in Procs, NEW d \in Ids, Watches(q, d) PROVE Watches(q, d)'
    BY <2>1, <1>1 DEF Watches, Bare, Holding
  <2> QED BY <2>1, <1>1 DEF NoLeak, CInv
<1>3. Gone' BY <1>1 DEF CInv, Gone, GoneAt
<1>4. GoneFirst' BY <1>1 DEF CInv, GoneFirst, Newest
<1>5. Untouched' BY <1>1 DEF CInv, Untouched, Trying, InTry, Bare, Holding, Catching, Stopping
<1> QED BY <1>2, <1>3, <1>4, <1>5

LEMMA InsertCtr ==
    ASSUME CInv, NEW p \in Procs, Insert(p)
    PROVE  NoLeak' /\ Gone' /\ GoneFirst' /\ Untouched'
<1> USE DEF CInv
<1>t. IInv /\ TypeOK BY DEF IInv
<1>1. /\ seq \in Ids /\ ctr' = ctr /\ pc[p] = "insert" /\ status[seq] = "none"
      /\ \A d \in Ids : status'[d] = IF d = seq THEN "pending" ELSE status[d]
      /\ Others(p) /\ todo'[p] \subseteq todo[p]
      /\ \/ pc'[p] = "pending" /\ work'[p] = seq
         \/ pc'[p] = "idle"
  BY <1>t, InsertRow
<1>2. \A q \in Procs : AtRow(q) => work[q] \in Ids /\ work[q] # seq
  BY <1>t DEF IInv, Busy, TypeOK
<1>3. \A q \in Procs : seq \notin todo[q]
  BY <1>t, <1>1 DEF IInv, HasRun, Closed, Final
<1>4. \A q \in Procs : ~Watches(q, seq)
  BY <1>2 DEF Watches, Bare, Holding, AtRow
<1>5. ctr[seq] = "absent" BY <1>1, <1>4 DEF NoLeak
<1>6. NoLeak'
  <2> SUFFICES ASSUME NEW d \in Ids, ctr[d] # "absent"
               PROVE  status'[d] = "running" \/ \E q \in Procs : Watches(q, d)'
    BY <1>1 DEF NoLeak
  <2>1. CASE status[d] = "running" BY <2>1, <1>1
  <2>2. ASSUME NEW q \in Procs, Watches(q, d) PROVE Watches(q, d)'
    BY <2>2, <1>1 DEF Watches, Bare, Holding, Others
  <2> QED BY <2>1, <2>2 DEF NoLeak
<1>7. Gone' BY <1>1, <1>5 DEF Gone, GoneAt, Others
<1>8. GoneFirst' BY <1>1 DEF GoneFirst, Newest, Others
<1>9. Untouched'
  <2> SUFFICES ASSUME NEW x \in Procs, NEW q \in Procs, pc'[q] \in Trying
               PROVE  work'[q] \notin todo'[x] /\ (pc'[x] \in Stopping => work'[x] # work'[q])
    BY DEF Untouched
  <2>1. todo'[x] \subseteq todo[x] BY <1>1 DEF Others
  <2>2. pc'[x] \in Stopping => x # p /\ pc[x] = pc'[x] /\ work'[x] = work[x] /\ AtRow(x)
    BY <1>1 DEF Others, Stopping, AtRow
  <2>3. CASE q = p
    <3>1. work'[q] = seq BY <1>1, <2>3 DEF Trying, InTry, Bare, Holding, Catching
    <3> QED BY <1>2, <1>3, <2>1, <2>2, <3>1
  <2>4. CASE q # p
    <3>1. pc[q] \in Trying /\ work'[q] = work[q] BY <1>1, <2>4 DEF Others
    <3>2. work[q] \notin todo[x] /\ (pc[x] \in Stopping => work[x] # work[q])
      BY <3>1 DEF Untouched
    <3> QED BY <2>1, <2>2, <3>1, <3>2
  <2> QED BY <2>3, <2>4
<1> QED BY <1>6, <1>7, <1>8, <1>9

LEMMA StopCtr ==
    ASSUME CInv, NEW p \in Procs, NEW a \in AppNames, StopBegin(p, a)
    PROVE  NoLeak' /\ Gone' /\ GoneFirst' /\ Untouched'
<1> USE DEF CInv
<1>t. IInv /\ TypeOK BY DEF IInv
<1>1. PICK d \in Ids : status[d] = "running" /\ work' = [work EXCEPT ![p] = d]
  BY DEF StopBegin, Rows
<1>2. /\ pc[p] = "idle" /\ pc'[p] = "stop" /\ work'[p] = d
      /\ \A q \in Procs : q # p => pc'[q] = pc[q] /\ work'[q] = work[q]
      /\ UNCHANGED <<status, ctr, todo>>
  BY <1>1, <1>t DEF StopBegin, TypeOK, rows
<1>3. \A q \in Procs : pc[q] \in Trying => work[q] # d
  BY <1>1, <1>t DEF IInv, InStep, Allowed, Trying, InTry, Bare, Holding, Catching, Late, Closed,
                    Final, AtRow
<1>4. NoLeak'
  <2>1. ASSUME NEW q \in Procs, NEW e \in Ids, Watches(q, e) PROVE Watches(q, e)'
    BY <2>1, <1>2 DEF Watches, Bare, Holding
  <2> QED BY <2>1, <1>2 DEF NoLeak
<1>5. Gone' BY <1>2 DEF Gone, GoneAt
<1>6. GoneFirst' BY <1>2 DEF GoneFirst, Newest
<1>7. Untouched' BY <1>2, <1>3 DEF Untouched, Trying, InTry, Bare, Holding
<1> QED BY <1>4, <1>5, <1>6, <1>7

(* A step that stays in the deploy: its container is as it was, or goes,   *)
(* or runs instead of being created.                                       *)
LEMMA StaysWatching ==
    ASSUME CInv, NEW p \in Procs, NEW where, Goto(p, where),
           pc[p] \in Trying, where \in Bare \union Holding \union {"forceRemove"},
           where \in GoneAt => ctr'[work[p]] = "absent",
           \A d \in Ids : status[d] = "running" => status'[d] = "running",
           \A d \in Ids : ctr[d] = "absent" => ctr'[d] = "absent"
    PROVE  CtrStep(p)
<1>1. pc'[p] = where /\ work'[p] = work[p] /\ todo'[p] = todo[p]
  BY DEF CInv, IInv, TypeOK, Goto
<1> QED BY <1>1 DEF CtrStep, Watches, Trying, InTry, Bare, Holding, Stopping

(* A step by which the process is done with its container, or one that it  *)
(* takes without one.                                                      *)
LEMMA LetsGo ==
    ASSUME CInv, NEW p \in Procs,
           pc'[p] \notin InTry \union GoneAt \union {"replaced"},
           pc'[p] \in Stopping => pc[p] \in Stopping /\ work'[p] = work[p],
           \A d \in todo'[p] : d \in todo[p] \/ status[d] = "running",
           \A d \in Ids : Watches(p, d) => ctr'[d] = "absent" \/ status'[d] = "running",
           \A d \in Ids : status[d] = "running" => status'[d] = "running" \/ ctr'[d] = "absent",
           \A d \in Ids : ctr[d] = "absent" => ctr'[d] = "absent"
    PROVE  CtrStep(p)
BY DEF CtrStep, Trying

(* Where replacePrevious and stopApp leave a process. *)
LEMMA ReplacingLeaves ==
    ASSUME TypeOK, NEW p \in Procs, NEW S \in SUBSET Ids, StartReplacing(p, S)
    PROVE  /\ pc'[p] \in {"idle", "stopPrevious"}
           /\ todo'[p] \subseteq S
BY DEF StartReplacing, Return, TypeOK

LEMMA StepCtr ==
    ASSUME Clean, CInv, NEW p \in Procs, Step(p), ~Insert(p)
    PROVE  CtrStep(p)
<1> USE DEF Trying, Catching, AtRow
<1> DEFINE w == work[p]
<1>t. /\ TypeOK /\ IInv
      /\ pc \in [Procs -> Pcs] /\ work \in [Procs -> Ids \union {0}]
      /\ todo \in [Procs -> SUBSET Ids] /\ ctr \in [Ids -> CtrStates]
      /\ status \in [Ids -> Statuses \union {"none", "deleted"}]
  BY DEF CInv, IInv, TypeOK
<1>w. AtRow(p) => w \in Ids BY <1>t DEF IInv, Busy
<1>g. \A where : Goto(p, where) => /\ pc'[p] = where /\ work'[p] = w /\ todo'[p] = todo[p]
  BY <1>t DEF Goto
<1>r. Return(p) => /\ pc'[p] = "idle" /\ todo'[p] = {}
  BY <1>t DEF Return
<1>c. "removeError" \notin Faults /\ "lostReply" \notin Faults BY DEF Clean
<1>n. \A d \in Ids : Watches(p, d) => d = w /\ pc[p] \in InTry BY DEF Watches, InTry
<1>a. CASE NotInserted(p)
  BY <1>a, <1>r, <1>n, LetsGo DEF NotInserted, rows, InTry, Bare, Holding, GoneAt, Stopping
<1>b. CASE SetPulling(p)
  <2>1. pc[p] = "pending" /\ ctr' = ctr /\ ctr[w] = "absent"
    BY <1>b DEF SetPulling, CInv, Gone, GoneAt
  <2>2. CASE Open(w) /\ SetStatus(w, "pulling") /\ Goto(p, "pull")
    <3>1. status[w] # "running"
      BY <2>1, <1>t, <1>w DEF IInv, InStep, Allowed, Bare, Closed, Final
    <3>2. \A d \in Ids : status[d] = "running" => status'[d] = "running"
      BY <2>2, <3>1, <1>t DEF SetStatus
    <3> QED BY <2>1, <2>2, <3>2, StaysWatching DEF InTry, Bare, Holding
  <2>3. CASE ~Open(w) /\ Goto(p, "giveUp") /\ UNCHANGED status
    BY <2>1, <2>3, <1>g, <1>n DEF CtrStep, GoneAt, InTry, Bare, Stopping
  <2> QED BY <1>b, <2>2, <2>3 DEF SetPulling, CatchAt, Holding
<1>d. CASE WriteFails(p)
  <2>1. pc[p] \in {"pending", "created", "reaped", "healthy", "giveUp", "replaced", "stopped"}
    BY <1>d DEF WriteFails, Written
  <2>2. ctr' = ctr BY <1>d DEF WriteFails
  <2>3. \A d \in Ids : status[d] = "running" => status'[d] = "running" \/ ctr[d] = "absent"
    <3>1. CASE status' = status BY <3>1
    <3>2. ASSUME NEW d \in Ids,
                 IF pc[p] = "replaced" THEN Newest(d, todo[p]) ELSE d = w,
                 SetStatus(d, Written[pc[p]])
          PROVE  status[d] = "running" => ctr[d] = "absent"
      <4>1. CASE pc[p] = "replaced" BY <3>2, <4>1 DEF CInv, GoneFirst, Newest
      <4>2. CASE pc[p] \in {"giveUp", "stopped", "pending", "reaped"}
        BY <3>2, <4>2 DEF CInv, Gone, GoneAt
      <4>3. CASE pc[p] \in {"created", "healthy"}
        BY <3>2, <4>3, <1>t DEF IInv, InStep, Allowed, Bare, Holding, Late, Closed, Final
      <4> QED BY <2>1, <4>1, <4>2, <4>3
    <3>3. CASE \E d \in Ids :
                 /\ IF pc[p] = "replaced" THEN Newest(d, todo[p]) ELSE d = w
                 /\ SetStatus(d, Written[pc[p]])
      <4>1. PICK d \in Ids :
                 /\ IF pc[p] = "replaced" THEN Newest(d, todo[p]) ELSE d = w
                 /\ SetStatus(d, Written[pc[p]])
        BY <3>3
      <4>2. status[d] = "running" => ctr[d] = "absent" BY <3>2, <4>1
      <4>3. \A e \in Ids : e # d => status'[e] = status[e] BY <4>1, <1>t DEF SetStatus
      <4> QED BY <4>2, <4>3
    <3> QED BY <1>d, <3>1, <3>3 DEF WriteFails
  <2>4. CASE pc[p] = "pending"
    <3>1. Goto(p, "giveUp") BY <1>d, <2>4 DEF WriteFails, CatchAt, Bare, Holding
    <3>2. ctr[w] = "absent" BY <2>4 DEF CInv, Gone, GoneAt
    <3> QED BY <2>2, <2>3, <2>4, <3>1, <3>2, <1>g, <1>n DEF CtrStep, GoneAt, InTry, Bare, Stopping
  <2>5. CASE pc[p] \in {"created", "reaped", "healthy"}
    <3>1. Goto(p, "forceRemove") BY <1>d, <2>5 DEF WriteFails, CatchAt, Holding
    <3>2. pc'[p] = "forceRemove" /\ work'[p] = w /\ todo'[p] = todo[p] BY <3>1, <1>g
    <3> QED BY <2>2, <2>3, <2>5, <3>2 DEF CtrStep, Watches, GoneAt, InTry, Bare, Holding, Stopping
  <2>6. CASE pc[p] \in {"giveUp", "replaced", "stopped"}
    <3>1. Return(p) BY <1>d, <2>6 DEF WriteFails, Bare, Holding
    <3>2. \A d \in Ids : Watches(p, d) => ctr'[d] = "absent"
      BY <2>2, <2>6 DEF Watches, Bare, Holding, CInv, Gone, GoneAt
    <3> QED BY <2>2, <2>3, <2>6, <3>1, <3>2, <1>r, LetsGo DEF InTry, Bare, Holding, GoneAt, Stopping
  <2> QED BY <2>1, <2>4, <2>5, <2>6
<1>1. CASE Pulled(p)
  <2>1. pc[p] = "pull" /\ Goto(p, "create") /\ UNCHANGED <<rows, ctr>> BY <1>1 DEF Pulled
  <2>2. ctr[w] = "absent" BY <2>1 DEF CInv, Gone, GoneAt
  <2> QED BY <2>1, <2>2, StaysWatching DEF rows, InTry, Bare, Holding
<1>2. CASE Created(p)
  <2>1. /\ pc[p] = "create" /\ Goto(p, "created") /\ UNCHANGED rows
        /\ ctr' = [ctr EXCEPT ![w] = "created"]
    BY <1>2, <1>c DEF Created, SetContainer
  <2>2. \A d \in Ids : d # w => ctr'[d] = ctr[d] BY <2>1, <1>t
  <2>3. pc'[p] = "created" /\ work'[p] = w /\ todo'[p] = todo[p] BY <2>1, <1>g
  <2> QED BY <2>1, <2>2, <2>3
          DEF CtrStep, rows, Watches, InTry, Bare, Holding, Stopping, GoneAt
<1>3. CASE RecordStarting(p)
  <2>1. /\ pc[p] = "created" /\ ctr' = ctr
        /\ Goto(p, "start") \/ Goto(p, "forceRemove")
        /\ \A d \in Ids : status[d] = "running" => status'[d] = "running"
    <3>1. status[w] # "running"
      BY <1>3, <1>t, <1>w DEF RecordStarting, IInv, InStep, Allowed, Bare, Late, Holding, Closed, Final
    <3>2. \/ SetStatus(w, "starting") /\ Goto(p, "start")
          \/ UNCHANGED status /\ Goto(p, "forceRemove")
      BY <1>3 DEF RecordStarting, CatchAt, Holding, rows
    <3>3. \A d \in Ids : status[d] = "running" => status'[d] = "running"
      BY <1>t, <3>1, <3>2 DEF SetStatus
    <3>4. pc[p] = "created" /\ ctr' = ctr BY <1>3 DEF RecordStarting
    <3> QED BY <3>2, <3>3, <3>4
  <2> QED BY <2>1, StaysWatching DEF InTry, Bare, Holding, GoneAt
<1>4. CASE Started(p)
  <2>1. /\ pc[p] = "start" /\ Goto(p, "probe") /\ UNCHANGED rows
        /\ \A d \in Ids : ctr[d] = "absent" => ctr'[d] = "absent"
    BY <1>4, <1>t DEF Started, SetContainer
  <2> QED BY <2>1, StaysWatching DEF rows, InTry, Bare, Holding, GoneAt
<1>5. CASE Probe(p) \/ Verdict(p)
  <2>1. /\ pc[p] \in {"probe", "window"} /\ UNCHANGED <<rows, ctr>>
        /\ \E where \in {"window", "healthy", "reap"} : Goto(p, where)
    BY <1>5 DEF Probe, Verdict
  <2> QED BY <2>1, StaysWatching DEF rows, InTry, Bare, Holding, GoneAt
<1>6. CASE Reap(p)
  <2>1. /\ pc[p] = "reap" /\ Goto(p, "reaped") /\ UNCHANGED rows
        /\ ctr' = [ctr EXCEPT ![w] = "absent"]
    BY <1>6 DEF Reap, SetContainer
  <2>2. ctr'[w] = "absent" /\ \A d \in Ids : ctr[d] = "absent" => ctr'[d] = "absent"
    BY <2>1, <1>t, <1>w
  <2> QED BY <2>1, <2>2, StaysWatching DEF rows, InTry, Bare, Holding
<1>7. CASE Reaped(p)
  <2>1. pc[p] = "reaped" /\ ctr' = ctr /\ ctr[w] = "absent" /\ status[w] # "running"
    BY <1>7, <1>t, <1>w DEF Reaped, CInv, Gone, GoneAt, IInv, InStep, Allowed, Bare, Late, Holding,
                            Closed, Final
  <2>2. CASE Return(p) /\ SetStatus(w, "failed")
    BY <2>1, <2>2, <1>t, <1>r, <1>n, LetsGo DEF SetStatus, InTry, Bare, Holding, GoneAt, Stopping
  <2>3. CASE Goto(p, "forceRemove") /\ UNCHANGED status
    BY <2>1, <2>3, StaysWatching DEF InTry, Holding, GoneAt
  <2> QED BY <1>7, <2>2, <2>3 DEF Reaped, CatchAt, Holding
<1>8. CASE NotFound(p)
  <2>1. /\ pc[p] \in {"start", "probe", "window", "reap"} /\ Goto(p, "forceRemove")
        /\ UNCHANGED <<rows, ctr>>
    BY <1>8 DEF NotFound, CatchAt, Holding
  <2> QED BY <2>1, StaysWatching DEF rows, InTry, Holding, GoneAt
<1>9. CASE CallFails(p)
  <2>1. UNCHANGED rows /\ \A d \in Ids : ctr[d] = "absent" => ctr'[d] = "absent"
    BY <1>9, <1>t DEF CallFails, SetContainer
  <2>2. CASE pc[p] \in {"pull", "create"}
    <3>1. Goto(p, "giveUp") /\ ctr' = ctr BY <1>9, <2>2 DEF CallFails, CatchAt, Holding
    <3>2. ctr[w] = "absent" BY <2>2 DEF CInv, Gone, GoneAt
    <3> QED BY <3>1, <3>2, <2>1, <2>2, <1>g, <1>n
            DEF CtrStep, rows, GoneAt, InTry, Bare, Stopping
  <2>3. CASE pc[p] \in {"start", "probe", "window", "reap"}
    <3>1. Goto(p, "forceRemove") BY <1>9, <2>3 DEF CallFails, CatchAt, Holding
    <3> QED BY <3>1, <2>1, <2>3, StaysWatching DEF rows, InTry, Holding, GoneAt
  <2> QED BY <1>9, <2>2, <2>3 DEF CallFails
<1>10. CASE ForceRemove(p)
  <2>1. /\ pc[p] = "forceRemove" /\ Goto(p, "giveUp") /\ UNCHANGED rows
        /\ ctr' = [ctr EXCEPT ![w] = "absent"]
    BY <1>10, <1>c DEF ForceRemove, SetContainer
  <2>2. ctr'[w] = "absent" /\ \A d \in Ids : ctr[d] = "absent" => ctr'[d] = "absent"
    BY <2>1, <1>t, <1>w
  <2> QED BY <2>1, <2>2, <1>g, <1>n DEF CtrStep, rows, GoneAt, InTry, Stopping
<1>11. CASE GiveUp(p)
  <2>1. pc[p] = "giveUp" /\ ctr' = ctr /\ ctr[w] = "absent" /\ Return(p)
    BY <1>11 DEF GiveUp, CInv, Gone, GoneAt
  <2>2. \A d \in Ids : status[d] = "running" => status'[d] = "running" \/ ctr'[d] = "absent"
    BY <1>11, <2>1, <1>t DEF GiveUp, MarkFailed
  <2> QED BY <2>1, <2>2, <1>r, <1>n, LetsGo DEF InTry, Bare, Holding, GoneAt, Stopping
<1>12. CASE Promote(p)
  <2>1. pc[p] = "healthy" /\ ctr' = ctr BY <1>12 DEF Promote
  <2>2. CASE ~Open(w)
    <3>1. Goto(p, "forceRemove") /\ status' = status
      BY <1>12, <2>2 DEF Promote, CatchAt, Holding
    <3> QED BY <3>1, <2>1, StaysWatching DEF InTry, Holding, GoneAt
  <2>3. CASE Open(w)
    <3>1. status' = [status EXCEPT ![w] = "running"]
      BY <1>12, <2>3 DEF Promote, SetStatus
    <3>2. /\ pc'[p] \in {"hook", "idle", "stopPrevious"}
          /\ \A d \in todo'[p] : d \in todo[p] \/ status[d] = "running"
      <4>1. CASE Goto(p, "hook") BY <4>1, <1>g
      <4>2. CASE StartReplacing(p, PreviousOf(w))
        <5>1. PreviousOf(w) \in SUBSET Ids /\ \A d \in PreviousOf(w) : status[d] = "running"
          BY DEF PreviousOf, Rows
        <5> QED BY <4>2, <5>1, <1>t, ReplacingLeaves
      <4> QED BY <4>1, <4>2, <1>12, <2>3 DEF Promote
    <3>3. \A d \in Ids : Watches(p, d) => status'[d] = "running"
      BY <3>1, <1>n, <1>t
    <3> QED BY <2>1, <3>1, <3>2, <3>3, <1>t, LetsGo
            DEF InTry, Bare, Holding, GoneAt, Stopping
  <2> QED BY <2>2, <2>3
<1>13. CASE HookDone(p)
  <2>1. pc[p] = "hook" /\ UNCHANGED <<rows, ctr>> /\ StartReplacing(p, PreviousOf(w))
    BY <1>13 DEF HookDone
  <2>2. PreviousOf(w) \in SUBSET Ids /\ \A d \in PreviousOf(w) : status[d] = "running"
    BY DEF PreviousOf, Rows
  <2>3. /\ pc'[p] \in {"idle", "stopPrevious"}
        /\ \A d \in todo'[p] : status[d] = "running"
    BY <2>1, <2>2, <1>t, ReplacingLeaves
  <2> QED BY <2>1, <2>3, <1>n, LetsGo DEF rows, InTry, Bare, Holding, GoneAt, Stopping
<1>14. CASE HookFails(p)
  BY <1>14, <1>r, <1>n, LetsGo DEF HookFails, rows, InTry, Bare, Holding, GoneAt, Stopping
<1>15. CASE StopPrevious(p)
  <2>1. pc[p] = "stopPrevious" /\ UNCHANGED rows BY <1>15 DEF StopPrevious
  <2>2. PICK d \in todo[p] :
          /\ Newest(d, todo[p])
          /\ \/ ctr[d] # "absent" /\ SetContainer(d, "exited") /\ Goto(p, "removePrevious")
             \/ ctr[d] = "absent" /\ UNCHANGED ctr /\ Goto(p, "replaced")
    BY <1>15, <1>c DEF StopPrevious
  <2>3. \A e \in Ids : ctr[e] = "absent" => ctr'[e] = "absent"
    BY <2>2, <1>t DEF SetContainer
  <2>4. CASE Goto(p, "removePrevious")
    BY <2>1, <2>3, <2>4, <1>g, <1>n, LetsGo DEF rows, InTry, Bare, Holding, GoneAt, Stopping
  <2>5. CASE ctr[d] = "absent" /\ UNCHANGED ctr /\ Goto(p, "replaced")
    <3>1. \A e \in todo[p] : Newest(e, todo[p]) => e = d
      BY <2>2, <1>t DEF Newest
    <3>2. pc'[p] = "replaced" /\ todo'[p] = todo[p] BY <2>5, <1>g
    <3> QED BY <2>1, <2>5, <3>1, <3>2, <1>n
            DEF CtrStep, rows, InTry, Bare, Holding, GoneAt, Stopping, Newest
  <2> QED BY <2>2, <2>4, <2>5
<1>16. CASE RemovePrevious(p)
  <2>1. pc[p] = "removePrevious" /\ UNCHANGED rows /\ Goto(p, "replaced")
    BY <1>16 DEF RemovePrevious
  <2>2. PICK d \in todo[p] : Newest(d, todo[p]) /\ ctr' = [ctr EXCEPT ![d] = "absent"]
    BY <1>16, <1>c DEF RemovePrevious, SetContainer
  <2>3. /\ ctr'[d] = "absent"
        /\ \A e \in Ids : ctr[e] = "absent" => ctr'[e] = "absent"
    BY <2>2, <1>t
  <2>4. \A e \in todo[p] : Newest(e, todo[p]) => e = d
    BY <2>2, <1>t DEF Newest
  <2>5. pc'[p] = "replaced" /\ todo'[p] = todo[p] BY <2>1, <1>g
  <2> QED BY <2>1, <2>3, <2>4, <2>5, <1>n
          DEF CtrStep, rows, InTry, Bare, Holding, GoneAt, Stopping, Newest
<1>17. CASE Replaced(p)
  <2>1. pc[p] = "replaced" /\ ctr' = ctr BY <1>17 DEF Replaced
  <2>2. PICK d \in todo[p] :
          /\ Newest(d, todo[p])
          /\ \/ SetStatus(d, "replaced") /\ StartReplacing(p, todo[p] \ {d})
             \/ Return(p) /\ UNCHANGED status
    BY <1>17 DEF Replaced
  <2>3. ctr[d] = "absent" /\ d \in Ids BY <2>1, <2>2, <1>t DEF CInv, GoneFirst
  <2>4. \A e \in Ids : status[e] = "running" => status'[e] = "running" \/ ctr'[e] = "absent"
    BY <2>1, <2>2, <2>3, <1>t DEF SetStatus
  <2>5. pc'[p] \in {"idle", "stopPrevious"} /\ todo'[p] \subseteq todo[p]
    BY <2>2, <1>r, <1>t, ReplacingLeaves
  <2> QED BY <2>1, <2>4, <2>5, <1>n, LetsGo DEF InTry, Bare, Holding, GoneAt, Stopping
<1>18. CASE StopContainer(p)
  <2>1. /\ pc[p] = "stop" /\ UNCHANGED rows /\ Goto(p, "remove")
        /\ \A d \in Ids : ctr[d] = "absent" => ctr'[d] = "absent"
    BY <1>18, <1>c, <1>t DEF StopContainer
  <2>2. pc'[p] = "remove" /\ work'[p] = work[p] /\ todo'[p] = todo[p] BY <2>1, <1>g
  <2> QED BY <2>1, <2>2, <1>n, LetsGo DEF rows, InTry, Bare, Holding, GoneAt, Stopping
<1>19. CASE RemoveContainer(p)
  <2>1. /\ pc[p] = "remove" /\ UNCHANGED rows /\ Goto(p, "stopped")
        /\ ctr' = [ctr EXCEPT ![w] = "absent"]
    BY <1>19, <1>c DEF RemoveContainer, SetContainer
  <2>2. ctr'[w] = "absent" /\ \A d \in Ids : ctr[d] = "absent" => ctr'[d] = "absent"
    BY <2>1, <1>t, <1>w
  <2> QED BY <2>1, <2>2, <1>g, <1>n DEF CtrStep, rows, GoneAt, InTry, Bare, Holding, Stopping
<1>20. CASE Stopped(p)
  <2>1. pc[p] = "stopped" /\ ctr' = ctr /\ ctr[w] = "absent" /\ Return(p)
    BY <1>20 DEF Stopped, CInv, Gone, GoneAt
  <2>2. \A d \in Ids : status[d] = "running" => status'[d] = "running" \/ ctr'[d] = "absent"
    BY <1>20, <2>1, <1>t DEF Stopped
  <2> QED BY <2>1, <2>2, <1>r, <1>n, LetsGo DEF InTry, Bare, Holding, GoneAt, Stopping
<1> QED BY <1>1, <1>2, <1>3, <1>4, <1>5, <1>6, <1>7, <1>8, <1>9, <1>10, <1>11, <1>12, <1>13,
           <1>14, <1>15, <1>16, <1>17, <1>18, <1>19, <1>20, <1>a, <1>b, <1>d DEF Step

LEMMA InitCInv == Init => CInv
BY InitIInv DEF Init, CInv, NoLeak, Gone, GoneAt, GoneFirst, Untouched, Trying, InTry, Bare, Holding,
   Catching

LEMMA NextCInv ==
    ASSUME Clean
    PROVE  CInv /\ [Next]_vars => CInv'
<1> SUFFICES ASSUME CInv, [Next]_vars PROVE CInv' OBVIOUS
<1>0. IInv' /\ TypeOK' /\ IInv BY NextIInv DEF CInv, IInv
<1> SUFFICES NoLeak' /\ Gone' /\ GoneFirst' /\ Untouched' BY <1>0 DEF CInv
<1>t. ctr' \in [Ids -> CtrStates] /\ ctr \in [Ids -> CtrStates] /\ pc \in [Procs -> Pcs]
  BY <1>0 DEF IInv, TypeOK
<1>1. CASE UNCHANGED <<procVars, ctr, status>> BY <1>1, <1>t, AroundKeeps
<1>2. CASE \E a \in AppNames : CreateApp(a) BY <1>1, <1>2 DEF CreateApp
<1>3. CASE \E a \in AppNames : DeleteApp(a)
  <2>1. \A d \in Ids : status[d] = "running" => status'[d] = "running"
    BY <1>3, <1>0, DeleteMove
  <2>2. UNCHANGED procVars /\ ctr' = ctr BY <1>3 DEF DeleteApp
  <2> QED BY <2>1, <2>2, <1>t, AroundKeeps
<1>4. CASE \E p \in Procs, a \in AppNames : DeployBegin(p, a) BY <1>4, BeginCtr
<1>5. CASE \E p \in Procs, a \in AppNames : StopBegin(p, a) BY <1>5, StopCtr
<1>6. CASE \E p \in Procs : Step(p)
  <2> PICK p \in Procs : Step(p) BY <1>6
  <2>1. CASE Insert(p) BY <2>1, InsertCtr
  <2>2. CASE ~Insert(p) BY <2>2, <1>0, StepOne, StepCtr, CtrStepKeeps
  <2> QED BY <2>1, <2>2
<1>7. CASE \E p \in Procs : Misbehave(p)
  <2>1. UNCHANGED procVars /\ status' = status BY <1>7 DEF Misbehave, rows
  <2>2. \A d \in Ids : ctr[d] = "absent" => ctr'[d] = "absent"
    BY <1>7, <1>t DEF Misbehave, Up, SetContainer
  <2> QED BY <2>1, <2>2, <1>t, AroundKeeps
<1>8. CASE \E d \in Ids : OutOfBand(d)
  <2>1. UNCHANGED procVars /\ status' = status BY <1>8 DEF OutOfBand, rows
  <2>2. \A d \in Ids : ctr[d] = "absent" => ctr'[d] = "absent"
    BY <1>8, <1>t DEF OutOfBand, SetContainer
  <2> QED BY <2>1, <2>2, <1>t, AroundKeeps
<1>9. CASE UNCHANGED vars BY <1>1, <1>9 DEF vars, procVars
<1> QED BY <1>2, <1>3, <1>4, <1>5, <1>6, <1>7, <1>8, <1>9
        DEF Next, Clean, Crash, ReconcileMark

(* Without the faults that leave a container to reconcile, none is left    *)
(* behind: each belongs to a running deployment or is in the hands of the  *)
(* process that deploys it, whatever calls fail, whatever containers do    *)
(* and whichever apps are deleted meanwhile.                               *)
THEOREM NoLeakWhenClean ==
    ASSUME Clean
    PROVE  Spec => []NoLeak
<1>1. CInv /\ [Next]_vars => CInv' BY NextCInv
<1>2. CInv => NoLeak BY DEF CInv
<1> QED BY <1>1, <1>2, InitCInv, PTL DEF Spec

-----------------------------------------------------------------------------
(* DeployEngine implements DeploymentLife. *)

LEMMA InitLife == Init => Life!Init
BY DEF Init, Life!Init, StageOf, Life!Ids, InProgress, Final

LEMMA StageIs ==
    ASSUME TypeOK, NEW d \in Ids
    PROVE  /\ StageOf(d) = "inFlight" <=> status[d] \in InProgress
           /\ StageOf(d) = "running" <=> status[d] = "running"
           /\ StageOf(d) = "finished" <=> status[d] \in Final
           /\ StageOf(d) = "none" <=> status[d] = "none"
           /\ StageOf(d) = "deleted" <=> status[d] = "deleted"
BY DEF StageOf, TypeOK, Statuses, InProgress, Final

Stages == [d \in Ids |-> StageOf(d)]

(* A step that changes the status of one row only, as a step of the life.  *)
LEMMA OneRowLife ==
    ASSUME IInv, [Next]_vars, NEW e \in Ids, UNCHANGED <<apps, owner, seq>>,
           \A d \in Ids \ {e} : status'[d] = status[d], status'[e] # "deleted", status[e] # "none"
    PROVE  [Life!Next]_(Life!lifeVars)
<1> TypeOK /\ TypeOK' BY NextType DEF IInv
<1>1. \A d \in Ids \ {e} : StageOf(d)' = StageOf(d) BY DEF StageOf
<1>2. CASE StageOf(e)' = StageOf(e) BY <1>1, <1>2 DEF Life!lifeVars
<1>3. CASE StageOf(e)' # StageOf(e)
  <2>1. status'[e] # status[e] BY <1>3 DEF StageOf
  <2>2. \/ status[e] = "starting" /\ status'[e] = "running"
        \/ status[e] \in InProgress \union {"running"} /\ status'[e] \in Final
    BY <1>3, <2>1, NextStatus DEF StageOf, InProgress, Final
  <2>3. Stages' = [Stages EXCEPT ![e] = StageOf(e)'] BY <1>1 DEF Stages
  <2>4. CASE status[e] = "starting" /\ status'[e] = "running"
    <3>1. StageOf(e) = "inFlight" /\ StageOf(e)' = "running" BY <2>4 DEF StageOf, InProgress, Final
    <3>2. Life!Promote(e) BY <3>1, <2>3 DEF Life!Promote, Stages
    <3> QED BY <3>2 DEF Life!Next, Life!Ids
  <2>5. CASE status[e] \in InProgress \union {"running"} /\ status'[e] \in Final
    <3>1. StageOf(e) \in {"inFlight", "running"} /\ StageOf(e)' = "finished"
      BY <2>5 DEF StageOf, InProgress, Final
    <3>2. Life!Finish(e) BY <3>1, <2>3 DEF Life!Finish, Stages
    <3> QED BY <3>2 DEF Life!Next, Life!Ids
  <2> QED BY <2>2, <2>4, <2>5
<1> QED BY <1>2, <1>3

LEMMA StepOneRow ==
    ASSUME IInv, NEW p \in Procs, Step(p), ~Insert(p)
    PROVE  /\ UNCHANGED <<apps, owner, seq>>
           /\ \/ UNCHANGED status
              \/ \E e \in Ids : /\ status[e] # "none" /\ status'[e] # "deleted"
                                /\ \A d \in Ids \ {e} : status'[d] = status[d]
<1> DEFINE w == work[p]
<1>4. UNCHANGED <<apps, owner, seq>> BY StepOne DEF OneStep
<1>a. CASE NotInserted(p) BY <1>4, <1>a DEF NotInserted, rows
<1>1. ~NotInserted(p) => AtRow(p)
  BY DEF AtRow, Step, SetPulling, WriteFails, Written, Pulled, Created, RecordStarting, Started,
         Probe, Verdict, Reap, Reaped, NotFound, CallFails, ForceRemove, GiveUp, Promote, HookDone,
         HookFails, StopPrevious, RemovePrevious, Replaced, StopContainer, RemoveContainer, Stopped
<1>2. ~NotInserted(p) => w \in Ids /\ status[w] \in Allowed(pc[p]) BY <1>1 DEF IInv, Busy, InStep
<1>3. ~NotInserted(p) => status[w] # "none"
  BY <1>2 DEF Allowed, Closed, Final, InProgress, Unlogged
<1>5. CASE UNCHANGED status BY <1>4, <1>5
<1>6. CASE ~NotInserted(p) /\ \E s \in Statuses : status' = [status EXCEPT ![w] = s]
  BY <1>2, <1>3, <1>4, <1>6 DEF IInv, TypeOK, Statuses, InProgress, Final
<1>7. CASE \E d \in todo[p] : status' = [status EXCEPT ![d] = "replaced"]
  <2>1. PICK d \in todo[p] : status' = [status EXCEPT ![d] = "replaced"] BY <1>7
  <2>2. d \in Ids /\ status[d] \in {"running"} \union Closed BY <2>1 DEF IInv, HasRun, TypeOK
  <2> QED BY <1>4, <2>1, <2>2 DEF IInv, TypeOK, Closed, Final
<1>8. CASE WriteFails(p)
  <2>1. pc[p] \in DOMAIN Written /\ Written[pc[p]] \in Statuses BY <1>8, WrittenStatus DEF WriteFails
  <2>2. pc[p] = "replaced" => Written[pc[p]] = "replaced" BY DEF Written
  <2>3. ~NotInserted(p) BY <2>1 DEF NotInserted, Written
  <2> QED BY <1>5, <1>6, <1>7, <1>8, <2>1, <2>2, <2>3 DEF WriteFails, SetStatus, Newest
<1> QED
  BY <1>a, <1>5, <1>6, <1>7, <1>8
  DEF Step, SetPulling, Pulled, Created, RecordStarting, Started, Probe, Verdict, Reap, Reaped, NotFound,
      CallFails, ForceRemove, GiveUp, Promote, HookDone, HookFails, StopPrevious,
      RemovePrevious, Replaced, StopContainer, RemoveContainer, Stopped, rows, SetStatus,
      MarkFailed, Statuses, InProgress, Final

LEMMA DeleteLife ==
    ASSUME IInv, [Next]_vars, NEW a \in AppNames, DeleteApp(a)
    PROVE  Life!RemoveApp(a)
<1> TypeOK /\ TypeOK' BY NextType DEF IInv
<1>1. \A d \in Ids : StageOf(d)' = IF owner[d] = a THEN "deleted" ELSE StageOf(d)
  BY DEF DeleteApp, StageOf, InProgress, Final
<1>2. Life!Of(a, "running") = {}
  BY StageIs DEF Life!Of, Life!Ids, DeleteApp, Deletable, Rows
<1> QED BY <1>1, <1>2 DEF DeleteApp, Life!RemoveApp, Life!Ids

LEMMA InsertLife ==
    ASSUME IInv, TypeOK', NEW p \in Procs, Insert(p)
    PROVE  wants[p] \in AppNames /\ Life!Start(wants[p])
<1>t. TypeOK BY DEF IInv
<1>0. PICK k \in Ids : k = seq BY DEF Insert
<1>1. /\ \A d \in Ids \ {k} : status'[d] = status[d]
      /\ status'[k] = "pending"
  BY <1>0, InsertRow
<1>2. StageOf(k)' = "inFlight" BY <1>1 DEF StageOf, InProgress
<1>3. \A d \in Ids \ {k} : StageOf(d)' = StageOf(d) BY <1>1 DEF StageOf
<1>4. Stages' = [Stages EXCEPT ![seq] = "inFlight"] BY <1>0, <1>2, <1>3 DEF Stages
<1>6. seq \in Life!Ids BY DEF Insert, Life!Ids
<1>7. /\ owner' = [owner EXCEPT ![seq] = wants[p]] /\ seq' = seq + 1 /\ apps' = apps
      /\ wants[p] \in apps /\ wants[p] \in AppNames
  BY <1>t DEF Insert, AddRow, TypeOK
<1> QED BY <1>4, <1>6, <1>7 DEF Life!Start, Stages

LEMMA NextLife == IInv /\ [Next]_vars => [Life!Next]_(Life!lifeVars)
<1> SUFFICES ASSUME IInv, [Next]_vars PROVE [Life!Next]_(Life!lifeVars) OBVIOUS
<1> TypeOK /\ TypeOK' BY NextType DEF IInv
<1>q. CASE UNCHANGED <<apps, owner, status, seq>> BY <1>q DEF Life!lifeVars, StageOf
<1>1. ASSUME NEW a \in AppNames, CreateApp(a) PROVE Life!AddApp(a)
  BY <1>1 DEF CreateApp, Life!AddApp, StageOf
<1>2. ASSUME NEW p \in Procs, Insert(p) PROVE \E a \in AppNames : Life!Start(a)
  BY <1>2, InsertLife
<1>3. ASSUME NEW p \in Procs, NEW a \in AppNames, DeployBegin(p, a)
      PROVE  UNCHANGED <<apps, owner, status, seq>>
  BY <1>3 DEF DeployBegin, rows
<1>4. ASSUME NEW p \in Procs, NEW a \in AppNames, StopBegin(p, a)
      PROVE  UNCHANGED <<apps, owner, status, seq>>
  BY <1>4 DEF StopBegin, rows
<1>5. CASE \E p \in Procs : Step(p) /\ ~Insert(p)
  <2>1. UNCHANGED <<apps, owner, seq>> BY <1>5, StepOneRow
  <2>2. CASE UNCHANGED status BY <2>1, <2>2, <1>q
  <2>3. CASE \E e \in Ids : /\ status[e] # "none" /\ status'[e] # "deleted"
                            /\ \A d \in Ids \ {e} : status'[d] = status[d]
    BY <2>1, <2>3, OneRowLife
  <2> QED BY <1>5, <2>2, <2>3, StepOneRow
<1>6. ASSUME NEW p \in Procs, Crash(p) \/ Misbehave(p)
      PROVE  UNCHANGED <<apps, owner, status, seq>>
  BY <1>6 DEF Crash, Misbehave, rows
<1>7. ASSUME NEW d \in Ids, OutOfBand(d) PROVE UNCHANGED <<apps, owner, status, seq>>
  BY <1>7 DEF OutOfBand, rows
<1>8. CASE \E d \in Ids : ReconcileMark(d)
  <2>1. PICK d \in Ids : ReconcileMark(d) BY <1>8
  <2>2. status[d] # "none" /\ status'[d] = "failed" /\ UNCHANGED <<apps, owner, seq>>
        /\ \A e \in Ids \ {d} : status'[e] = status[e]
    BY <2>1 DEF ReconcileMark, SetStatus, Open, InProgress, TypeOK
  <2> QED BY <2>2, OneRowLife
<1>9. CASE UNCHANGED vars
  <2>1. UNCHANGED <<apps, owner, status, seq>> BY <1>9 DEF vars
  <2> QED BY <2>1, <1>q
<1> QED BY <1>q, <1>1, <1>2, <1>3, <1>4, <1>5, <1>6, <1>7, <1>8, <1>9, DeleteLife
        DEF Next, Life!Next

(* The engine keeps the promise of DeploymentLife: with every crash, fault *)
(* and interleaving, its records live the life of that specification.      *)
THEOREM EngineImplementsLife == Spec => ImplementsLife
<1>1. Init => Life!Init BY InitLife
<1>2. IInv /\ [Next]_vars => [Life!Next]_(Life!lifeVars) BY NextLife
<1> QED BY <1>1, <1>2, Invariant, PTL DEF Spec, ImplementsLife, Life!Spec

-----------------------------------------------------------------------------
(* What a step of a process does to what runs.                             *)

RunMove(p) ==
    /\ UNCHANGED <<apps, owner>>
    /\ \A d \in Ids : status'[d] = "running" /\ status[d] # "running" => d = work[p] /\ pc[p] = "healthy"
    /\ \A d \in Ids : status[d] = "running" /\ status'[d] # "running" =>
          \/ d \in todo[p]
          \/ pc[p] = "stopped" /\ d = work[p]
    /\ \A d \in Ids : Up(d) /\ ~Up(d)' =>
          \/ pc[p] \in InTry /\ d = work[p]
          \/ d \in todo[p]
          \/ pc[p] \in Stopping /\ d = work[p]
    /\ \A d \in Ids : ~Up(d) /\ Up(d)' => pc[p] \in InTry /\ d = work[p]

(* A process that still tries works on a row that does not run yet, as     *)
(* long as no write of its is done and throws.                             *)
LEMMA TryNotRunning ==
    ASSUME IInv, "storeError" \notin Faults, NEW p \in Procs, pc[p] \in InTry
    PROVE  status[work[p]] # "running"
BY DEF IInv, InStep, Allowed, InTry, Bare, Holding, Catching, Late, Closed, Final, AtRow, InProgress,
       Unlogged

LEMMA StatusRuns ==
    ASSUME IInv, "storeError" \notin Faults, NEW p \in Procs, Step(p), ~Insert(p), NEW d \in Ids
    PROVE  /\ status'[d] = "running" /\ status[d] # "running" => d = work[p] /\ pc[p] = "healthy"
           /\ status[d] = "running" /\ status'[d] # "running" =>
                  \/ d \in todo[p]
                  \/ pc[p] = "stopped" /\ d = work[p]
<1> USE DEF SetStatus, TypeOK
<1>t. TypeOK BY DEF IInv
<1>1. CASE UNCHANGED rows BY <1>1 DEF rows
<1>0. CASE SetPulling(p)
  <2>1. status' = status \/ status' = [status EXCEPT ![work[p]] = "pulling"]
    BY <1>0 DEF SetPulling
  <2>2. pc[p] \in InTry BY <1>0 DEF SetPulling, InTry, Bare
  <2> QED BY <2>1, <2>2, TryNotRunning, <1>t
<1>2. CASE RecordStarting(p)
  <2>1. status' = status \/ status' = [status EXCEPT ![work[p]] = "starting"]
    BY <1>2 DEF RecordStarting, rows
  <2>2. status[work[p]] # "running"
    <3>1. pc[p] \in InTry BY <1>2 DEF RecordStarting, InTry, Holding
    <3> QED BY <3>1, TryNotRunning
  <2> QED BY <2>1, <2>2, <1>t
<1>3. CASE Reaped(p) BY <1>3, <1>t, TryNotRunning DEF Reaped, InTry, Holding
<1>4. CASE GiveUp(p) BY <1>4, <1>t, TryNotRunning DEF GiveUp, MarkFailed, InTry, Catching
<1>5. CASE Promote(p)
  <2>1. pc[p] = "healthy" /\ (status' = status \/ status' = [status EXCEPT ![work[p]] = "running"])
    BY <1>5 DEF Promote
  <2> QED BY <2>1, <1>t
<1>6. CASE Replaced(p) BY <1>6, <1>t DEF Replaced
<1>7. CASE Stopped(p) BY <1>7, <1>t DEF Stopped
<1> QED
  BY <1>0, <1>1, <1>2, <1>3, <1>4, <1>5, <1>6, <1>7
     DEF Step, NotInserted, WriteFails, Pulled, Created, Started, Probe, Verdict, Reap, NotFound, CallFails, ForceRemove, HookDone,
         HookFails, StopPrevious, RemovePrevious, StopContainer, RemoveContainer

(* Only the process that deploys it brings a container up.                 *)
LEMMA ComesUp ==
    ASSUME IInv, NEW p \in Procs, Step(p), NEW d \in Ids, ~Up(d), Up(d)'
    PROVE  pc[p] \in InTry /\ d = work[p]
<1> USE DEF SetContainer, TypeOK, Up
<1>t. TypeOK BY DEF IInv
<1>1. ctr'[d] # ctr[d] OBVIOUS
<1>2. CASE Watches(p, d) BY <1>2 DEF Watches, InTry, Catching
<1>3. CASE d \in todo[p] \/ pc[p] \in Stopping
  <2>1. CASE StopPrevious(p) \/ RemovePrevious(p) BY <1>t, <2>1 DEF StopPrevious, RemovePrevious
  <2>2. CASE StopContainer(p) \/ RemoveContainer(p) BY <1>t, <2>2 DEF StopContainer, RemoveContainer
  <2>3. CASE Created(p) \/ Started(p) \/ Reap(p) \/ CallFails(p) \/ ForceRemove(p)
    BY <1>t, <1>1, <2>3
       DEF Created, Started, Reap, CallFails, ForceRemove, InTry, Bare, Holding
  <2> QED
    BY <1>1, <2>1, <2>2, <2>3
       DEF Step, Insert, NotInserted, SetPulling, WriteFails, Pulled, RecordStarting, Probe, Verdict,
           Reaped, NotFound, GiveUp, Promote, HookDone, HookFails, Replaced, Stopped, rows
<1> QED BY <1>1, <1>2, <1>3, <1>t, StepTouches

LEMMA StepRuns ==
    ASSUME IInv, "storeError" \notin Faults, NEW p \in Procs, Step(p), ~Insert(p)
    PROVE  RunMove(p)
<1>1. UNCHANGED <<apps, owner>> BY StepOne DEF OneStep
<1>2. ASSUME NEW d \in Ids, Up(d), ~Up(d)'
      PROVE  \/ pc[p] \in InTry /\ d = work[p]
             \/ d \in todo[p]
             \/ pc[p] \in Stopping /\ d = work[p]
  <2>1. ctr'[d] # ctr[d] BY <1>2 DEF Up
  <2> QED BY <2>1, StepTouches DEF IInv, Watches, InTry, Catching
<1> QED BY <1>1, <1>2, StatusRuns, ComesUp DEF RunMove

-----------------------------------------------------------------------------
(* Redeploys without downtime, any number of commands at once.  What can   *)
(* go wrong is that the deployment a deploy has just promoted is taken     *)
(* down before it has done with the previous ones: by a newer deploy that  *)
(* overtakes it while it waits in its hook, or by a stop.                  *)

Promoted == {"hook"} \union Replacing

(* No newer deployment is promoted while a hook runs: replacePrevious would*)
(* take it for a previous one.                                             *)
NotOvertaken ==
    \A p \in Procs : pc[p] = "hook" =>
        \A d \in Rows(owner[work[p]], {"running"}) : d <= work[p]

(* No stop takes down what a deploy replaces the previous ones by. *)
NotStopped ==
    \A p, q \in Procs :
        pc[p] \in Promoted /\ pc[q] \in Stopping /\ owner[work[q]] = owner[work[p]] => work[q] < work[p]

(* What runs of an app is older than what is in flight. *)
RunningOlder ==
    \A d, e \in Ids :
        status[d] \in InProgress /\ status[e] = "running" /\ owner[e] = owner[d] => e < d

(* The app p has deployed is served by its deployment or a newer one. *)
Succeeded(p) ==
    \E e \in Ids : e >= work[p] /\ owner[e] = owner[work[p]] /\ status[e] = "running" /\ Up(e)

(* A process takes down what is older than what it deployed. *)
Succeeding(p) ==
    /\ pc[p] = "healthy" /\ Open(work[p]) => Up(work[p])
    /\ pc[p] \in Promoted => Succeeded(p)
    /\ \A d \in todo[p] : pc[p] \in Replacing /\ owner[d] = owner[work[p]] /\ d < work[p]

DInv == IInv /\ Cleared /\ RunningOlder /\ \A p \in Procs : Succeeding(p)

(* Nobody takes containers away or fails rows behind the back of a deploy, *)
(* and no write throws that has been done.                                 *)
NoMeddling == Faults \intersect {"outOfBand", "mark", "storeError"} = {}

(* Whatever a process takes down, one as new or newer goes on, unless it   *)
(* is a stop.                                                              *)
LEMMA Outlives ==
    ASSUME NoMeddling, DInv, NEW q \in Procs, Step(q), ~Insert(q), NEW d \in Ids,
           status[d] = "running", Up(d),
           ~(pc[q] \in Stopping /\ d = work[q])
    PROVE  \E e \in Ids : /\ e >= d /\ owner'[e] = owner[d]
                          /\ status'[e] = "running" /\ Up(e)'
<1>m. "storeError" \notin Faults BY DEF NoMeddling
<1>i. IInv /\ Succeeding(q) /\ RunMove(q) BY <1>m, StepRuns DEF DInv
<1>1. owner' = owner BY <1>i DEF RunMove
<1>2. CASE status'[d] = "running" /\ Up(d)' BY <1>1, <1>2
<1>3. CASE ~(status'[d] = "running" /\ Up(d)')
  <2>1. d \in todo[q] \/ (pc[q] \in InTry /\ d = work[q]) BY <1>i, <1>3 DEF RunMove, Stopping
  <2>2. ~(pc[q] \in InTry /\ d = work[q]) BY <1>i, <1>m, TryNotRunning
  <2>3. d \in todo[q] BY <2>1, <2>2
  <2> PICK w : w = work[q] OBVIOUS
  <2>4. pc[q] \in Replacing /\ owner[d] = owner[w] /\ d < w BY <1>i, <2>3 DEF Succeeding
  <2>5. w \in Ids BY <1>i, <2>4 DEF IInv, Busy, AtRow, Replacing
  <2>6. PICK e \in Ids : e >= w /\ owner[e] = owner[w] /\ status[e] = "running" /\ Up(e)
    BY <1>i, <2>4 DEF Succeeding, Succeeded, Promoted
  <2>7. \A x \in todo[q] : x < w BY <1>i DEF Succeeding
  <2>8. e \notin todo[q] /\ e >= d BY <2>4, <2>5, <2>6, <2>7
  <2>9. pc[q] \notin InTry \union Stopping BY <2>4 DEF InTry, Bare, Holding, Catching, Replacing, Stopping
  <2>10. status'[e] = "running" /\ Up(e)' BY <1>i, <2>6, <2>8, <2>9 DEF RunMove, Stopping
  <2> QED BY <1>1, <2>4, <2>6, <2>8, <2>10
<1> QED BY <1>2, <1>3

LEMMA StepSucceeded ==
    ASSUME NoMeddling, DInv, NotStopped, NEW q \in Procs, Step(q), ~Insert(q), NEW p \in Procs,
           pc[p] \in Promoted, work'[p] = work[p]
    PROVE  Succeeded(p)'
<1>i. IInv /\ owner' = owner BY StepRuns DEF DInv, RunMove, NoMeddling
<1> PICK w : w = work[p] OBVIOUS
<1>1. w \in Ids BY <1>i DEF IInv, Busy, AtRow, Promoted, Replacing
<1>2. PICK d \in Ids : d >= w /\ owner[d] = owner[w] /\ status[d] = "running" /\ Up(d)
  BY DEF DInv, Succeeding, Succeeded
<1>3. ~(pc[q] \in Stopping /\ d = work[q]) BY <1>1, <1>2 DEF NotStopped
<1>4. PICK e \in Ids : e >= d /\ owner'[e] = owner[d] /\ status'[e] = "running" /\ Up(e)'
  BY <1>2, <1>3, Outlives
<1>5. e >= w BY <1>1, <1>2, <1>4
<1>6. owner'[e] = owner'[w] /\ work'[p] = w BY <1>i, <1>2, <1>4
<1> QED BY <1>4, <1>5, <1>6 DEF Succeeded

(* A row stays older than the one in flight. *)
LEMMA StepOlder ==
    ASSUME DInv, NEW q \in Procs, Step(q), ~Insert(q)
    PROVE  RunningOlder'
<1>i. IInv /\ OneStep(q) /\ owner' = owner BY StepOne DEF DInv, OneStep
<1> SUFFICES ASSUME NEW d \in Ids, NEW e \in Ids, status'[d] \in InProgress, status'[e] = "running",
                    owner[e] = owner[d]
             PROVE  e < d
  BY <1>i DEF RunningOlder
<1>1. status[d] \in InProgress BY <1>i DEF OneStep, RowMove, InProgress, Final
<1>2. status[e] \in InProgress \union {"running"} BY <1>i DEF OneStep, RowMove, InProgress, Final
<1>3. CASE status[e] = "running" BY <1>1, <1>3 DEF DInv, RunningOlder
<1>4. CASE status[e] \in InProgress
  <2>1. e = d BY <1>1, <1>4 DEF DInv, Cleared, OneInFlight
  <2> QED BY <2>1 DEF InProgress
<1> QED BY <1>2, <1>3, <1>4

(* What is open after a step was open before it. *)
LEMMA StepOpens ==
    ASSUME IInv, NEW q \in Procs, Step(q), ~Insert(q), NEW d \in Ids, Open(d)'
    PROVE  Open(d)
<1>1. RowMove(q, d) BY StepOne DEF OneStep
<1> QED BY <1>1 DEF RowMove, Open, InProgress, Final

(* The processes that watch. *)
LEMMA OthersSucceed ==
    ASSUME NoMeddling, DInv, NotStopped, NEW q \in Procs, Step(q), ~Insert(q), NEW p \in Procs, p # q
    PROVE  Succeeding(p)'
<1>i. IInv /\ TypeOK /\ RunMove(q) /\ Succeeding(p) BY StepRuns DEF DInv, IInv, NoMeddling
<1>1. pc'[p] = pc[p] /\ work'[p] = work[p] /\ todo'[p] = todo[p] BY <1>i, StepOne DEF OneStep, Others
<1>2. owner' = owner BY <1>i DEF RunMove
<1>3. ASSUME pc[p] = "healthy", Open(work[p])' PROVE Up(work[p])'
  <2> PICK w : w = work[p] OBVIOUS
  <2>1. w \in Ids BY <1>3, <1>i DEF IInv, Busy, AtRow
  <2>2. Open(w)' BY <1>1, <1>3
  <2>3. Open(w) BY <2>1, <2>2, <1>i, StepOpens
  <2>4. Up(w) BY <1>3, <2>3, <1>i DEF Succeeding
  <2>5. status[w] = "starting"
    BY <1>3, <1>i, <2>3
    DEF IInv, InStep, AtRow, Allowed, Open, Closed, Final, Bare, Late, Holding, InProgress
  <2>6. w \notin todo[q] BY <1>i, <2>5 DEF IInv, HasRun, Closed, Final
  <2>7. ~(pc[q] \in Stopping /\ w = work[q])
    BY <1>i, <2>5 DEF IInv, InStep, AtRow, Allowed, Stopping, Bare, Holding, Late, Catching, Closed,
                      Final
  <2>8. ~(pc[q] \in InTry /\ w = work[q]) BY <1>3, <1>i DEF IInv, Alone, InTry, Holding
  <2>9. Up(w)' BY <1>i, <2>1, <2>4, <2>6, <2>7, <2>8 DEF RunMove
  <2> QED BY <1>1, <2>9
<1>4. pc[p] \in Promoted => Succeeded(p)' BY <1>1, StepSucceeded
<1> QED BY <1>i, <1>1, <1>2, <1>3, <1>4 DEF Succeeding

(* The process that moves. *)
LEMMA OwnTrySucceeds ==
    ASSUME DInv, NEW p \in Procs,
           \/ NotInserted(p) \/ SetPulling(p)
           \/ Pulled(p) \/ Created(p) \/ RecordStarting(p) \/ Started(p) \/ Probe(p) \/ Verdict(p)
           \/ Reap(p) \/ Reaped(p) \/ NotFound(p) \/ CallFails(p) \/ ForceRemove(p) \/ GiveUp(p)
    PROVE  Succeeding(p)'
<1> USE DEF Goto, Return, TypeOK
<1>t. TypeOK /\ Succeeding(p) BY DEF DInv, IInv
<1>1. pc[p] \in InTry \union {"insert"}
  BY DEF NotInserted, SetPulling, Pulled, Created, RecordStarting, Started, Probe, Verdict, Reap,
         Reaped, NotFound, CallFails, ForceRemove, GiveUp, InTry, Bare, Holding, Catching
<1>2. todo[p] = {} BY <1>1, <1>t DEF Succeeding, InTry, Bare, Holding, Catching, Replacing
<1>3. todo'[p] = {}
  BY <1>2, <1>t
     DEF NotInserted, SetPulling, Pulled, Created, RecordStarting, Started, Probe, Verdict, Reap, Reaped, NotFound, CallFails,
         ForceRemove, GiveUp
<1>4. CASE Verdict(p)
  <2>1. pc'[p] \in {"healthy", "reap"} /\ work' = work /\ ctr' = ctr BY <1>4, <1>t DEF Verdict
  <2>2. pc'[p] = "healthy" => Up(work[p])' BY <1>4, <1>t, <2>1 DEF Verdict, Steady, Up
  <2>3. pc'[p] \notin Promoted BY <2>1 DEF Promoted, Replacing
  <2> QED BY <1>3, <2>2, <2>3 DEF Succeeding
<1>5. CASE ~Verdict(p)
  <2>1. pc'[p] \in (InTry \union {"idle"}) \ {"healthy"}
    BY <1>5, <1>t
       DEF NotInserted, SetPulling, Pulled, Created, RecordStarting, Started, Probe, Reap, Reaped,
           NotFound, CallFails, ForceRemove, GiveUp, CatchAt, InTry, Bare, Holding, Catching
  <2>2. pc'[p] \notin Promoted \union {"healthy"}
    BY <2>1 DEF Promoted, Replacing, InTry, Bare, Holding, Catching
  <2> QED BY <1>3, <2>2 DEF Succeeding
<1> QED BY <1>4, <1>5

LEMMA IdleSucceeds ==
    ASSUME TypeOK, NEW p \in Procs, Return(p)
    PROVE  Succeeding(p)'
<1>1. pc'[p] = "idle" /\ todo'[p] = {} BY DEF Return, TypeOK
<1> QED BY <1>1 DEF Succeeding, Promoted, Replacing

(* Where replacing begins, what it takes down is older. *)
LEMMA ReplacingSucceeds ==
    ASSUME DInv, NEW p \in Procs, NEW S \in SUBSET Ids, StartReplacing(p, S), owner' = owner,
           Succeeded(p)' \/ pc'[p] = "idle", \A d \in S : owner[d] = owner[work[p]] /\ d < work[p]
    PROVE  Succeeding(p)'
<1>t. TypeOK BY DEF DInv, IInv
<1>1. CASE S = {} BY <1>1, <1>t, IdleSucceeds DEF StartReplacing
<1>2. CASE S # {}
  <2>1. pc'[p] = "stopPrevious" /\ todo'[p] = S /\ work'[p] = work[p]
    BY <1>2, <1>t DEF StartReplacing, TypeOK
  <2> QED BY <2>1 DEF Succeeding, Replacing
<1> QED BY <1>1, <1>2

LEMMA PromoteSucceeds ==
    ASSUME DInv, NEW p \in Procs, Promote(p)
    PROVE  Succeeding(p)'
<1>t. TypeOK /\ IInv /\ Succeeding(p) BY DEF DInv, IInv
<1> PICK w : w = work[p] OBVIOUS
<1>1. pc[p] = "healthy" /\ ctr' = ctr /\ owner' = owner BY DEF Promote
<1>2. w \in Ids BY <1>1, <1>t DEF IInv, Busy, AtRow
<1>3. todo[p] = {} BY <1>1, <1>t DEF Succeeding, Replacing
<1>4. CASE ~Open(w)
  <2>1. Goto(p, "forceRemove") BY <1>4 DEF Promote, CatchAt, Holding
  <2>2. pc'[p] = "forceRemove" /\ todo'[p] = {} BY <1>3, <1>t, <2>1 DEF Goto, TypeOK
  <2> QED BY <2>2 DEF Succeeding, Promoted, Replacing
<1>5. CASE Open(w)
  <2>1. status'[w] = "running" /\ Up(w)'
    BY <1>1, <1>2, <1>5, <1>t DEF Promote, SetStatus, TypeOK, Succeeding, Up
  <2>2. status[w] = "starting"
    BY <1>1, <1>5, <1>t
    DEF IInv, InStep, AtRow, Allowed, Open, Closed, Final, Bare, Late, Holding, InProgress
  <2>3. work'[p] = w => Succeeded(p)' BY <1>2, <2>1 DEF Succeeded
  <2>4. CASE Goto(p, "hook")
    <3>1. pc'[p] = "hook" /\ work'[p] = w /\ todo'[p] = {} BY <1>3, <1>t, <2>4 DEF Goto, TypeOK
    <3> QED BY <2>3, <3>1 DEF Succeeding
  <2>5. CASE StartReplacing(p, PreviousOf(w))
    <3>1. PreviousOf(w) \in SUBSET Ids BY DEF PreviousOf, Rows
    <3>2. \A d \in PreviousOf(w) : owner[d] = owner[w] /\ d < w
      BY <1>2, <2>2 DEF PreviousOf, Rows, DInv, RunningOlder, InProgress
    <3>3. pc'[p] = "idle" \/ work'[p] = w BY <1>t, <2>5 DEF StartReplacing, Return, TypeOK
    <3> QED BY <1>1, <2>3, <2>5, <3>1, <3>2, <3>3, ReplacingSucceeds
  <2> QED BY <1>5, <2>4, <2>5 DEF Promote
<1> QED BY <1>4, <1>5

LEMMA HookSucceeds ==
    ASSUME NoMeddling, DInv, NotOvertaken, NotStopped, NEW p \in Procs, HookDone(p) \/ HookFails(p)
    PROVE  Succeeding(p)'
<1>t. TypeOK /\ IInv BY DEF DInv, IInv
<1>1. CASE HookFails(p) BY <1>1, <1>t, IdleSucceeds DEF HookFails
<1>2. CASE HookDone(p)
  <2> PICK w : w = work[p] OBVIOUS
  <2>1. pc[p] = "hook" /\ StartReplacing(p, PreviousOf(w)) /\ owner' = owner /\ Step(p) /\ ~Insert(p)
    BY <1>2 DEF HookDone, rows, Step, Insert
  <2>2. w \in Ids BY <2>1, <1>t DEF IInv, Busy, AtRow
  <2>3. PreviousOf(w) \in SUBSET Ids BY DEF PreviousOf, Rows
  <2>4. \A d \in PreviousOf(w) : owner[d] = owner[w] /\ d < w
    <3>1. ASSUME NEW d \in PreviousOf(w) PROVE owner[d] = owner[w] /\ d < w
      <4>1. d \in Rows(owner[w], {"running"}) /\ d # w BY DEF PreviousOf
      <4>2. d <= w BY <2>1, <4>1 DEF NotOvertaken
      <4>3. d \in Ids BY <4>1 DEF Rows
      <4> QED BY <2>2, <4>1, <4>2, <4>3 DEF Rows
    <3> QED BY <3>1
  <2>5. pc'[p] = "idle" \/ work'[p] = work[p] BY <1>t, <2>1 DEF StartReplacing, Return, TypeOK
  <2>6. pc[p] \in Promoted BY <2>1 DEF Promoted
  <2>7. Succeeded(p)' \/ pc'[p] = "idle" BY <2>1, <2>5, <2>6, StepSucceeded
  <2> QED BY <2>1, <2>3, <2>4, <2>7, ReplacingSucceeds
<1> QED BY <1>1, <1>2

LEMMA ReplaceSucceeds ==
    ASSUME NoMeddling, DInv, NotStopped, NEW p \in Procs,
           StopPrevious(p) \/ RemovePrevious(p) \/ Replaced(p)
    PROVE  Succeeding(p)'
<1>t. TypeOK /\ IInv /\ Succeeding(p) BY DEF DInv, IInv
<1>1. Step(p) /\ ~Insert(p) /\ owner' = owner /\ pc[p] \in Promoted
  BY DEF Step, Insert, StopPrevious, RemovePrevious, Replaced, rows, Promoted, Replacing
<1>2. work'[p] = work[p] => Succeeded(p)' BY <1>1, StepSucceeded
<1>3. \A d \in todo[p] : owner[d] = owner[work[p]] /\ d < work[p] BY <1>t DEF Succeeding
<1>4. CASE StopPrevious(p) \/ RemovePrevious(p)
  <2>1. pc'[p] \in Replacing /\ work'[p] = work[p] /\ todo'[p] = todo[p]
    BY <1>4, <1>t DEF StopPrevious, RemovePrevious, Goto, Replacing, TypeOK
  <2>2. pc'[p] # "healthy" BY <2>1 DEF Replacing
  <2> QED BY <1>1, <1>2, <1>3, <2>1, <2>2 DEF Succeeding
<1>5. CASE Replaced(p)
  <2>1. PICK d \in todo[p] : StartReplacing(p, todo[p] \ {d}) \/ Return(p) BY <1>5 DEF Replaced
  <2>2. CASE Return(p) BY <1>t, <2>2, IdleSucceeds
  <2>3. CASE StartReplacing(p, todo[p] \ {d})
    <3>1. todo[p] \ {d} \in SUBSET Ids BY <1>t DEF TypeOK
    <3>2. pc'[p] = "idle" \/ work'[p] = work[p] BY <1>t, <2>3 DEF StartReplacing, Return, TypeOK
    <3> QED BY <1>1, <1>2, <1>3, <2>3, <3>1, <3>2, ReplacingSucceeds
  <2> QED BY <2>1, <2>2, <2>3
<1> QED BY <1>4, <1>5

LEMMA StopSucceeds ==
    ASSUME DInv, NEW p \in Procs, StopContainer(p) \/ RemoveContainer(p) \/ Stopped(p)
    PROVE  Succeeding(p)'
<1>t. TypeOK /\ Succeeding(p) BY DEF DInv, IInv
<1>1. pc[p] \notin Replacing BY DEF StopContainer, RemoveContainer, Stopped, Replacing
<1>2. todo[p] = {} BY <1>1, <1>t DEF Succeeding
<1>3. CASE Return(p) BY <1>3, <1>t, IdleSucceeds
<1>4. CASE ~Return(p)
  <2>1. Goto(p, "remove") \/ Goto(p, "stopped")
    BY <1>4 DEF StopContainer, RemoveContainer, Stopped
  <2>2. pc'[p] \in {"remove", "stopped"} /\ todo'[p] = {} BY <1>2, <1>t, <2>1 DEF Goto, TypeOK
  <2> QED BY <2>2 DEF Succeeding, Promoted, Replacing
<1> QED BY <1>3, <1>4

LEMMA StepKeepsDInv ==
    ASSUME NoMeddling, DInv, NotOvertaken, NotStopped, NEW q \in Procs, Step(q), ~Insert(q)
    PROVE  RunningOlder' /\ \A p \in Procs : Succeeding(p)'
<1>0. ~WriteFails(q) BY DEF WriteFails, NoMeddling
<1>1. Succeeding(q)'
  BY <1>0, OwnTrySucceeds, PromoteSucceeds, HookSucceeds, ReplaceSucceeds, StopSucceeds DEF Step
<1> QED BY <1>1, OthersSucceed, StepOlder
-----------------------------------------------------------------------------
(* Steps around the processes, and beginnings: nothing that runs changes,  *)
(* unless somebody meddles.                                                *)
Around ==
    /\ \A d \in Ids : status[d] # "none" => owner'[d] = owner[d]
    /\ \A d \in Ids : status[d] = "running" => status'[d] = "running" /\ ctr'[d] = ctr[d]
    /\ \A d \in Ids : status[d] = "starting" /\ Open(d)' /\ ctr'[d] # ctr[d] =>
          \E r \in Procs : pc[r] \in {"probe", "window"} /\ d = work[r]

(* A process that does not move, or begins or ends a command. *)
Bystander(p) ==
    \/ pc'[p] = pc[p] /\ work'[p] = work[p] /\ todo'[p] = todo[p]
    \/ pc'[p] \in {"idle", "insert", "pending", "stop"} /\ todo'[p] = {}

LEMMA AroundSucceeds ==
    ASSUME DInv, Around, NEW p \in Procs, Bystander(p),
           \A d \in Ids : status[d] # "none" /\ Open(d)' => Open(d)
    PROVE  Succeeding(p)'
<1>i. IInv /\ TypeOK /\ Succeeding(p) BY DEF DInv, IInv
<1> PICK w : w = work[p] OBVIOUS
<1>1. CASE pc'[p] \in {"idle", "insert", "pending", "stop"} /\ todo'[p] = {}
  BY <1>1 DEF Succeeding, Promoted, Replacing
<1>2. CASE pc'[p] = pc[p] /\ work'[p] = w /\ todo'[p] = todo[p]
  <2>1. AtRow(p) => w \in Ids /\ owner'[w] = owner[w] /\ status[w] # "none"
    <3>1. AtRow(p) => w \in Ids /\ status[w] \in Allowed(pc[p]) BY <1>i DEF IInv, Busy, InStep
    <3>2. AtRow(p) => status[w] # "none" BY <3>1 DEF Allowed, Closed, Final, InProgress, Unlogged
    <3> QED BY <3>1, <3>2 DEF Around
  <2>2. ASSUME pc[p] = "healthy", Open(w)' PROVE Up(w)'
    <3>1. w \in Ids /\ Open(w) BY <2>1, <2>2 DEF AtRow
    <3>2. status[w] = "starting"
      BY <2>2, <3>1, <1>i DEF IInv, InStep, AtRow, Allowed, Open, Closed, Final, Bare, Late, Holding, InProgress
    <3>3. \A r \in Procs : pc[r] \in {"probe", "window"} => w # work[r]
      BY <2>2, <1>i DEF IInv, Alone, InTry, Holding
    <3>4. ctr'[w] = ctr[w] BY <2>2, <3>1, <3>2, <3>3 DEF Around
    <3> QED BY <2>2, <3>1, <3>4, <1>i DEF Succeeding, Up
  <2>3. ASSUME pc[p] \in Promoted PROVE Succeeded(p)'
    <3>1. PICK e \in Ids : e >= w /\ owner[e] = owner[w] /\ status[e] = "running" /\ Up(e)
      BY <2>3, <1>i DEF Succeeding, Succeeded
    <3>2. owner'[w] = owner[w] BY <2>1, <2>3 DEF AtRow, Promoted, Replacing
    <3>3. owner'[e] = owner[e] /\ status'[e] = "running" /\ Up(e)' BY <3>1 DEF Around, Up
    <3> QED BY <1>2, <3>1, <3>2, <3>3 DEF Succeeded
  <2>4. \A d \in todo[p] : pc[p] \in Replacing /\ owner'[d] = owner'[w] /\ d < w
    <3>1. \A d \in todo[p] : d \in Ids /\ status[d] # "none"
      BY <1>i DEF IInv, HasRun, Closed, Final, TypeOK
    <3>2. \A d \in todo[p] : pc[p] \in Replacing /\ owner[d] = owner[w] /\ d < w BY <1>i DEF Succeeding
    <3>3. pc[p] \in Replacing => owner'[w] = owner[w] BY <2>1 DEF AtRow, Replacing
    <3>4. \A d \in todo[p] : owner'[d] = owner[d] BY <3>1 DEF Around
    <3> QED BY <3>2, <3>3, <3>4
  <2> QED BY <1>2, <2>2, <2>3, <2>4 DEF Succeeding
<1> QED BY <1>1, <1>2 DEF Bystander

LEMMA InsertAround ==
    ASSUME DInv, NEW q \in Procs, Insert(q)
    PROVE  /\ Around /\ RunningOlder'
           /\ \A p \in Procs : Bystander(p)
           /\ \A d \in Ids : status[d] # "none" /\ Open(d)' => Open(d)
<1>i. IInv /\ TypeOK BY DEF DInv, IInv
<1>1. /\ seq \in Ids /\ ctr' = ctr
      /\ \A d \in Ids : /\ status'[d] = (IF d = seq THEN "pending" ELSE status[d])
                        /\ owner'[d] = (IF d = seq THEN wants[q] ELSE owner[d])
  BY <1>i, InsertRow
<1>2. status[seq] = "none" BY <1>i, InsertRow
<1>3. Around BY <1>1, <1>2 DEF Around
<1>4. RunningOlder'
  <2> SUFFICES ASSUME NEW d \in Ids, NEW e \in Ids, status'[d] \in InProgress, status'[e] = "running",
                      owner'[e] = owner'[d]
               PROVE  e < d
    BY DEF RunningOlder
  <2>1. e # seq /\ status[e] = "running" /\ owner[e] = owner'[d] BY <1>1
  <2>2. e < seq BY <1>i, <2>1 DEF IInv, Numbered, TypeOK
  <2>3. CASE d = seq BY <2>2, <2>3
  <2>4. CASE d # seq BY <1>1, <2>1, <2>4 DEF DInv, RunningOlder
  <2> QED BY <2>3, <2>4
<1>5. \A d \in Ids : status[d] # "none" /\ Open(d)' => Open(d) BY <1>1, <1>2 DEF Open
<1>6. \A p \in Procs : Bystander(p)
  <2>1. /\ Others(q) /\ pc[q] = "insert" /\ todo'[q] \subseteq todo[q]
        /\ pc'[q] \in {"pending", "idle"}
    BY <1>i, InsertRow
  <2>2. todo'[q] = {} BY <2>1 DEF DInv, Succeeding, Replacing
  <2> QED BY <2>1, <2>2 DEF Bystander, Others
<1> QED BY <1>3, <1>4, <1>5, <1>6

(* Every other step. *)
Besides ==
    \/ \E a \in AppNames : CreateApp(a) \/ DeleteApp(a)
    \/ \E p \in Procs, a \in AppNames : DeployBegin(p, a) \/ StopBegin(p, a)
    \/ \E p \in Procs : Insert(p) \/ Crash(p) \/ Misbehave(p)

LEMMA BesidesAround ==
    ASSUME NoMeddling, DInv, Besides
    PROVE  /\ Around /\ RunningOlder'
           /\ \A p \in Procs : Bystander(p)
           /\ \A d \in Ids : status[d] # "none" /\ Open(d)' => Open(d)
<1>i. IInv /\ TypeOK BY DEF DInv, IInv
<1>t. /\ pc \in [Procs -> Pcs] /\ work \in [Procs -> Ids \union {0}] /\ todo \in [Procs -> SUBSET Ids]
  BY <1>i DEF TypeOK
<1>0. \A p \in Procs : pc[p] = "idle" => todo[p] = {} BY DEF DInv, Succeeding, Replacing
<1>1. ASSUME NEW a \in AppNames, CreateApp(a) PROVE UNCHANGED <<owner, status, ctr, pc, work, todo>>
  BY <1>1 DEF CreateApp, procVars
<1>2. ASSUME NEW a \in AppNames, DeleteApp(a)
      PROVE  /\ Around /\ RunningOlder'
             /\ \A p \in Procs : Bystander(p)
             /\ \A d \in Ids : status[d] # "none" /\ Open(d)' => Open(d)
  <2>1. UNCHANGED <<owner, ctr, pc, work, todo>> BY <1>2 DEF DeleteApp, procVars
  <2>2. \A d \in Ids : \/ status'[d] = status[d]
                       \/ status[d] \notin {"none", "running"} /\ status'[d] = "deleted"
    BY <1>2, <1>i, DeleteMove
  <2>3. Around BY <2>1, <2>2 DEF Around
  <2>4. RunningOlder' BY <2>1, <2>2 DEF DInv, RunningOlder, InProgress
  <2>5. \A d \in Ids : Open(d)' => Open(d) BY <2>2 DEF Open, InProgress
  <2> QED BY <2>1, <2>3, <2>4, <2>5 DEF Bystander
<1>4. ASSUME NEW p \in Procs, NEW a \in AppNames, DeployBegin(p, a)
      PROVE  UNCHANGED <<owner, status, ctr>> /\ \A r \in Procs : Bystander(r)
  <2>1. UNCHANGED <<owner, status, ctr>> /\ pc[p] = "idle" BY <1>4 DEF DeployBegin, rows
  <2>2. pc'[p] = "insert" /\ todo'[p] = {} BY <1>0, <1>4, <1>t DEF DeployBegin
  <2>3. \A r \in Procs : r # p => pc'[r] = pc[r] /\ work'[r] = work[r] /\ todo'[r] = todo[r]
    BY <1>4, <1>t DEF DeployBegin
  <2> QED BY <2>1, <2>2, <2>3 DEF Bystander
<1>5. ASSUME NEW p \in Procs, NEW a \in AppNames, StopBegin(p, a)
      PROVE  UNCHANGED <<owner, status, ctr>> /\ \A r \in Procs : Bystander(r)
  <2>1. pc'[p] = "stop" /\ todo'[p] = {} BY <1>0, <1>5, <1>t DEF StopBegin
  <2>2. \A r \in Procs : r # p => pc'[r] = pc[r] /\ work'[r] = work[r] /\ todo'[r] = todo[r]
    BY <1>5, <1>t DEF StopBegin
  <2>3. UNCHANGED <<owner, status, ctr>> BY <1>5 DEF StopBegin, rows
  <2> QED BY <2>1, <2>2, <2>3 DEF Bystander
<1>6. ASSUME NEW p \in Procs, Crash(p)
      PROVE  UNCHANGED <<owner, status, ctr>> /\ \A r \in Procs : Bystander(r)
  <2>1. pc'[p] = "idle" /\ todo'[p] = {} BY <1>6, <1>t DEF Crash, Return
  <2>2. \A r \in Procs : r # p => pc'[r] = pc[r] /\ work'[r] = work[r] /\ todo'[r] = todo[r]
    BY <1>6, <1>t DEF Crash, Return
  <2>3. UNCHANGED <<owner, status, ctr>> BY <1>6 DEF Crash, rows
  <2> QED BY <2>1, <2>2, <2>3 DEF Bystander
<1>7. ASSUME NEW p \in Procs, Misbehave(p)
      PROVE  /\ UNCHANGED <<owner, status, pc, work, todo>> /\ Around
  <2>1. UNCHANGED <<owner, status, pc, work, todo>> BY <1>7 DEF Misbehave, rows, procVars
  <2>2. pc[p] \in {"probe", "window"} /\ \A d \in Ids : d # work[p] => ctr'[d] = ctr[d]
    BY <1>7, <1>i DEF Misbehave, SetContainer, TypeOK
  <2>3. status[work[p]] # "running" BY <1>i, <2>2, TryNotRunning DEF InTry, Holding, NoMeddling
  <2>4. Around BY <2>1, <2>2, <2>3 DEF Around
  <2> QED BY <2>1, <2>4
<1>8. ASSUME UNCHANGED <<owner, status>>
      PROVE  RunningOlder' /\ \A d \in Ids : Open(d)' => Open(d)
  BY <1>8 DEF DInv, RunningOlder, Open
<1>9. ASSUME UNCHANGED <<owner, status, ctr>> PROVE Around BY <1>9 DEF Around
<1>10. ASSUME UNCHANGED <<pc, work, todo>> PROVE \A p \in Procs : Bystander(p) BY <1>10 DEF Bystander
<1> QED BY <1>1, <1>2, <1>4, <1>5, <1>6, <1>7, <1>8, <1>9, <1>10, InsertAround DEF Besides

LEMMA InitDInv == Init => DInv
<1> SUFFICES ASSUME Init PROVE DInv
  OBVIOUS
<1>1. IInv /\ Cleared BY InitIInv, InitCleared
<1>2. /\ \A d \in Ids : status[d] = "none"
      /\ \A p \in Procs : pc[p] = "idle" /\ todo[p] = {}
  BY DEF Init
<1>3. RunningOlder BY <1>2 DEF RunningOlder, InProgress
<1>4. \A p \in Procs : Succeeding(p) BY <1>2 DEF Succeeding, Promoted, Replacing
<1> QED BY <1>1, <1>3, <1>4 DEF DInv

LEMMA NextDInv ==
    ASSUME NoMeddling, DInv, OneChecking, NotOvertaken, NotStopped, [Next]_vars
    PROVE  DInv'
<1>1. IInv' /\ Cleared' BY NextIInv, NextCleared DEF DInv
<1>2. ASSUME NEW p \in Procs, Step(p), ~Insert(p) PROVE DInv' BY <1>1, <1>2, StepKeepsDInv DEF DInv
<1>3. CASE Besides BY <1>1, <1>3, BesidesAround, AroundSucceeds DEF DInv
<1>4. CASE UNCHANGED vars
  <2>1. UNCHANGED <<owner, status, ctr, pc, work, todo>> BY <1>4 DEF vars
  <2>2. RunningOlder' BY <2>1 DEF DInv, RunningOlder
  <2>3. \A p \in Procs : Succeeding(p)' BY <2>1 DEF DInv, Succeeding, Succeeded, Open, Up
  <2> QED BY <1>1, <2>2, <2>3 DEF DInv
<1>5. ASSUME NEW d \in Ids, OutOfBand(d) \/ ReconcileMark(d) PROVE FALSE
  BY <1>5 DEF NoMeddling, OutOfBand, ReconcileMark
<1> QED BY <1>2, <1>3, <1>4, <1>5 DEF Next, Besides

LEMMA NextServes ==
    ASSUME NoMeddling, DInv, [Next]_vars, NEW a \in AppNames, Served(a), ~Served(a)'
    PROVE  \E p \in Procs : Stops(p, a)
<1>1. PICK d \in Ids : owner[d] = a /\ status[d] = "running" /\ Up(d) BY DEF Served, Rows
<1>2. ASSUME NEW e \in Ids, owner'[e] = a, status'[e] = "running", Up(e)' PROVE FALSE
  <2>1. e \in Rows(a, {"running"})' BY <1>2 DEF Rows
  <2> QED BY <1>2, <2>1 DEF Served
<1>3. ASSUME NEW q \in Procs, Step(q), ~Insert(q) PROVE Stops(q, a)
  BY <1>1, <1>2, <1>3, Outlives DEF Stops
<1>4. ~Besides
  <2> SUFFICES ASSUME Besides PROVE FALSE
    OBVIOUS
  <2>1. Around BY BesidesAround
  <2>2. owner'[d] = a /\ status'[d] = "running" /\ Up(d)' BY <1>1, <2>1 DEF Around, Up
  <2> QED BY <1>2, <2>2
<1>5. ~UNCHANGED vars BY <1>1, <1>2 DEF vars, Up
<1>6. ASSUME NEW e \in Ids, OutOfBand(e) \/ ReconcileMark(e) PROVE FALSE
  BY <1>6 DEF NoMeddling, OutOfBand, ReconcileMark
<1> QED BY <1>3, <1>4, <1>5, <1>6 DEF Next, Besides

(* Any number of commands at once, on any apps: however deploys fail and   *)
(* wherever they are killed, an app that is served goes on being served    *)
(* until somebody stops it, as long as no deploy is overtaken in its hook, *)
(* no two are between check and insert for one app, and no stop takes down *)
(* what a deploy has just promoted.  So outages by deploys take what       *)
(* engine.ts:100 has, where a newer deployment is taken for a previous     *)
(* one, or the crossing of engine.ts:141.                                  *)
THEOREM NoDowntimeUnlessOvertaken ==
    ASSUME NoMeddling
    PROVE  Spec /\ []OneChecking /\ []NotOvertaken /\ []NotStopped => NoDowntime
<1>1. DInv /\ OneChecking /\ NotOvertaken /\ NotStopped /\ [Next]_vars => DInv' BY NextDInv
<1>2. DInv /\ [Next]_vars =>
        [\A a \in AppNames : Served(a) /\ ~Served(a)' => \E p \in Procs : Stops(p, a)]_vars
  BY NextServes
<1> QED BY <1>1, <1>2, InitDInv, PTL DEF Spec, NoDowntime
-----------------------------------------------------------------------------
(* Stop stops an app, unless a deploy of it has been cut off before it     *)
(* replaced the previous deployment, or is at work still.                  *)

(* One command at a time works on the deployments of each app. *)
OnePerApp ==
    \A p, q \in Procs : AtRow(p) /\ AtRow(q) /\ owner[work[p]] = owner[work[q]] => p = q

(* No deploy is cut off after its promotion, by its hook, a kill or a      *)
(* statement that throws.                                                  *)
DeploysGoThrough == Faults \intersect {"hookError", "crash", "storeError"} = {}

RunsOne(a, S) == \A d, e \in Rows(a, {"running"}) \ S : d = e

(* Beside what p has promoted one deployment of the app runs, and that one *)
(* p takes down.                                                           *)
Replaces(p) ==
    /\ pc[p] \in Promoted => RunsOne(owner[work[p]], {work[p]})
    /\ pc[p] \in Replacing => Rows(owner[work[p]], {"running"}) \subseteq {work[p]} \union todo[p]
    /\ \A d, e \in todo[p] : d = e

Lone ==
    /\ \A p \in Procs : Replaces(p)
    /\ \A a \in AppNames \union {NoApp} :
          RunsOne(a, {}) \/ \E p \in Procs : pc[p] \in Promoted /\ owner[work[p]] = a

LoneInv == IInv /\ Lone

(* Nothing more runs than before. *)
Fewer == \A d \in Ids : status'[d] = "running" => status[d] = "running" /\ owner'[d] = owner[d]

(* A process that neither begins nor ends to replace something. *)
Stays(p) ==
    /\ pc'[p] = pc[p] \/ {pc[p], pc'[p]} \subseteq Replacing
    /\ work'[p] = work[p] /\ todo'[p] = todo[p]
    /\ pc[p] \in Promoted => owner'[work[p]] = owner[work[p]]

Out(p) == pc[p] \notin Promoted /\ pc'[p] \notin Promoted /\ todo'[p] \subseteq todo[p]

LEMMA FewerRows ==
    ASSUME Fewer, NEW a
    PROVE  /\ Rows(a, {"running"})' \subseteq Rows(a, {"running"})
           /\ \A S : RunsOne(a, S) => \A d, e \in Rows(a, {"running"})' \ S : d = e
<1>1. Rows(a, {"running"})' \subseteq Rows(a, {"running"}) BY DEF Fewer, Rows
<1> QED BY <1>1 DEF RunsOne

LEMMA FewerKeeps ==
    ASSUME Lone, Fewer, \A p \in Procs : Stays(p) \/ Out(p)
    PROVE  Lone'
<1>1. ASSUME NEW p \in Procs PROVE Replaces(p)'
  <2>1. CASE Stays(p)
    <3> PICK w : w = work[p] OBVIOUS
    <3> PICK a : a = owner[w] OBVIOUS
    <3>1. Replaces(p) BY DEF Lone
    <3>2. pc'[p] \in Promoted => work'[p] = w /\ owner'[w] = a /\ RunsOne(a, {w})
      BY <2>1, <3>1 DEF Stays, Replaces, Promoted
    <3>3. pc'[p] \in Promoted => \A d, e \in Rows(a, {"running"})' \ {w} : d = e BY <3>2, FewerRows
    <3>4. pc'[p] \in Promoted => RunsOne(owner[work[p]], {work[p]})' BY <3>2, <3>3 DEF RunsOne
    <3>5. pc'[p] \in Replacing => Rows(a, {"running"}) \subseteq {w} \union todo[p]
      BY <2>1, <3>1 DEF Stays, Replaces
    <3>6. Rows(a, {"running"})' \subseteq Rows(a, {"running"}) BY FewerRows
    <3>7. pc'[p] \in Replacing => Rows(owner[work[p]], {"running"})' \subseteq {work'[p]} \union todo'[p]
      BY <2>1, <3>2, <3>5, <3>6 DEF Stays, Promoted
    <3> QED BY <2>1, <3>1, <3>4, <3>7 DEF Stays, Replaces
  <2>2. CASE Out(p) BY <2>2 DEF Lone, Out, Replaces, Promoted
  <2> QED BY <2>1, <2>2
<1>2. ASSUME NEW a \in AppNames \union {NoApp}
      PROVE  RunsOne(a, {})' \/ \E p \in Procs : pc'[p] \in Promoted /\ owner'[work'[p]] = a
  <2>1. CASE RunsOne(a, {})
    <3>1. \A d, e \in Rows(a, {"running"})' \ {} : d = e BY <2>1, FewerRows
    <3> QED BY <3>1 DEF RunsOne
  <2>2. CASE \E p \in Procs : pc[p] \in Promoted /\ owner[work[p]] = a
    BY <2>2 DEF Stays, Out, Promoted
  <2> QED BY <2>1, <2>2 DEF Lone
<1> QED BY <1>1, <1>2 DEF Lone

(* A process whose deployment is promoted or done: of other apps nothing   *)
(* runs that did not, and nobody else is at work on this one.              *)
LEMMA MoverKeeps ==
    ASSUME LoneInv, OnePerApp, NEW q \in Procs, Step(q), ~Insert(q), AtRow(q),
           NEW w \in Ids, w = work[q],
           \A d \in Ids : status'[d] = "running" /\ owner[d] # owner[w] => status[d] = "running",
           Replaces(q)',
           RunsOne(owner[w], {})' \/ (pc'[q] \in Promoted /\ work'[q] = w)
    PROVE  Lone'
<1>1. Others(q) /\ owner' = owner BY StepOne DEF LoneInv, OneStep
<1>2. ASSUME NEW a, a # owner[w]
      PROVE  Rows(a, {"running"})' \subseteq Rows(a, {"running"})
  BY <1>1, <1>2 DEF Rows
<1>3. ASSUME NEW p \in Procs, p # q PROVE Replaces(p)'
  <2> PICK v : v = work[p] OBVIOUS
  <2>1. pc'[p] = pc[p] /\ work'[p] = v /\ todo'[p] = todo[p] BY <1>1, <1>3 DEF Others
  <2>2. pc[p] \in Promoted => owner[v] # owner[w] BY <1>3 DEF OnePerApp, AtRow, Promoted, Replacing
  <2> PICK b : b = owner[v] OBVIOUS
  <2>3. pc[p] \in Promoted => Rows(b, {"running"})' \subseteq Rows(b, {"running"})
    BY <1>2, <2>2
  <2>4. Replaces(p) BY DEF LoneInv, Lone
  <2>5. pc[p] \in Promoted => RunsOne(owner[work[p]], {work[p]})'
    BY <1>1, <2>1, <2>3, <2>4 DEF Replaces, RunsOne
  <2>6. pc[p] \in Replacing => Rows(owner[work[p]], {"running"})' \subseteq {work'[p]} \union todo'[p]
    BY <1>1, <2>1, <2>3, <2>4 DEF Replaces, Promoted
  <2> QED BY <2>1, <2>4, <2>5, <2>6 DEF Replaces
<1>4. ASSUME NEW a \in AppNames \union {NoApp}
      PROVE  RunsOne(a, {})' \/ \E p \in Procs : pc'[p] \in Promoted /\ owner'[work'[p]] = a
  <2>1. CASE a = owner[w] BY <1>1, <2>1
  <2>2. CASE a # owner[w]
    <3>1. CASE RunsOne(a, {}) BY <1>2, <2>2, <3>1 DEF RunsOne
    <3>2. CASE \E p \in Procs : pc[p] \in Promoted /\ owner[work[p]] = a
      BY <1>1, <2>2, <3>2 DEF Others
    <3> QED BY <3>1, <3>2 DEF LoneInv, Lone
  <2> QED BY <2>1, <2>2
<1> QED BY <1>3, <1>4 DEF Lone

(* Steps that promote nothing and end no replacing. *)
LEMMA PlainStep ==
    ASSUME DeploysGoThrough, LoneInv, NEW q \in Procs, Step(q), ~Insert(q), ~HookDone(q),
           ~HookFails(q), ~Replaced(q), ~(Promote(q) /\ Open(work[q]))
    PROVE  Fewer /\ \A p \in Procs : Stays(p) \/ Out(p)
<1>e. "storeError" \notin Faults /\ ~WriteFails(q) BY DEF DeploysGoThrough, WriteFails
<1>i. IInv /\ TypeOK /\ owner' = owner /\ RunMove(q) /\ Others(q)
  BY <1>e, StepOne, StepRuns DEF LoneInv, IInv, OneStep
<1>1. CASE Promote(q)
  <2>1. UNCHANGED status /\ Goto(q, "forceRemove") /\ pc[q] = "healthy"
    BY <1>1 DEF Promote, CatchAt, Holding
  <2>2. pc'[q] = "forceRemove" /\ todo'[q] = todo[q] BY <1>i, <2>1 DEF Goto, TypeOK
  <2>3. Out(q) BY <2>1, <2>2 DEF Out, Promoted, Replacing
  <2>4. Fewer BY <1>i, <2>1 DEF Fewer
  <2> QED BY <1>i, <2>3, <2>4 DEF Others, Stays
<1>2. CASE ~Promote(q)
  <2>1. pc[q] # "healthy"
    BY <1>2, <1>e
    DEF Step, NotInserted, SetPulling, Pulled, Created, RecordStarting, Started, Probe, Verdict, Reap,
        Reaped, NotFound, CallFails, ForceRemove, GiveUp, HookDone, HookFails, StopPrevious, RemovePrevious, Replaced, StopContainer,
        RemoveContainer, Stopped
  <2>2. Fewer BY <1>i, <2>1 DEF Fewer, RunMove
  <2>3. CASE StopPrevious(q) \/ RemovePrevious(q)
    <3>1. {pc[q], pc'[q]} \subseteq Replacing /\ work'[q] = work[q] /\ todo'[q] = todo[q]
      BY <1>i, <2>3 DEF StopPrevious, RemovePrevious, Goto, Replacing, TypeOK
    <3> QED BY <1>i, <2>2, <3>1 DEF Stays, Others
  <2>4. CASE StopContainer(q) \/ RemoveContainer(q) \/ Stopped(q)
    <3>1. pc[q] \in Stopping /\ pc'[q] \in Stopping \union {"idle"} /\ todo'[q] \subseteq todo[q]
      BY <1>i, <2>4 DEF StopContainer, RemoveContainer, Stopped, Goto, Return, Stopping, TypeOK
    <3>2. Out(q) BY <3>1 DEF Out, Promoted, Replacing, Stopping
    <3> QED BY <1>i, <2>2, <3>2 DEF Stays, Others
  <2>5. CASE ~(StopPrevious(q) \/ RemovePrevious(q) \/ StopContainer(q) \/ RemoveContainer(q) \/ Stopped(q))
    <3>1. /\ pc[q] \in InTry \union {"insert"} /\ pc'[q] \in InTry \union {"idle"}
          /\ todo'[q] \subseteq todo[q]
      BY <1>i, <1>e, <1>2, <2>5
      DEF Step, NotInserted, SetPulling, Pulled, Created, RecordStarting, Started, Probe, Verdict, Reap,
          Reaped, NotFound, CallFails, ForceRemove, GiveUp, Goto, Return, CatchAt, InTry, Bare,
          Holding, Catching, TypeOK
    <3>2. Out(q) BY <3>1 DEF Out, Promoted, Replacing, InTry, Bare, Holding, Catching
    <3> QED BY <1>i, <2>2, <3>2 DEF Stays, Others
  <2> QED BY <2>3, <2>4, <2>5
<1> QED BY <1>1, <1>2

(* Where replacing begins: after it the deployment runs alone, or what     *)
(* runs beside it is left to be replaced.                                  *)
LEMMA BeginsReplacing ==
    ASSUME TypeOK, NEW q \in Procs, NEW w \in Ids, w = work[q], StartReplacing(q, PreviousOf(w)),
           owner' = owner, RunsOne(owner[w], {w}),
           \A d \in Ids : status'[d] = "running" /\ d # w => status[d] = "running"
    PROVE  Replaces(q)' /\ (RunsOne(owner[w], {})' \/ (pc'[q] \in Promoted /\ work'[q] = w))
<1>0. \A d, e \in PreviousOf(w) : d = e BY DEF RunsOne, PreviousOf
<1>1. Rows(owner[w], {"running"})' \subseteq {w} \union PreviousOf(w) BY DEF Rows, PreviousOf
<1>2. CASE PreviousOf(w) = {}
  <2>1. pc'[q] = "idle" /\ todo'[q] = {} BY <1>2 DEF StartReplacing, Return, TypeOK
  <2>2. RunsOne(owner[w], {})' BY <1>1, <1>2 DEF RunsOne
  <2> QED BY <2>1, <2>2 DEF Replaces, Promoted, Replacing
<1>3. CASE PreviousOf(w) # {}
  <2>1. pc'[q] = "stopPrevious" /\ todo'[q] = PreviousOf(w) /\ work'[q] = w
    BY <1>3 DEF StartReplacing, TypeOK, PreviousOf, Rows
  <2>2. RunsOne(owner[w], {w})' BY <1>0, <1>1 DEF RunsOne
  <2> QED BY <1>0, <1>1, <2>1, <2>2 DEF Replaces, Promoted, Replacing
<1> QED BY <1>2, <1>3

LEMMA StepLone ==
    ASSUME DeploysGoThrough, LoneInv, OnePerApp, NEW q \in Procs, Step(q), ~Insert(q)
    PROVE  Lone'
<1>i. IInv /\ TypeOK /\ Lone /\ owner' = owner /\ RunMove(q)
  BY StepOne, StepRuns DEF LoneInv, IInv, OneStep, DeploysGoThrough
<1> PICK w : w = work[q] OBVIOUS
<1>1. CASE Promote(q) /\ Open(w)
  <2>1. pc[q] = "healthy" /\ AtRow(q) /\ w \in Ids /\ status[w] \in Allowed("healthy")
    BY <1>i, <1>1 DEF Promote, IInv, Busy, InStep, AtRow
  <2>2. status' = [status EXCEPT ![w] = "running"] BY <1>1 DEF Promote, SetStatus
  <2>3. \A d \in Ids : status'[d] = "running" /\ d # w => status[d] = "running" BY <1>i, <2>2 DEF TypeOK
  <2>4. \A p \in Procs : pc[p] \in Promoted => owner[work[p]] # owner[w]
    BY <2>1 DEF OnePerApp, AtRow, Promoted, Replacing
  <2>5. owner[w] \in AppNames \union {NoApp} BY <1>i, <2>1 DEF TypeOK
  <2>6. RunsOne(owner[w], {}) BY <1>i, <2>4, <2>5 DEF Lone
  <2>7. CASE Goto(q, "hook")
    <3>1. pc'[q] = "hook" /\ work'[q] = w /\ todo'[q] = todo[q] BY <1>i, <2>7 DEF Goto, TypeOK
    <3>2. Rows(owner[w], {"running"})' \ {w} \subseteq Rows(owner[w], {"running"}) BY <1>i, <2>3 DEF Rows
    <3>3. RunsOne(owner[w], {w})' BY <2>6, <3>2 DEF RunsOne
    <3>4. Replaces(q)' BY <1>i, <3>1, <3>3 DEF Lone, Replaces, Replacing
    <3> QED BY <2>1, <2>3, <3>1, <3>4, MoverKeeps DEF Promoted
  <2>8. CASE StartReplacing(q, PreviousOf(w))
    <3>1. RunsOne(owner[w], {w}) BY <2>6 DEF RunsOne
    <3> QED BY <1>i, <2>1, <2>3, <2>8, <3>1, BeginsReplacing, MoverKeeps
  <2> QED BY <1>1, <2>7, <2>8 DEF Promote
<1>2. CASE HookDone(q)
  <2>1. /\ pc[q] = "hook" /\ AtRow(q) /\ w \in Ids /\ UNCHANGED status
        /\ StartReplacing(q, PreviousOf(w))
    BY <1>i, <1>2 DEF HookDone, rows, IInv, Busy, AtRow
  <2>2. RunsOne(owner[w], {w}) BY <1>i, <2>1 DEF Lone, Replaces, Promoted
  <2> QED BY <1>i, <2>1, <2>2, BeginsReplacing, MoverKeeps
<1>3. CASE Replaced(q)
  <2>1. pc[q] = "replaced" /\ AtRow(q) /\ w \in Ids BY <1>i, <1>3 DEF Replaced, IInv, Busy, AtRow
  <2>2. PICK d \in todo[q] :
          \/ Open(d) /\ SetStatus(d, "replaced") /\ StartReplacing(q, todo[q] \ {d})
          \/ ~Open(d) /\ Return(q) /\ UNCHANGED status
    BY <1>3 DEF Replaced
  <2>a. d \in Ids BY <1>i, <2>2 DEF TypeOK
  <2>b. Replaces(q) BY <1>i DEF Lone
  <2>c. Rows(owner[w], {"running"}) \subseteq {w} \union todo[q] BY <2>1, <2>b DEF Replaces, Replacing
  <2>d. \A e \in todo[q] : e = d BY <2>2, <2>b DEF Replaces
  <2>e. todo[q] = {d} BY <2>2, <2>d
  <2>3. todo[q] = {d} /\ d \in Ids /\ Rows(owner[w], {"running"}) \subseteq {w, d}
    BY <2>a, <2>c, <2>e
  <2>4. Return(q) BY <2>2, <2>3 DEF StartReplacing
  <2>5. pc'[q] = "idle" /\ todo'[q] = {} BY <1>i, <2>4 DEF Return, TypeOK
  <2>6. status'[d] # "running" /\ \A e \in Ids : status'[e] = "running" => status[e] = "running"
    BY <1>i, <2>2, <2>3 DEF SetStatus, Open, TypeOK
  <2>7. Rows(owner[w], {"running"})' \subseteq {w} BY <1>i, <2>3, <2>6 DEF Rows
  <2>8. RunsOne(owner[w], {})' BY <2>7 DEF RunsOne
  <2>9. Replaces(q)' BY <2>5 DEF Replaces, Promoted, Replacing
  <2> QED BY <2>1, <2>6, <2>8, <2>9, MoverKeeps
<1>4. ~HookFails(q) BY DEF HookFails, DeploysGoThrough
<1>5. CASE ~(Promote(q) /\ Open(w)) /\ ~HookDone(q) /\ ~Replaced(q)
  BY <1>i, <1>4, <1>5, PlainStep, FewerKeeps
<1> QED BY <1>1, <1>2, <1>3, <1>5

(* A deployment row that is inserted does not run, and whoever is at work  *)
(* works on an older one.                                                  *)
LEMMA InsertFewer ==
    ASSUME IInv, NEW q \in Procs, Insert(q)
    PROVE  Fewer /\ \A p \in Procs : Stays(p) \/ Out(p)
<1>1. /\ seq \in Ids /\ Others(q) /\ pc[q] = "insert" /\ pc'[q] \in {"pending", "idle"}
      /\ todo'[q] \subseteq todo[q]
      /\ \A d \in Ids : d # seq => owner'[d] = owner[d] /\ status'[d] = status[d]
      /\ status'[seq] = "pending"
  BY InsertRow
<1>2. Fewer BY <1>1 DEF Fewer
<1>3. \A p \in Procs : AtRow(p) => work[p] \in Ids /\ work[p] # seq BY DEF IInv, Busy, TypeOK
<1>4. Out(q) BY <1>1 DEF Out, Promoted, Replacing
<1>5. \A p \in Procs \ {q} : Stays(p)
  BY <1>1, <1>3 DEF Stays, Others, AtRow, Promoted, Replacing
<1> QED BY <1>2, <1>4, <1>5

LEMMA AroundLone ==
    ASSUME DeploysGoThrough, LoneInv, [Next]_vars, \A p \in Procs : Step(p) => Insert(p)
    PROVE  Lone'
<1>i. IInv /\ TypeOK /\ Lone /\ TypeOK' BY NextType DEF LoneInv, IInv
<1>q. ASSUME Fewer, UNCHANGED <<owner, pc, work, todo>> PROVE Lone'
  BY <1>i, <1>q, FewerKeeps DEF Stays
<1>1. ASSUME NEW a \in AppNames, CreateApp(a) PROVE Lone'
  BY <1>1, <1>q DEF CreateApp, procVars, Fewer
<1>2. ASSUME NEW a \in AppNames, DeleteApp(a) PROVE Lone'
  <2>1. UNCHANGED <<owner, pc, work, todo>> BY <1>2 DEF DeleteApp, procVars
  <2>2. \A d \in Ids : status'[d] = status[d] \/ status'[d] = "deleted" BY <1>i, <1>2, DeleteMove
  <2> QED BY <1>q, <2>1, <2>2 DEF Fewer
<1>3. ASSUME NEW p \in Procs, NEW a \in AppNames, DeployBegin(p, a) PROVE Lone'
  <2>1. UNCHANGED <<status, owner>> BY <1>3 DEF DeployBegin, rows
  <2>2. Out(p) BY <1>i, <1>3 DEF DeployBegin, Out, Promoted, Replacing, TypeOK
  <2>3. ASSUME NEW q \in Procs, q # p PROVE Stays(q)
    BY <1>i, <1>3, <2>1, <2>3 DEF DeployBegin, Stays, TypeOK
  <2> QED BY <1>i, <2>1, <2>2, <2>3, FewerKeeps DEF Fewer
<1>4. ASSUME NEW p \in Procs, NEW a \in AppNames, StopBegin(p, a) PROVE Lone'
  <2>1. UNCHANGED <<status, owner>> BY <1>4 DEF StopBegin, rows
  <2>2. Out(p) BY <1>i, <1>4 DEF StopBegin, Out, Promoted, Replacing, TypeOK
  <2>3. ASSUME NEW q \in Procs, q # p PROVE Stays(q)
    BY <1>i, <1>4, <2>1, <2>3 DEF StopBegin, Stays, TypeOK
  <2> QED BY <1>i, <2>1, <2>2, <2>3, FewerKeeps DEF Fewer
<1>5. ASSUME NEW p \in Procs, Misbehave(p) PROVE Lone'
  BY <1>5, <1>q DEF Misbehave, procVars, rows, Fewer
<1>6. ASSUME NEW d \in Ids, OutOfBand(d) PROVE Lone'
  BY <1>6, <1>q DEF OutOfBand, procVars, rows, Fewer
<1>7. ASSUME NEW d \in Ids, ReconcileMark(d) PROVE Lone'
  <2>1. UNCHANGED <<owner, pc, work, todo>> BY <1>7 DEF ReconcileMark, procVars
  <2>2. \A e \in Ids : status'[e] = "running" => status[e] = "running"
    BY <1>i, <1>7 DEF ReconcileMark, SetStatus, TypeOK
  <2> QED BY <1>q, <2>1, <2>2 DEF Fewer
<1>8. CASE UNCHANGED vars BY <1>8, <1>q DEF vars, Fewer
<1>9. "crash" \notin Faults BY DEF DeploysGoThrough
<1>10. ASSUME NEW p \in Procs, Step(p) PROVE Lone' BY <1>i, <1>10, InsertFewer, FewerKeeps
<1> QED
  BY <1>1, <1>2, <1>3, <1>4, <1>5, <1>6, <1>7, <1>8, <1>9, <1>10 DEF Next, Crash

LEMMA InitLone == Init => LoneInv
<1> SUFFICES ASSUME Init PROVE Lone BY InitIInv DEF LoneInv
<1>1. \A a : Rows(a, {"running"}) = {} BY DEF Init, Rows
<1>2. \A p \in Procs : pc[p] = "idle" /\ todo[p] = {} BY DEF Init
<1> QED BY <1>1, <1>2 DEF Lone, Replaces, RunsOne, Promoted, Replacing

LEMMA NextLone ==
    ASSUME DeploysGoThrough, LoneInv, OnePerApp, [Next]_vars
    PROVE  LoneInv'
<1>1. IInv' BY NextIInv DEF LoneInv
<1>2. ASSUME NEW p \in Procs, Step(p), ~Insert(p) PROVE Lone' BY <1>2, StepLone
<1>3. CASE \A p \in Procs : Step(p) => Insert(p) BY <1>1, <1>3, AroundLone DEF LoneInv
<1> QED BY <1>1, <1>2, <1>3 DEF LoneInv

(* Where the stop of a running deployment is the only command on the app,  *)
(* no other deployment of it runs.                                         *)
LEMMA StopsTheApp ==
    ASSUME LoneInv, OnePerApp, NEW p \in Procs, NEW a \in AppNames, Stopped(p),
           work[p] \in Rows(a, {"running"})
    PROVE  Rows(a, {"running"})' = {}
<1> PICK w : w = work[p] OBVIOUS
<1>1. pc[p] = "stopped" /\ w \in Ids /\ owner[w] = a /\ status[w] = "running" BY DEF Stopped, Rows
<1>2. \A q \in Procs : pc[q] \in Promoted => owner[work[q]] # a
  BY <1>1 DEF OnePerApp, AtRow, Promoted, Replacing
<1>3. RunsOne(a, {}) BY <1>2 DEF LoneInv, Lone
<1>4. \A d \in Rows(a, {"running"}) : d = w BY <1>1, <1>3 DEF RunsOne, Rows
<1>5. status' = [status EXCEPT ![w] = "stopped"] /\ owner' = owner BY <1>1 DEF Stopped, Open
<1>6. status'[w] = "stopped" /\ \A d \in Ids : d # w => status'[d] = status[d]
  BY <1>1, <1>5 DEF LoneInv, IInv, TypeOK
<1> QED BY <1>4, <1>5, <1>6 DEF Rows

(* Commands on different apps run at once, those on one app one after      *)
(* another, and no deploy is cut off by its hook, by a kill or by a busy   *)
(* database: then a stop that takes down the newest running deployment     *)
(* leaves none running (stop.ts takes down no other), whatever calls fail, *)
(* whatever happens to containers behind paas's back and whatever          *)
(* reconcile closes.                                                       *)
THEOREM StoppedMeansDownOneAtATime ==
    ASSUME DeploysGoThrough
    PROVE  Spec /\ []OnePerApp => StoppedMeansDown
<1>1. LoneInv /\ OnePerApp /\ [Next]_vars => LoneInv' BY NextLone
<1>2. LoneInv /\ OnePerApp /\ [Next]_vars =>
        [\A p \in Procs, a \in AppNames :
            Stopped(p) /\ work[p] \in Rows(a, {"running"}) => Rows(a, {"running"})' = {}]_vars
  BY StopsTheApp
<1> QED BY <1>1, <1>2, InitLone, PTL DEF Spec, StoppedMeansDown

-----------------------------------------------------------------------------
(* What deploy rejects with. *)

(* The row of a process that still tries has not been finished, though it  *)
(* may have been deleted with its app.                                     *)
Unfinished == \A p \in Procs : pc[p] \in InTry => status[work[p]] \notin Final

(* Only the process that deploys it finishes a deployment in flight, and   *)
(* that is its last step.                                                  *)
LEMMA FinishesOwn ==
    ASSUME IInv, "storeError" \notin Faults, NEW q \in Procs, Step(q), ~Insert(q), NEW d \in Ids,
           status[d] \in InProgress, status'[d] \in Final
    PROVE  pc[q] \in InTry /\ d = work[q] /\ pc'[q] = "idle"
<1>t. TypeOK /\ ~WriteFails(q) BY DEF IInv, WriteFails
<1>f. InProgress \intersect Closed = {} /\ "running" \notin InProgress /\ Final \subseteq Closed
  BY DEF InProgress, Closed, Final
<1>1. CASE Reaped(q) \/ GiveUp(q)
  <2>1. status' = [status EXCEPT ![work[q]] = "failed"] \/ status' = status
    BY <1>1 DEF Reaped, GiveUp, SetStatus, MarkFailed
  <2>2. d = work[q] BY <1>t, <1>f, <2>1 DEF TypeOK
  <2>3. Open(work[q]) BY <2>2 DEF Open
  <2> QED BY <1>1, <1>t, <2>2, <2>3 DEF Reaped, GiveUp, Return, InTry, Holding, Catching, TypeOK
<1>2. CASE Promote(q) \/ RecordStarting(q) \/ SetPulling(q)
  <2>1. \/ status' = status
        \/ \E s \in {"running", "starting", "pulling"} : status' = [status EXCEPT ![work[q]] = s]
    BY <1>2 DEF Promote, RecordStarting, SetPulling, SetStatus, rows
  <2> QED BY <1>t, <1>f, <2>1 DEF TypeOK, Final
<1>3. CASE Replaced(q)
  <2>1. PICK e \in todo[q] : status' = status \/ status' = [status EXCEPT ![e] = "replaced"]
    BY <1>3 DEF Replaced, SetStatus
  <2>2. e \in Ids /\ status[e] \notin InProgress BY <1>t, <1>f DEF IInv, HasRun, TypeOK
  <2> QED BY <1>t, <1>f, <2>1, <2>2 DEF TypeOK
<1>4. CASE Stopped(q)
  <2>1. pc[q] = "stopped" /\ (status' = status \/ status' = [status EXCEPT ![work[q]] = "stopped"])
    BY <1>4 DEF Stopped
  <2>2. status[work[q]] \in Allowed("stopped") BY <2>1 DEF IInv, InStep, AtRow
  <2>3. status[work[q]] \notin InProgress
    BY <1>f, <2>2 DEF Allowed, Bare, Late, Holding, Catching
  <2> QED BY <1>t, <1>f, <2>1, <2>3 DEF TypeOK
<1>5. CASE ~(\/ Reaped(q) \/ GiveUp(q) \/ Promote(q) \/ RecordStarting(q) \/ SetPulling(q)
             \/ Replaced(q) \/ Stopped(q))
  <2>1. status' = status
    BY <1>t, <1>5 DEF Step, NotInserted, Pulled, Created, Started, Probe, Verdict, Reap, NotFound, CallFails, ForceRemove,
                HookDone, HookFails, StopPrevious, RemovePrevious, StopContainer, RemoveContainer, rows
  <2> QED BY <1>f, <2>1
<1> QED BY <1>1, <1>2, <1>3, <1>4, <1>5

LEMMA NextUnfinished ==
    ASSUME "mark" \notin Faults, "storeError" \notin Faults, IInv, Unfinished, [Next]_vars
    PROVE  Unfinished'
<1> SUFFICES ASSUME NEW p \in Procs, pc'[p] \in InTry, status'[work'[p]] \in Final PROVE FALSE
  BY DEF Unfinished
<1>t. TypeOK /\ TypeOK' BY NextType DEF IInv
<1>i. {"idle", "insert", "stop"} \intersect InTry = {} BY DEF InTry, Bare, Holding, Catching
<1>f. InProgress \intersect Closed = {} /\ Final \subseteq Closed /\ "deleted" \notin Final
  BY DEF InProgress, Closed, Final
<1> PICK w : w = work[p] OBVIOUS
(* A process that tries is at a row in flight, or deleted. *)
<1>w. pc[p] \in InTry => w \in Ids /\ status[w] \in InProgress \union {"deleted"}
  <2>1. pc[p] \in InTry => w \in Ids /\ status[w] \in Allowed(pc[p]) /\ status[w] \notin Final
    BY <1>i DEF IInv, Busy, InStep, Unfinished, AtRow
  <2> QED BY <2>1 DEF Allowed, Closed, InProgress, InTry, Late, Holding, Bare, Catching, Unlogged
<1>n. ASSUME NEW q \in Procs, Insert(q) PROVE FALSE
  <2>1. /\ Others(q) /\ seq \in Ids /\ status[seq] = "none"
        /\ \/ pc'[q] = "pending" /\ work'[q] = seq
           \/ pc'[q] = "idle"
        /\ \A d \in Ids : status'[d] = IF d = seq THEN "pending" ELSE status[d]
    BY <1>n, InsertRow DEF Others
  <2>2. CASE q = p BY <1>i, <1>n, <2>1, <2>2, InsertRow DEF Final
  <2>3. CASE q # p
    <3>1. Others(q) BY <1>n, InsertRow
    <3>2. pc[p] \in InTry /\ work'[p] = w BY <2>3, <3>1 DEF Others
    <3> QED BY <1>w, <1>n, <3>2, InsertRow DEF Final, InProgress
  <2> QED BY <2>2, <2>3
(* What it was at it is at, unless it begins. *)
<1>1. CASE pc[p] \in InTry /\ work'[p] = w
  <2>1. status[w] \in InProgress /\ status'[w] = "failed"
    BY <1>1, <1>w, <1>f, NextStatus DEF Final, InProgress
  <2>2. ASSUME NEW q \in Procs, Step(q) PROVE FALSE
    <3>1. pc[q] \in InTry /\ w = work[q] /\ pc'[q] = "idle"
      BY <1>w, <1>1, <1>n, <2>1, <2>2, FinishesOwn DEF Final
    <3> QED BY <1>1, <1>i, <3>1 DEF IInv, Alone
  <2>3. ASSUME NEW a \in AppNames, DeleteApp(a) PROVE FALSE
    BY <1>1, <1>w, <2>1, <2>3, DeleteMove DEF InProgress
  <2>5. status' # status BY <2>1 DEF InProgress
  <2>6. ASSUME NEW d \in Ids, ReconcileMark(d) PROVE FALSE BY <2>6 DEF ReconcileMark
  <2> QED BY <2>2, <2>3, <2>5, <2>6
          DEF Next, vars, rows, CreateApp, DeployBegin, StopBegin, Crash, Misbehave, OutOfBand
<1>2. CASE ~(pc[p] \in InTry /\ work'[p] = w)
  <2>1. ASSUME NEW q \in Procs, Step(q) PROVE FALSE
    <3>1. OneStep(q) BY <1>n, <2>1, StepOne
    <3>2. CASE q = p BY <1>2, <1>i, <3>1, <3>2 DEF OneStep, Onwards
    <3>3. CASE q # p BY <1>2, <3>1, <3>3 DEF OneStep, Others
    <3> QED BY <3>2, <3>3
  <2>2. ASSUME NEW q \in Procs, NEW a \in AppNames, DeployBegin(q, a) PROVE FALSE
    BY <1>t, <1>2, <1>i, <2>2 DEF DeployBegin, TypeOK
  <2>3. ASSUME NEW q \in Procs, NEW a \in AppNames, StopBegin(q, a) PROVE FALSE
    BY <1>t, <1>2, <1>i, <2>3 DEF StopBegin, TypeOK
  <2>4. ASSUME NEW q \in Procs, Crash(q) PROVE FALSE
    BY <1>t, <1>2, <1>i, <2>4 DEF Crash, Return, TypeOK
  <2>5. ~UNCHANGED procVars BY <1>2 DEF procVars
  <2> QED BY <2>1, <2>2, <2>3, <2>4, <2>5
          DEF Next, vars, procVars, CreateApp, DeleteApp, Misbehave, OutOfBand, ReconcileMark
<1> QED BY <1>1, <1>2

(* What a process is about to take down: what is left to replace, and the  *)
(* deployment it stops.                                                    *)
TakesDown(p) == todo[p] \union (IF pc[p] \in Stopping THEN {work[p]} ELSE {})

(* No two processes take down the same deployment. *)
Apart == \A p, q \in Procs : p # q => todo[p] \intersect TakesDown(q) = {}

(* What is left to replace runs. *)
StillRuns == \A p \in Procs : \A d \in todo[p] : status[d] = "running"

LEMMA OwnStillRuns ==
    ASSUME IInv, StillRuns, "storeError" \notin Faults, NEW p \in Procs, Step(p), ~Insert(p),
           NEW d \in todo'[p]
    PROVE  status'[d] = "running"
<1> DEFINE w == work[p]
<1>t. TypeOK /\ TypeOK' /\ ~WriteFails(p) BY StepType DEF IInv, WriteFails
<1>d. d \in Ids BY <1>t DEF TypeOK
<1>r. ~Return(p) BY <1>t DEF Return, TypeOK
<1>g. \A where : Goto(p, where) => d \in todo[p] /\ status[d] = "running"
  BY <1>t DEF Goto, TypeOK, StillRuns
<1>p. /\ StartReplacing(p, PreviousOf(w)) => d \in PreviousOf(w)
      /\ \A e \in PreviousOf(w) : status[e] = "running"
  BY <1>r, <1>t DEF StartReplacing, PreviousOf, Rows, TypeOK
<1>1. CASE SetPulling(p) \/ RecordStarting(p)
  <2>1. pc[p] \in InTry BY <1>1 DEF SetPulling, RecordStarting, InTry, Bare, Holding
  <2>2. status[w] # "running" BY <2>1, TryNotRunning
  <2>3. status[d] = "running" BY <1>g, <1>1 DEF SetPulling, RecordStarting
  <2>4. status' = status \/ \E s : status' = [status EXCEPT ![w] = s]
    BY <1>1 DEF SetPulling, RecordStarting, SetStatus, rows
  <2> QED BY <1>d, <1>t, <2>2, <2>3, <2>4 DEF TypeOK
<1>2. CASE Promote(p)
  <2>1. status' = status \/ status' = [status EXCEPT ![w] = "running"] BY <1>2 DEF Promote, SetStatus
  <2>2. status[d] = "running" BY <1>g, <1>p, <1>2 DEF Promote
  <2> QED BY <1>d, <1>t, <2>1, <2>2 DEF TypeOK
<1>3. CASE HookDone(p) BY <1>3, <1>p DEF HookDone, rows
<1>4. CASE Replaced(p)
  <2>1. PICK e \in todo[p] : SetStatus(e, "replaced") /\ StartReplacing(p, todo[p] \ {e})
    BY <1>4, <1>r DEF Replaced
  <2>2. d \in todo[p] \ {e} BY <1>r, <1>t, <2>1 DEF StartReplacing, TypeOK
  <2> QED BY <1>d, <1>t, <2>1, <2>2 DEF StillRuns, SetStatus, TypeOK
<1>5. CASE Reaped(p)
  <2>1. status' = status /\ status[d] = "running" BY <1>5, <1>g, <1>r DEF Reaped
  <2> QED BY <2>1
<1>6. ~(GiveUp(p) \/ Stopped(p) \/ NotInserted(p) \/ HookFails(p))
  BY <1>r DEF GiveUp, Stopped, NotInserted, HookFails
<1>7. CASE ~(SetPulling(p) \/ RecordStarting(p) \/ Promote(p) \/ HookDone(p) \/ Replaced(p) \/ Reaped(p))
  <2>1. status' = status /\ \E where : Goto(p, where)
    BY <1>t, <1>6, <1>7, <1>r
       DEF Step, Pulled, Created, Started, Probe, Verdict, Reap, NotFound, CallFails, ForceRemove,
           StopPrevious, RemovePrevious, StopContainer, RemoveContainer, rows
  <2> QED BY <2>1, <1>g
<1> QED BY <1>1, <1>2, <1>3, <1>4, <1>5, <1>7

LEMMA NextStillRuns ==
    ASSUME "mark" \notin Faults, "storeError" \notin Faults, IInv, StillRuns, Apart, [Next]_vars
    PROVE  StillRuns'
<1> SUFFICES ASSUME NEW p \in Procs, NEW d \in todo'[p] PROVE status'[d] = "running"
  BY DEF StillRuns
<1>t. TypeOK /\ TypeOK' BY NextType DEF IInv
<1>d. d \in Ids BY <1>t DEF TypeOK
<1>s. d \in todo[p] => status[d] = "running" BY DEF StillRuns
<1>1. ASSUME NEW q \in Procs, Step(q), ~Insert(q) PROVE status'[d] = "running"
  <2>1. CASE q = p BY <1>1, <2>1, OwnStillRuns
  <2>2. CASE q # p
    <3>1. d \in todo[p] BY <1>1, <2>2, StepOne DEF OneStep, Others
    <3>2. ~(d \in todo[q] \/ (pc[q] = "stopped" /\ d = work[q]))
      BY <2>2, <3>1 DEF Apart, TakesDown, Stopping
    <3> QED BY <1>1, <1>d, <1>s, <3>1, <3>2, StepRuns DEF RunMove
  <2> QED BY <2>1, <2>2
<1>2. ASSUME NEW q \in Procs, Insert(q) PROVE status'[d] = "running"
  <2>1. d \in todo[p] BY <1>2, InsertRow DEF Others
  <2> QED BY <1>2, <1>d, <1>s, <2>1, InsertRow
<1>3. ASSUME NEW a \in AppNames, DeleteApp(a) PROVE status'[d] = "running"
  <2>1. d \in todo[p] BY <1>3 DEF DeleteApp, procVars
  <2> QED BY <1>3, <1>d, <1>s, <2>1, DeleteMove
<1>4. ASSUME NEW q \in Procs, Crash(q) PROVE status'[d] = "running"
  <2>1. d \in todo[p] /\ status' = status BY <1>4, <1>t DEF Crash, Return, TypeOK, rows
  <2> QED BY <1>s, <2>1
<1>5. ASSUME UNCHANGED <<status, todo>> PROVE status'[d] = "running" BY <1>s, <1>5
<1>6. ASSUME NEW e \in Ids PROVE ~ReconcileMark(e) BY DEF ReconcileMark
<1> QED BY <1>1, <1>2, <1>3, <1>4, <1>5, <1>6
        DEF Next, CreateApp, DeployBegin, StopBegin, Misbehave, OutOfBand, rows, procVars, vars

(* With any number of commands, kills, refused calls and deleted apps, a   *)
(* deploy rejects only as the comment above it says (engine.ts:129), as    *)
(* long as no reconcile fails its row, no statement throws, and no two     *)
(* commands take down the same deployment: two deploys that replace it, or *)
(* a deploy and a stop.  The write of the catch block finds its row open   *)
(* or deleted, and so does each write of replacePrevious.                  *)
THEOREM RejectsAsDocumentedUnlessTakenTwice ==
    ASSUME "mark" \notin Faults, "storeError" \notin Faults
    PROVE  Spec /\ []Apart => []RejectsOnlyAsDocumented
<1>1. Init => Unfinished /\ StillRuns
  BY DEF Init, Unfinished, StillRuns, InTry, Bare, Holding, Catching
<1>2. IInv /\ Unfinished /\ [Next]_vars => Unfinished' BY NextUnfinished
<1>3. IInv /\ StillRuns /\ Apart /\ [Next]_vars => StillRuns' BY NextStillRuns
<1>4. IInv /\ Unfinished /\ StillRuns => RejectsOnlyAsDocumented
  <2> SUFFICES ASSUME IInv, Unfinished, StillRuns, NEW p \in Procs
               PROVE  /\ pc[p] = "giveUp" /\ status[work[p]] # "deleted" => Open(work[p])
                      /\ pc[p] = "replaced" => \A d \in todo[p] : Open(d)
    BY DEF RejectsOnlyAsDocumented
  <2>1. ASSUME pc[p] = "giveUp", status[work[p]] # "deleted" PROVE Open(work[p])
    <3>1. status[work[p]] \in Allowed(pc[p]) BY <2>1 DEF IInv, InStep, AtRow
    <3>2. status[work[p]] \notin Final BY <2>1 DEF Unfinished, InTry, Catching
    <3> QED BY <2>1, <3>1, <3>2
            DEF Allowed, Bare, Holding, Late, Catching, Closed, Open, InProgress, Unlogged
  <2>2. \A d \in todo[p] : Open(d) BY DEF StillRuns, Open
  <2> QED BY <2>1, <2>2
<1> QED BY <1>1, <1>2, <1>3, <1>4, Invariant, PTL DEF Spec

=============================================================================
