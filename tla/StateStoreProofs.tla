------------------------- MODULE StateStoreProofs -------------------------
(***************************************************************************)
(* Proofs about StateStore, for any number of processes, apps, hostnames,  *)
(* variables and deployments, whatever statements fail and whichever       *)
(* processes die.                                                          *)
(***************************************************************************)
EXTENDS StateStore, FiniteSetTheorems, TLAPS

(***************************************************************************)
(* The invariant.  Tables is about the database, Client about what one     *)
(* process knows and where it is.  A row without an event is one whose     *)
(* insert was its client's last statement: nobody else has seen it as      *)
(* something to work on.  Room counts who may still insert.                *)
(***************************************************************************)
AppStatements == {"findForEnv", "findApp", "hostnameOwner", "insertApp", "updateApp",
                  "findRunning", "deleteRow", "findInFlight", "insertRow"}

StatusStatements == {"getRow", "updateRow", "insertEvent"}

Waiting == {c \in Clients : pc[c] \in {"findInFlight", "insertRow"}}

Silent(d) == HasRow(d) /\ log[d] = <<>>

Tables ==
    /\ HostnamesUnique
    /\ NoOrphans
    /\ LogBeginsPending
    /\ \A d \in Ids : d >= seq => status[d] = "none" /\ log[d] = <<>> /\ owner[d] = NoApp
    /\ \A d \in Ids : Silent(d) => status[d] = "pending"

Client(c) ==
    /\ pc[c] \in AppStatements => op[c].app \in AppNames
    /\ pc[c] = "findForEnv" => op[c].kind = "set"
    /\ pc[c] = "findApp" /\ op[c].kind = "create" => op[c].host \in Hosts \union {NoHost}
    /\ pc[c] \in {"findInFlight", "insertRow", "insertPending"} => op[c].kind = "deploy"
    /\ pc[c] = "insertPending" => held[c].mine
    /\ pc[c] \in StatusStatements =>
          op[c].kind = "status" /\ op[c].status \in Statuses /\ held[c].id \in Ids
    /\ held[c].mine \/ held[c].next # {} => held[c].id \in Ids
    /\ held[c].id < seq
    /\ \A d \in Ids : Silent(d) /\ held[c].id = d => pc[c] = "insertPending"

Room == seq + Cardinality(Waiting) <= MaxDeployments + 1

IInv ==
    /\ StoreTypeOK
    /\ Tables
    /\ \A c \in Clients : Client(c)
    /\ Room

USE DEF Ids

-----------------------------------------------------------------------------
(* Type correctness *)

(* What StoreTypeOK says of the processes, and of the tables. *)
ClientTypes ==
    /\ op \in [Clients -> Ops]
    /\ pc \in [Clients -> Statements]
    /\ row \in [Clients -> AppRows]

HeldType == held \in [Clients -> Works]

TableTypes ==
    /\ app \in [AppNames -> AppRows \union {NoRow}]
    /\ owner \in [Ids -> AppNames \union {NoApp}]
    /\ status \in [Ids -> Statuses \union {"none", "deleted"}]
    /\ log \in [Ids -> Seq(Statuses)]
    /\ seq \in 1..(MaxDeployments + 1)

(* The type invariant, part by part. *)
LEMMA TypeParts == StoreTypeOK <=> TableTypes /\ ClientTypes /\ HeldType
BY DEF StoreTypeOK, TableTypes, ClientTypes, HeldType

(* The resting values have their types. *)
LEMMA Resting == NoOp \in Ops /\ NoAppRow \in AppRows /\ NoWork \in Works
<1>1. NoOp \in Ops BY DEF NoOp, Ops
<1>2. NoAppRow \in AppRows BY DEF NoAppRow, AppRows
<1>3. NoWork \in Works BY StoreAssumption DEF NoWork, Works
<1> QED BY <1>1, <1>2, <1>3

(* The three ways a statement leaves its process. *)
LEMMA MoveTypes ==
    ASSUME ClientTypes, NEW c \in Clients,
           \/ End(c)
           \/ \E s \in Statements : Goto(c, s)
           \/ \E s \in Statements, r \in AppRows : GotoWith(c, s, r)
           \/ \E o \in Ops, s \in Statements : Begin(c, o, s)
    PROVE  ClientTypes'
<1>1. CASE End(c) BY <1>1, Resting DEF ClientTypes, End, Statements
<1>2. CASE \E s \in Statements : Goto(c, s) BY <1>2 DEF ClientTypes, Goto
<1>3. CASE \E s \in Statements, r \in AppRows : GotoWith(c, s, r)
  BY <1>3 DEF ClientTypes, GotoWith
<1>4. CASE \E o \in Ops, s \in Statements : Begin(c, o, s) BY <1>4 DEF ClientTypes, Begin
<1> QED BY <1>1, <1>2, <1>3, <1>4

(* What a throw leaves to do. *)
LEMMA ThrowIs ==
    ASSUME NEW c \in Clients, Throw(c)
    PROVE  \/ /\ held[c].mine /\ op[c].kind = "status"
              /\ held' = [held EXCEPT ![c] = [held[c] EXCEPT !.next = {"failed"}]]
           \/ held' = [held EXCEPT ![c] = NoWork]
BY DEF Throw

(* What a process works on keeps its type. *)
LEMMA HeldTypes ==
    ASSUME HeldType, ClientTypes, NEW c \in Clients,
           \/ UNCHANGED held \/ Proceed(c) \/ Throw(c)
           \/ \E w \in Works : held' = [held EXCEPT ![c] = w]
    PROVE  HeldType'
<1>1. \A s \in Statuses \union {"none"} : Follow(s) \subseteq Statuses
  BY DEF Follow, Statuses, InProgress, Final
<1>2. held[c] \in Works /\ op[c].status \in Statuses \union {"none"}
  BY DEF HeldType, ClientTypes, Ops
<1>3. \A S \in SUBSET Statuses : [held[c] EXCEPT !.next = S] \in Works
  BY <1>2 DEF Works
<1>4. {"failed"} \in SUBSET Statuses BY DEF Statuses, Final
<1>5. CASE Proceed(c) BY <1>1, <1>2, <1>3, <1>5, Resting DEF Proceed, HeldType
<1>6. CASE Throw(c)
  <2>1. held' = [held EXCEPT ![c] = [held[c] EXCEPT !.next = {"failed"}]]
        \/ held' = [held EXCEPT ![c] = NoWork]
    BY <1>6, ThrowIs
  <2> QED BY <1>3, <1>4, <2>1, Resting DEF HeldType
<1> QED BY <1>5, <1>6 DEF HeldType

(* An event is appended to the history of a row, or dropped. *)
LEMMA RecordType ==
    ASSUME TableTypes, NEW d \in Nat, NEW s \in Statuses, Record(d, s)
    PROVE  log' \in [Ids -> Seq(Statuses)]
<1>1. CASE d \in Ids
  <2>1. log[d] \in Seq(Statuses) BY <1>1 DEF TableTypes
  <2>2. Append(log[d], s) \in Seq(Statuses) BY <2>1
  <2> QED BY <1>1, <2>1, <2>2 DEF TableTypes, Record
<1>2. CASE d \notin Ids BY <1>2 DEF TableTypes, Record
<1> QED BY <1>1, <1>2

(* What updateApp writes is an app's row. *)
LEMMA MergedType ==
    ASSUME NEW c \in Clients, op[c].host \in Hosts \union {NoHost, Keep},
           row[c] \in AppRows, NEW current \in AppRows
    PROVE  Merged(c, current) \in AppRows
BY DEF Merged, AppRows

-----------------------------------------------------------------------------
(* Room: deploys that are let in find an id. *)

(* The processes that may still insert are finitely many. *)
LEMMA WaitingFinite == IsFiniteSet(Waiting) /\ Cardinality(Waiting) \in Nat
<1>1. Waiting \subseteq Clients BY DEF Waiting
<1>2. IsFiniteSet(Waiting) BY <1>1, FS_Subset, StoreAssumption
<1> QED BY <1>2, FS_CardinalityType

(* One that waits has an id kept for it. *)
LEMMA RoomForOne ==
    ASSUME StoreTypeOK, Room, NEW c \in Waiting
    PROVE  seq \in Ids
<1>1. Cardinality(Waiting) # 0 BY WaitingFinite, FS_EmptySet
<1> QED BY <1>1, WaitingFinite, StoreAssumption DEF Room, StoreTypeOK

-----------------------------------------------------------------------------
(* Every statement keeps the types. *)

LEMMA StatementTypes ==
    ASSUME IInv, NEW c \in Clients, Statement(c)
    PROVE  StoreTypeOK'
<1>0. TableTypes /\ ClientTypes /\ HeldType BY TypeParts DEF IInv
<1>1. op[c] \in Ops /\ row[c] \in AppRows /\ held[c] \in Works /\ Client(c)
  BY <1>0 DEF ClientTypes, HeldType, IInv
<1> SUFFICES TableTypes' /\ ClientTypes' /\ HeldType'
  BY DEF StoreTypeOK, TableTypes, ClientTypes, HeldType
<1>2. ASSUME UNCHANGED tables PROVE TableTypes' BY <1>0, <1>2 DEF tables, TableTypes
<1>3. ASSUME UNCHANGED held PROVE HeldType' BY <1>0, <1>3 DEF HeldType
<1>4. CASE FindForEnv(c)
  <2>1. ASSUME app[op[c].app] # NoRow
        PROVE  [NoAppRow EXCEPT !.env = (app[op[c].app].env \union op[c].add) \ op[c].drop]
                 \in AppRows
    <3>1. app[op[c].app] \in AppRows
      BY <2>1, <1>0, <1>1, <1>4 DEF TableTypes, Client, AppStatements, FindForEnv, Read
    <3> QED BY <3>1, <1>1 DEF AppRows, Ops, NoAppRow
  <2>2. ClientTypes'
    BY <2>1, <1>0, <1>4, MoveTypes DEF FindForEnv, Statements
  <2> QED BY <2>2, <1>2, <1>3, <1>4 DEF FindForEnv, Read
<1>5. CASE FindApp(c)
  <2>0. app[op[c].app] \in AppRows \union {NoRow}
    BY <1>0, <1>1, <1>5 DEF TableTypes, Client, AppStatements, FindApp, Read
  <2>1. ASSUME NEW r \in AppRows, NEW write \in {"insertApp", "updateApp"},
               AfterFind(c, write, r)
        PROVE  ClientTypes'
    BY <2>1, <1>0, MoveTypes DEF AfterFind, Statements
  <2>2. ASSUME op[c].kind = "create"
        PROVE  [host |-> op[c].host, env |-> op[c].add] \in AppRows
    BY <2>2, <1>1, <1>5 DEF Client, FindApp, Read, AppRows, Ops
  <2>3. ASSUME app[op[c].app] # NoRow PROVE Merged(c, app[op[c].app]) \in AppRows
    BY <2>0, <2>3, <1>1, MergedType DEF Ops
  <2>4. ClientTypes'
    BY <2>1, <2>2, <2>3, <1>0, <1>5, MoveTypes DEF FindApp, Statements
  <2> QED BY <2>4, <1>2, <1>3, <1>5 DEF FindApp, Read
<1>6. CASE HostnameOwner(c)
  <2>1. ClientTypes' BY <1>0, <1>6, MoveTypes DEF HostnameOwner, Statements
  <2> QED BY <2>1, <1>2, <1>3, <1>6 DEF HostnameOwner, Read
<1>7. CASE InsertApp(c)
  <2>1. ClientTypes' BY <1>0, <1>7, MoveTypes DEF InsertApp
  <2> QED BY <2>1, <1>0, <1>1, <1>3, <1>7 DEF InsertApp, TableTypes
<1>8. CASE UpdateApp(c)
  <2>1. ClientTypes' BY <1>0, <1>8, MoveTypes DEF UpdateApp
  <2> QED BY <2>1, <1>0, <1>1, <1>3, <1>8 DEF UpdateApp, TableTypes
<1>9. CASE FindRunning(c)
  <2>1. ClientTypes' BY <1>0, <1>9, MoveTypes DEF FindRunning, Statements
  <2> QED BY <2>1, <1>2, <1>3, <1>9 DEF FindRunning, Read
<1>10. CASE DeleteRow(c)
  <2>1. ClientTypes' BY <1>0, <1>10, MoveTypes DEF DeleteRow
  <2>2. log' \in [Ids -> Seq(Statuses)]
    <3>1. <<>> \in Seq(Statuses) OBVIOUS
    <3> QED BY <3>1, <1>0, <1>10 DEF DeleteRow, Cascade, TableTypes
  <2>3. status' \in [Ids -> Statuses \union {"none", "deleted"}]
    BY <1>0, <1>10 DEF DeleteRow, Cascade, TableTypes
  <2> QED BY <2>1, <2>2, <2>3, <1>0, <1>3, <1>10 DEF DeleteRow, TableTypes
<1>11. CASE FindInFlight(c)
  <2>1. ClientTypes' BY <1>0, <1>11, MoveTypes DEF FindInFlight, Statements
  <2> QED BY <2>1, <1>2, <1>3, <1>11 DEF FindInFlight, Read
<1>12. CASE InsertRow(c)
  <2>1. ClientTypes' BY <1>0, <1>12, MoveTypes DEF InsertRow, Statements
  <2>2. seq \in Ids
    BY <1>12, RoomForOne DEF IInv, InsertRow, Waiting
  <2>3. HeldType'
    <3>1. [id |-> seq, next |-> {}, mine |-> TRUE] \in Works
      BY <2>2, StoreAssumption DEF Works
    <3> QED BY <3>1, <1>0, <1>12 DEF InsertRow, HeldType
  <2>4. "pending" \in Statuses BY DEF Statuses, InProgress
  <2>5. op[c].app \in AppNames BY <1>1, <1>12 DEF InsertRow, Client, AppStatements
  <2>6. app' = app /\ log' = log BY <1>12 DEF InsertRow
  <2>7. owner' \in [Ids -> AppNames \union {NoApp}]
    BY <2>5, <1>0, <1>12 DEF InsertRow, TableTypes
  <2>8. status' \in [Ids -> Statuses \union {"none", "deleted"}]
    BY <2>4, <1>0, <1>12 DEF InsertRow, TableTypes
  <2>9. seq' \in 1..(MaxDeployments + 1)
    BY <2>2, <1>0, <1>12, StoreAssumption DEF InsertRow, TableTypes
  <2> QED BY <2>1, <2>3, <2>6, <2>7, <2>8, <2>9, <1>0 DEF TableTypes
<1>13. CASE InsertPending(c)
  <2>1. log' \in [Ids -> Seq(Statuses)]
    <3>1. "pending" \in Statuses /\ held[c].id \in Nat
      BY <1>1, StoreAssumption DEF Statuses, InProgress, Works
    <3> QED BY <3>1, <1>0, <1>13, RecordType DEF InsertPending
  <2>2. ClientTypes'
    <3>1. [op[c] EXCEPT !.kind = "status", !.status = "pulling"] \in Ops
      BY <1>1 DEF Ops, Statuses, InProgress
    <3> QED BY <3>1, <1>0, <1>13, MoveTypes DEF InsertPending, ClientTypes, Statements
  <2>3. HeldType' BY <1>0, <1>13, HeldTypes, Resting DEF InsertPending
  <2> QED BY <2>1, <2>2, <2>3, <1>0, <1>13 DEF InsertPending, TableTypes
<1>14. CASE GetRow(c)
  <2>1. ClientTypes' BY <1>0, <1>14, MoveTypes DEF GetRow, Statements
  <2>2. HeldType' BY <1>0, <1>14, HeldTypes DEF GetRow
  <2> QED BY <2>1, <2>2, <1>2, <1>14 DEF GetRow, Read
<1>15. CASE UpdateRow(c)
  <2>1. ClientTypes' BY <1>0, <1>15, MoveTypes DEF UpdateRow, Statements
  <2>2. op[c].status \in Statuses
    BY <1>1, <1>15 DEF Client, StatusStatements, UpdateRow
  <2> QED BY <2>1, <2>2, <1>0, <1>3, <1>15 DEF UpdateRow, TableTypes
<1>16. CASE InsertEvent(c)
  <2>1. ClientTypes' BY <1>0, <1>16, MoveTypes DEF InsertEvent
  <2>2. HeldType' BY <1>0, <1>16, HeldTypes DEF InsertEvent
  <2>3. log' \in [Ids -> Seq(Statuses)]
    <3>1. op[c].status \in Statuses /\ held[c].id \in Nat
      BY <1>1, <1>16, StoreAssumption DEF Client, StatusStatements, InsertEvent
    <3> QED BY <3>1, <1>0, <1>16, RecordType DEF InsertEvent
  <2> QED BY <2>1, <2>2, <2>3, <1>0, <1>16 DEF InsertEvent, TableTypes
<1> QED BY <1>4, <1>5, <1>6, <1>7, <1>8, <1>9, <1>10, <1>11, <1>12, <1>13, <1>14, <1>15,
           <1>16 DEF Statement

-----------------------------------------------------------------------------
(* The steps of one process. *)

StepOf(c) ==
    \/ \E a \in AppNames :
          \/ Delete(c, a) \/ Deploy(c, a)
          \/ \E h \in Hosts \union {NoHost}, env \in SUBSET Keys : Create(c, a, h, env)
          \/ \E h \in Hosts \union {NoHost, Keep}, add \in SUBSET Keys, drop \in SUBSET Keys :
                Set(c, a, h, add, drop)
    \/ \E d \in Ids : Look(c, d)
    \/ \E s \in Statuses : SetDeploymentStatus(c, s)
    \/ Statement(c)
    \/ SqlError(c) \/ Crash(c)

(* Every step is a step of some process. *)
LEMMA NextIsOnes == StoreNext <=> \E c \in Clients : StepOf(c)
BY DEF StoreNext, StepOf

(* The operations that begin. *)
Begins(c) ==
    \/ \E a \in AppNames :
          \/ Delete(c, a)
          \/ \E h \in Hosts \union {NoHost}, env \in SUBSET Keys : Create(c, a, h, env)
          \/ \E h \in Hosts \union {NoHost, Keep}, add \in SUBSET Keys, drop \in SUBSET Keys :
                Set(c, a, h, add, drop)
    \/ \E s \in Statuses : SetDeploymentStatus(c, s)

(* The steps of a process, sorted for the proofs. *)
LEMMA Sorted ==
    ASSUME NEW c \in Clients, StepOf(c)
    PROVE  \/ Begins(c) \/ \E a \in AppNames : Deploy(c, a)
           \/ \E d \in Ids : Look(c, d)
           \/ Statement(c) \/ SqlError(c) \/ Crash(c)
BY DEF StepOf, Begins

(* Types, whatever a process does. *)
LEMMA StepTypes ==
    ASSUME IInv, NEW c \in Clients, StepOf(c)
    PROVE  StoreTypeOK'
<1>0. TableTypes /\ ClientTypes /\ HeldType BY TypeParts DEF IInv
<1>1. ASSUME UNCHANGED tables PROVE TableTypes' BY <1>0, <1>1 DEF tables, TableTypes
<1>2. ASSUME UNCHANGED held PROVE HeldType' BY <1>0, <1>2 DEF HeldType
<1>3. ASSUME TableTypes', ClientTypes', HeldType' PROVE StoreTypeOK'
  BY <1>3 DEF StoreTypeOK, TableTypes, ClientTypes, HeldType
<1>4. CASE Begins(c)
  <2>1. ClientTypes'
    <3>1. ASSUME NEW o \in Ops, NEW s \in {"findApp", "findForEnv", "getRow"}, Begin(c, o, s)
          PROVE  ClientTypes'
      BY <3>1, <1>0, MoveTypes DEF Statements
    <3>2. ASSUME NEW a \in AppNames, Delete(c, a) PROVE ClientTypes'
      <4>1. [NoOp EXCEPT !.kind = "delete", !.app = a] \in Ops BY DEF NoOp, Ops
      <4> QED BY <3>1, <3>2, <4>1 DEF Delete
    <3>3. ASSUME NEW a \in AppNames, NEW h \in Hosts \union {NoHost}, NEW env \in SUBSET Keys,
                 Create(c, a, h, env)
          PROVE  ClientTypes'
      <4>1. [NoOp EXCEPT !.kind = "create", !.app = a, !.host = h, !.add = env] \in Ops
        BY DEF NoOp, Ops
      <4> QED BY <3>1, <3>3, <4>1 DEF Create
    <3>4. ASSUME NEW a \in AppNames, NEW h \in Hosts \union {NoHost, Keep},
                 NEW add \in SUBSET Keys, NEW drop \in SUBSET Keys, Set(c, a, h, add, drop)
          PROVE  ClientTypes'
      <4>1. [NoOp EXCEPT !.kind = "set", !.app = a, !.host = h, !.add = add,
                         !.drop = drop] \in Ops
        BY DEF NoOp, Ops
      <4> QED BY <3>1, <3>4, <4>1 DEF Set
    <3>5. ASSUME NEW s \in Statuses, SetDeploymentStatus(c, s) PROVE ClientTypes'
      <4>1. [NoOp EXCEPT !.kind = "status", !.status = s] \in Ops BY DEF NoOp, Ops
      <4> QED BY <3>1, <3>5, <4>1 DEF SetDeploymentStatus
    <3> QED BY <3>2, <3>3, <3>4, <3>5, <1>4 DEF Begins
  <2>2. UNCHANGED tables /\ UNCHANGED held
    BY <1>4 DEF Begins, Delete, Create, Set, SetDeploymentStatus, Begin, tables
  <2> QED BY <2>1, <2>2, <1>1, <1>2, <1>3
<1>5. CASE \E a \in AppNames : Deploy(c, a)
  <2>1. \A a \in AppNames : [NoOp EXCEPT !.kind = "deploy", !.app = a] \in Ops
    BY DEF NoOp, Ops
  <2>3. ClientTypes' BY <2>1, <1>0, <1>5, MoveTypes DEF Deploy, Statements
  <2>2. UNCHANGED tables /\ UNCHANGED held BY <1>5 DEF Deploy, Begin, tables
  <2> QED BY <2>3, <2>2, <1>1, <1>2, <1>3
<1>6. CASE \E d \in Ids : Look(c, d)
  <2>1. ClientTypes' BY <1>0, <1>6 DEF Look, ClientTypes
  <2>2. \A d \in Ids, s \in Final \union {"failed"} :
           [id |-> d, next |-> {s}, mine |-> FALSE] \in Works
    BY StoreAssumption DEF Works, Statuses, Final
  <2>3. HeldType' BY <2>2, <1>0, <1>6, HeldTypes DEF Look
  <2> QED BY <2>1, <2>3, <1>1, <1>3, <1>6 DEF Look
<1>7. CASE Statement(c) BY <1>7, StatementTypes
<1>8. CASE SqlError(c)
  <2>1. ClientTypes' BY <1>0, <1>8, MoveTypes DEF SqlError
  <2>2. HeldType' BY <1>0, <1>8, HeldTypes DEF SqlError
  <2> QED BY <2>1, <2>2, <1>1, <1>3, <1>8 DEF SqlError
<1>9. CASE Crash(c)
  <2>1. ClientTypes' BY <1>0, <1>9, MoveTypes DEF Crash
  <2>2. HeldType' BY <1>0, <1>9, HeldTypes, Resting DEF Crash
  <2> QED BY <2>1, <2>2, <1>1, <1>3, <1>9 DEF Crash
<1> QED BY <1>4, <1>5, <1>6, <1>7, <1>8, <1>9, Sorted

-----------------------------------------------------------------------------
(* It is enough to look at the process that moves.                         *)

Unmoved(x) == op'[x] = op[x] /\ pc'[x] = pc[x] /\ row'[x] = row[x] /\ held'[x] = held[x]

(* A step of one process leaves what the others know alone. *)
LEMMA Elsewhere ==
    ASSUME StoreTypeOK, NEW c \in Clients, StepOf(c), NEW x \in Clients, x # c
    PROVE  Unmoved(x)
<1> USE DEF Unmoved, StoreTypeOK
<1>1. ASSUME End(c) \/ (\E s \in Statements : Goto(c, s))
             \/ (\E s \in Statements : \E r : GotoWith(c, s, r))
      PROVE  op'[x] = op[x] /\ pc'[x] = pc[x] /\ row'[x] = row[x]
  BY <1>1 DEF End, Goto, GotoWith
<1>2. ASSUME Throw(c) \/ Proceed(c) \/ held' = [held EXCEPT ![c] = NoWork] \/ UNCHANGED held
      PROVE  held'[x] = held[x]
  BY <1>2, ThrowIs DEF Proceed
<1>3. CASE Begins(c) BY <1>3 DEF Begins, Delete, Create, Set, SetDeploymentStatus, Begin
<1>4. CASE \E a \in AppNames : Deploy(c, a) BY <1>4 DEF Deploy, Begin
<1>5. CASE \E d \in Ids : Look(c, d) BY <1>5 DEF Look
<1>6. CASE Statement(c)
  <2>1. CASE FindForEnv(c) BY <2>1, <1>1, <1>2 DEF FindForEnv, Statements
  <2>2. CASE FindApp(c) BY <2>2, <1>1, <1>2 DEF FindApp, AfterFind, Statements
  <2>3. CASE HostnameOwner(c) BY <2>3, <1>1, <1>2 DEF HostnameOwner, Statements
  <2>4. CASE InsertApp(c) BY <2>4, <1>1, <1>2 DEF InsertApp
  <2>5. CASE UpdateApp(c) BY <2>5, <1>1, <1>2 DEF UpdateApp
  <2>6. CASE FindRunning(c) BY <2>6, <1>1, <1>2 DEF FindRunning, Statements
  <2>7. CASE DeleteRow(c) BY <2>7, <1>1, <1>2 DEF DeleteRow
  <2>8. CASE FindInFlight(c) BY <2>8, <1>1, <1>2 DEF FindInFlight, Statements
  <2>9. CASE InsertRow(c) BY <2>9, <1>1 DEF InsertRow, Statements
  <2>10. CASE InsertPending(c) BY <2>10, <1>1, <1>2 DEF InsertPending
  <2>11. CASE GetRow(c) BY <2>11, <1>1, <1>2 DEF GetRow, Statements
  <2>12. CASE UpdateRow(c) BY <2>12, <1>1, <1>2 DEF UpdateRow, Statements
  <2>13. CASE InsertEvent(c) BY <2>13, <1>1, <1>2 DEF InsertEvent
  <2> QED BY <1>6, <2>1, <2>2, <2>3, <2>4, <2>5, <2>6, <2>7, <2>8, <2>9, <2>10, <2>11, <2>12,
             <2>13 DEF Statement
<1>7. CASE SqlError(c) BY <1>7, <1>1, <1>2 DEF SqlError
<1>8. CASE Crash(c) BY <1>8, <1>1, <1>2 DEF Crash
<1> QED BY <1>3, <1>4, <1>5, <1>6, <1>7, <1>8, Sorted

(* What the step of a process means for the others: ids only grow, and a   *)
(* row without an event is a new one.                                      *)
Quiet == seq <= seq' /\ \A d \in Ids : Silent(d)' => Silent(d) \/ d >= seq

LEMMA OthersClient ==
    ASSUME IInv, StoreTypeOK', NEW x \in Clients, Unmoved(x), Quiet
    PROVE  Client(x)'
<1>1. Client(x) BY DEF IInv
<1>2. held[x].id \in Nat /\ seq \in Nat /\ seq' \in Nat
  BY StoreAssumption DEF IInv, StoreTypeOK, Works
<1>3. held[x].id < seq' BY <1>1, <1>2 DEF Client, Quiet
<1>4. \A d \in Ids : Silent(d)' /\ held[x].id = d => pc[x] = "insertPending"
  BY <1>1, <1>2 DEF Client, Quiet
<1> QED BY <1>1, <1>3, <1>4 DEF Client, Unmoved

-----------------------------------------------------------------------------
(* The tables, write by write.                                             *)

(* A read changes no table. *)
LEMMA ReadTables ==
    ASSUME IInv, UNCHANGED tables
    PROVE  Tables' /\ Quiet
<1>1. Quiet BY DEF Quiet, Silent, HasRow, tables, IInv, StoreTypeOK
<1> QED BY <1>1 DEF IInv, Tables, HostnamesUnique, NoOrphans, LogBeginsPending, Exists, HasRow,
               Silent, tables

(* A row of apps is written where its hostname is free. *)
LEMMA WriteApp ==
    ASSUME IInv, NEW a \in AppNames, NEW r \in AppRows, ~Taken(a, r.host),
           app' = [app EXCEPT ![a] = r], UNCHANGED <<owner, status, log, seq>>
    PROVE  Tables' /\ Quiet
<1> USE DEF IInv, StoreTypeOK, Tables
<1>0. Quiet BY DEF Quiet, Silent, HasRow
<1>1. HostnamesUnique' BY DEF HostnamesUnique, Taken, Exists
<1>2. NoOrphans' BY StoreAssumption DEF NoOrphans, Exists, HasRow
<1>3. LogBeginsPending' BY DEF LogBeginsPending
<1> QED BY <1>0, <1>1, <1>2, <1>3 DEF Silent, HasRow

(* A deletion takes the rows of the app along. *)
LEMMA DeleteTables ==
    ASSUME IInv, NEW c \in Clients, DeleteRow(c)
    PROVE  Tables' /\ Quiet
<1> USE DEF IInv, StoreTypeOK, Tables
<1> DEFINE a == op[c].app
<1>1. a \in AppNames BY DEF Client, AppStatements, DeleteRow
<1>2. /\ app' = [app EXCEPT ![a] = NoRow]
      /\ \A d \in Ids : /\ status'[d] = IF owner[d] = a THEN "deleted" ELSE status[d]
                        /\ log'[d] = IF owner[d] = a THEN <<>> ELSE log[d]
      /\ UNCHANGED <<owner, seq>>
  BY DEF DeleteRow, Cascade
<1> HIDE DEF a
<1>3. "deleted" \notin Statuses BY DEF Statuses, InProgress, Final
<1>4. Quiet BY <1>2, <1>3 DEF Quiet, Silent, HasRow
<1>5. HostnamesUnique' BY <1>1, <1>2 DEF HostnamesUnique, Exists
<1>6. NoOrphans' BY <1>1, <1>2, <1>3 DEF NoOrphans, Exists, HasRow
<1>7. LogBeginsPending' BY <1>2 DEF LogBeginsPending
<1>8. \A d \in Ids : (d >= seq => status[d] = "none" /\ log[d] = <<>> /\ owner[d] = NoApp)'
  <2> SUFFICES ASSUME NEW d \in Ids, d >= seq
               PROVE  status'[d] = "none" /\ log'[d] = <<>> /\ owner'[d] = NoApp
    BY <1>2
  <2>1. status[d] = "none" /\ log[d] = <<>> /\ owner[d] = NoApp OBVIOUS
  <2>2. NoApp # a BY <1>1, StoreAssumption
  <2> QED BY <1>2, <2>1, <2>2
<1>9. \A d \in Ids : (Silent(d) => status[d] = "pending")'
  BY <1>2, <1>3 DEF Silent, HasRow
<1> QED BY <1>4, <1>5, <1>6, <1>7, <1>8, <1>9

(* A deployment is inserted, of an app that exists. *)
LEMMA InsertTables ==
    ASSUME IInv, NEW c \in Clients, InsertRow(c)
    PROVE  Tables' /\ Quiet
<1> USE DEF IInv, StoreTypeOK, Tables
<1>1. CASE Exists(op[c].app)
  <2>1. seq \in Ids BY RoomForOne DEF InsertRow, Waiting
  <2>2. /\ owner' = [owner EXCEPT ![seq] = op[c].app]
        /\ status' = [status EXCEPT ![seq] = "pending"]
        /\ seq' = seq + 1
        /\ UNCHANGED <<app, log>>
    BY <1>1 DEF InsertRow
  <2>3. Quiet BY <2>1, <2>2 DEF Quiet, Silent, HasRow
  <2>4. HostnamesUnique' BY <2>2 DEF HostnamesUnique, Exists
  <2>5. NoOrphans' BY <1>1, <2>1, <2>2 DEF NoOrphans, Exists, HasRow
  <2>6. LogBeginsPending' BY <2>2 DEF LogBeginsPending
  <2>7. \A d \in Ids : (d >= seq => status[d] = "none" /\ log[d] = <<>> /\ owner[d] = NoApp)'
    BY <2>1, <2>2
  <2>8. \A d \in Ids : (Silent(d) => status[d] = "pending")'
    BY <2>1, <2>2 DEF Silent, HasRow
  <2> QED BY <2>3, <2>4, <2>5, <2>6, <2>7, <2>8
<1>2. CASE ~Exists(op[c].app) BY <1>2, ReadTables DEF InsertRow, tables
<1> QED BY <1>1, <1>2

(* What Append returns. *)
LEMMA Appended ==
    ASSUME NEW S, NEW q \in Seq(S), NEW s \in S
    PROVE  /\ Append(q, s) # <<>>
           /\ Head(Append(q, s)) = IF q = <<>> THEN s ELSE Head(q)
<1>1. Len(Append(q, s)) = Len(q) + 1 /\ Len(q) \in Nat OBVIOUS
<1>2. Append(q, s) # <<>> BY <1>1
<1>3. Append(q, s)[1] = IF Len(q) = 0 THEN s ELSE q[1] OBVIOUS
<1> QED BY <1>2, <1>3

(* An event goes to a row that is there, and the first one is pending. *)
LEMMA RecordTables ==
    ASSUME IInv, NEW d \in 0..MaxDeployments, d < seq, NEW s \in Statuses, Record(d, s),
           d \in Ids /\ Silent(d) => s = "pending",
           UNCHANGED <<app, owner, status, seq>>
    PROVE  Tables' /\ Quiet
<1> USE DEF IInv, StoreTypeOK, Tables
<1>1. CASE d \notin Ids \/ ~HasRow(d)
  <2>1. log' = log BY <1>1 DEF Record
  <2> QED BY <2>1, ReadTables DEF tables
<1>2. CASE d \in Ids /\ HasRow(d)
  <2>1. log[d] \in Seq(Statuses) BY <1>2
  <2>2. /\ log'[d] = Append(log[d], s)
        /\ \A e \in Ids : e # d => log'[e] = log[e]
    BY <1>2 DEF Record
  <2>3. Append(log[d], s) # <<>> BY <2>1, Appended
  <2>4. Head(Append(log[d], s)) = IF log[d] = <<>> THEN s ELSE Head(log[d])
    BY <2>1, Appended
  <2>5. \A e \in Ids : Silent(e)' => Silent(e) BY <2>2, <2>3 DEF Silent, HasRow
  <2>6. Quiet BY <2>5 DEF Quiet
  <2>7. HostnamesUnique' BY DEF HostnamesUnique, Exists
  <2>8. NoOrphans' BY <1>2, <2>2 DEF NoOrphans, Exists, HasRow
  <2>9. LogBeginsPending' BY <1>2, <2>2, <2>4 DEF LogBeginsPending, Silent
  <2>10. \A e \in Ids : (e >= seq => status[e] = "none" /\ log[e] = <<>> /\ owner[e] = NoApp)'
    BY <1>2, <2>2
  <2> QED BY <2>5, <2>6, <2>7, <2>8, <2>9, <2>10
<1> QED BY <1>1, <1>2

(* A status is written to a row that has an event. *)
LEMMA UpdateTables ==
    ASSUME IInv, NEW c \in Clients, UpdateRow(c)
    PROVE  Tables' /\ Quiet
<1> USE DEF IInv, StoreTypeOK, Tables
<1> DEFINE d == held[c].id
<1>1. d \in Ids /\ d < seq /\ ~Silent(d) /\ op[c].status \in Statuses
  BY DEF Client, StatusStatements, UpdateRow
<1>2. CASE ~HasRow(d) BY <1>2, ReadTables DEF UpdateRow, tables
<1>3. CASE HasRow(d)
  <2>1. status' = [status EXCEPT ![d] = op[c].status] /\ UNCHANGED <<app, owner, log, seq>>
    BY <1>3 DEF UpdateRow
  <2> HIDE DEF d
  <2>2. \A e \in Ids : HasRow(e)' <=> HasRow(e) BY <1>1, <1>3, <2>1 DEF HasRow
  <2>3. Quiet BY <2>1, <2>2 DEF Quiet, Silent
  <2>4. HostnamesUnique' BY <2>1 DEF HostnamesUnique, Exists
  <2>5. NoOrphans' BY <2>1, <2>2 DEF NoOrphans, Exists
  <2>6. LogBeginsPending' BY <2>1 DEF LogBeginsPending
  <2>7. \A e \in Ids : (e >= seq => status[e] = "none" /\ log[e] = <<>> /\ owner[e] = NoApp)'
    BY <1>1, <2>1
  <2>8. \A e \in Ids : (Silent(e) => status[e] = "pending")'
    BY <1>1, <2>1, <2>2 DEF Silent
  <2> QED BY <2>3, <2>4, <2>5, <2>6, <2>7, <2>8
<1> QED BY <1>2, <1>3

-----------------------------------------------------------------------------
(* The process that moves. *)

(* A process at rest, or about to read an app, that works on what it did.  *)
LEMMA AtAppStatement ==
    ASSUME IInv, StoreTypeOK', NEW c \in Clients, pc[c] # "insertPending", Quiet,
           held'[c] = held[c],
           pc'[c] \in AppStatements \union {"idle"},
           pc'[c] \in AppStatements => op'[c].app \in AppNames,
           pc'[c] = "findForEnv" => op'[c].kind = "set",
           pc'[c] = "findApp" /\ op'[c].kind = "create" => op'[c].host \in Hosts \union {NoHost},
           pc'[c] \in {"findInFlight", "insertRow"} => op'[c].kind = "deploy"
    PROVE  Client(c)'
<1>1. Client(c) /\ held[c].id \in Nat /\ seq \in Nat /\ seq' \in Nat
  BY StoreAssumption DEF IInv, StoreTypeOK, Works
<1>2. held[c].id < seq' /\ \A d \in Ids : Silent(d)' => held[c].id # d
  BY <1>1 DEF Client, Quiet
<1>3. pc'[c] \notin StatusStatements \union {"insertPending"}
  BY DEF AppStatements, StatusStatements
<1> QED BY <1>1, <1>2, <1>3 DEF Client

(* The end of an operation that leaves the process with what it works on,  *)
(* what it does next changed, or with nothing.                             *)
LEMMA AtEnd ==
    ASSUME IInv, StoreTypeOK', NEW c \in Clients, Quiet, pc'[c] = "idle",
           \/ held'[c] = NoWork
           \/ /\ held'[c].id = held[c].id
              /\ held[c].id \in Ids
              /\ pc[c] # "insertPending"
    PROVE  Client(c)'
<1>1. Client(c) /\ held[c].id \in Nat /\ seq \in Nat /\ seq' \in Nat /\ seq >= 1
  BY StoreAssumption DEF IInv, StoreTypeOK, Works
<1>2. seq' >= 1 BY <1>1 DEF Quiet
<1>3. held'[c].id < seq' /\ \A d \in Ids : Silent(d)' => held'[c].id # d
  <2>1. CASE held'[c] = NoWork BY <2>1, <1>1, <1>2 DEF NoWork
  <2>2. CASE held'[c].id = held[c].id /\ pc[c] # "insertPending"
    BY <2>2, <1>1 DEF Client, Quiet
  <2> QED BY <2>1, <2>2
<1>4. held'[c].mine \/ held'[c].next # {} => held'[c].id \in Ids BY DEF NoWork
<1> QED BY <1>3, <1>4 DEF Client, AppStatements, StatusStatements

(* Throw and Proceed, which only a process that sets a status follows up. *)
LEMMA AfterThrow ==
    ASSUME IInv, NEW c \in Clients, Throw(c)
    PROVE  \/ held'[c] = NoWork
           \/ /\ held'[c].id = held[c].id
              /\ held[c].id \in Ids
              /\ pc[c] # "insertPending"
<1>1. Client(c) /\ held \in [Clients -> Works] BY DEF IInv, StoreTypeOK
<1>2. CASE /\ held[c].mine /\ op[c].kind = "status"
           /\ held' = [held EXCEPT ![c] = [held[c] EXCEPT !.next = {"failed"}]]
  <2>1. held'[c] = [held[c] EXCEPT !.next = {"failed"}] BY <1>1, <1>2
  <2>2. held'[c].id = held[c].id BY <1>1, <2>1 DEF Works
  <2>3. held[c].id \in Ids /\ pc[c] # "insertPending" BY <1>1, <1>2 DEF Client
  <2> QED BY <2>2, <2>3
<1>3. CASE held' = [held EXCEPT ![c] = NoWork] BY <1>1, <1>3
<1> QED BY <1>2, <1>3, ThrowIs

LEMMA AfterProceed ==
    ASSUME IInv, NEW c \in Clients, Proceed(c), pc[c] # "insertPending"
    PROVE  \/ held'[c] = NoWork
           \/ /\ held'[c].id = held[c].id
              /\ held[c].id \in Ids
<1>1. Client(c) /\ held \in [Clients -> Works] BY DEF IInv, StoreTypeOK
<1>2. CASE held[c].mine /\ Follow(op[c].status) # {}
  <2>1. held'[c] = [held[c] EXCEPT !.next = Follow(op[c].status)] BY <1>1, <1>2 DEF Proceed
  <2>2. held'[c].id = held[c].id BY <1>1, <2>1 DEF Works
  <2>3. held[c].id \in Ids BY <1>1, <1>2 DEF Client
  <2> QED BY <2>2, <2>3
<1>3. CASE ~(held[c].mine /\ Follow(op[c].status) # {}) BY <1>1, <1>3 DEF Proceed
<1> QED BY <1>2, <1>3

(* Between the statements of setDeploymentStatus. *)
LEMMA AtStatusStatement ==
    ASSUME IInv, StoreTypeOK', NEW c \in Clients, pc[c] # "insertPending", Quiet,
           held'[c] = held[c],
           pc'[c] \in StatusStatements,
           op'[c].kind = "status", op'[c].status \in Statuses, held[c].id \in Ids
    PROVE  Client(c)'
<1>1. Client(c) /\ held[c].id \in Nat /\ seq \in Nat /\ seq' \in Nat
  BY StoreAssumption DEF IInv, StoreTypeOK, Works
<1>2. held[c].id < seq' /\ \A d \in Ids : Silent(d)' => held[c].id # d
  BY <1>1 DEF Client, Quiet
<1>3. pc'[c] \notin AppStatements \union {"insertPending"}
  BY DEF AppStatements, StatusStatements
<1> QED BY <1>1, <1>2, <1>3 DEF Client, AppStatements

(* Statements about apps. *)
AppStatement(c) ==
    \/ FindForEnv(c) \/ FindApp(c) \/ HostnameOwner(c) \/ InsertApp(c) \/ UpdateApp(c)
    \/ FindRunning(c) \/ DeleteRow(c) \/ FindInFlight(c)

LEMMA AppStatementKeeps ==
    ASSUME IInv, StoreTypeOK', NEW c \in Clients, AppStatement(c)
    PROVE  Tables' /\ Quiet /\ Client(c)'
<1> USE DEF AppStatement
<1>1. Client(c) /\ pc[c] \in AppStatements /\ op[c].app \in AppNames /\ held'[c] = held[c]
  <2>1. pc[c] \in AppStatements
    BY DEF AppStatements, FindForEnv, FindApp, HostnameOwner, InsertApp, UpdateApp,
           FindRunning, DeleteRow, FindInFlight, Read
  <2>2. held' = held
    BY DEF FindForEnv, FindApp, HostnameOwner, InsertApp, UpdateApp,
           FindRunning, DeleteRow, FindInFlight
  <2> QED BY <2>1, <2>2 DEF IInv, Client
<1>2. pc[c] # "insertPending" BY <1>1 DEF AppStatements
<1>3. Tables' /\ Quiet
  <2>1. row[c] \in AppRows /\ app \in [AppNames -> AppRows \union {NoRow}]
    BY DEF IInv, StoreTypeOK
  <2>2. app[op[c].app] \in AppRows \union {NoRow} BY <1>1, <2>1
  <2>3. CASE UNCHANGED tables BY <2>3, ReadTables
  <2>4. CASE DeleteRow(c) BY <2>4, DeleteTables
  <2>5. CASE InsertApp(c)
    <3>1. CASE app' = app BY <3>1, <2>5, <2>3 DEF InsertApp, tables
    <3>2. CASE app' # app BY <3>2, <2>5, <1>1, <2>1, WriteApp DEF InsertApp
    <3> QED BY <3>1, <3>2
  <2>6. CASE UpdateApp(c)
    <3>1. CASE app' = app BY <3>1, <2>6, <2>3 DEF UpdateApp, tables
    <3>2. CASE app' # app BY <3>2, <2>6, <1>1, <2>1, WriteApp DEF UpdateApp
    <3> QED BY <3>1, <3>2
  <2> QED BY <2>3, <2>4, <2>5, <2>6
          DEF FindForEnv, FindApp, HostnameOwner, FindRunning, FindInFlight, Read
<1>4. /\ op \in [Clients -> Ops] /\ pc \in [Clients -> Statements]
  BY DEF IInv, StoreTypeOK
<1>5. \/ pc'[c] = "idle"
      \/ /\ pc'[c] \in AppStatements \ {"findForEnv"}
         /\ op'[c] = op[c]
         /\ pc'[c] = "findApp" => op[c].kind = "set"
         /\ pc'[c] \in {"findInFlight", "insertRow"} => op[c].kind = "deploy"
  <2>1. CASE End(c) BY <2>1, <1>4 DEF End
  <2>2. CASE FindForEnv(c) /\ ~End(c)
    BY <2>2, <1>1, <1>4 DEF FindForEnv, GotoWith, AppStatements, Client, Read
  <2>3. CASE FindApp(c) /\ ~End(c)
    BY <2>3, <1>4 DEF FindApp, AfterFind, Goto, GotoWith, AppStatements
  <2>4. CASE HostnameOwner(c) /\ ~End(c)
    BY <2>4, <1>4 DEF HostnameOwner, Goto, AppStatements
  <2>5. CASE FindRunning(c) /\ ~End(c) BY <2>5, <1>4 DEF FindRunning, Goto, AppStatements
  <2>6. CASE FindInFlight(c) /\ ~End(c)
    BY <2>6, <1>1, <1>4 DEF FindInFlight, Goto, AppStatements, Client, Read
  <2> QED BY <2>1, <2>2, <2>3, <2>4, <2>5, <2>6 DEF InsertApp, UpdateApp, DeleteRow
<1>6. CASE pc'[c] = "idle"
  BY <1>1, <1>2, <1>3, <1>6, AtAppStatement DEF AppStatements
<1>7. CASE pc'[c] # "idle"
  BY <1>1, <1>2, <1>3, <1>5, <1>7, AtAppStatement
<1> QED BY <1>3, <1>6, <1>7

(* Statements about deployments. *)
LEMMA InsertRowKeeps ==
    ASSUME IInv, StoreTypeOK', NEW c \in Clients, InsertRow(c)
    PROVE  Tables' /\ Quiet /\ Client(c)'
<1>1. Tables' /\ Quiet BY InsertTables
<1>2. Client(c) /\ pc[c] = "insertRow" BY DEF InsertRow, IInv
<1>3. seq \in Ids /\ seq \in Nat BY RoomForOne, <1>2 DEF IInv, Waiting
<1>t. /\ op \in [Clients -> Ops] /\ pc \in [Clients -> Statements]
      /\ held \in [Clients -> Works]
  BY DEF IInv, StoreTypeOK
<1>4. CASE Exists(op[c].app)
  <2>1. /\ held'[c] = [id |-> seq, next |-> {}, mine |-> TRUE]
        /\ op'[c] = op[c] /\ pc'[c] = "insertPending" /\ seq' = seq + 1
    BY <1>4, <1>t DEF InsertRow, Goto
  <2>2. op[c].kind = "deploy" BY <1>2 DEF Client
  <2> QED BY <2>1, <2>2, <1>1, <1>3 DEF Client, AppStatements, StatusStatements
<1>5. CASE ~Exists(op[c].app)
  BY <1>1, <1>2, <1>5, <1>t, AtAppStatement DEF InsertRow, End, AppStatements
<1> QED BY <1>1, <1>4, <1>5

LEMMA InsertPendingKeeps ==
    ASSUME IInv, StoreTypeOK', NEW c \in Clients, InsertPending(c)
    PROVE  Tables' /\ Quiet /\ Client(c)'
<1> DEFINE d == held[c].id
<1>t. /\ op \in [Clients -> Ops] /\ pc \in [Clients -> Statements]
      /\ held \in [Clients -> Works] /\ log \in [Ids -> Seq(Statuses)] /\ seq \in Nat
  BY StoreAssumption DEF IInv, StoreTypeOK
<1>1. Client(c) /\ pc[c] = "insertPending" /\ d \in Ids /\ d < seq
  <2>1. Client(c) /\ pc[c] = "insertPending" BY DEF InsertPending, IInv
  <2> QED BY <2>1 DEF Client
<1>2. Tables' /\ Quiet
  <2>1. "pending" \in Statuses BY DEF Statuses, InProgress
  <2>2. d \in 0..MaxDeployments BY <1>1
  <2>3. UNCHANGED <<app, owner, status, seq>> /\ Record(d, "pending") BY DEF InsertPending
  <2> QED BY <1>1, <2>1, <2>2, <2>3, RecordTables
<1>3. CASE HasRow(d)
  <2>1. held'[c] = held[c] /\ seq' = seq BY <1>3 DEF InsertPending
  <2>2. pc'[c] = "getRow" BY <1>3, <1>t DEF InsertPending
  <2>3. op'[c] = [op[c] EXCEPT !.kind = "status", !.status = "pulling"]
    BY <1>3, <1>t DEF InsertPending
  <2>4. op'[c].kind = "status" /\ op'[c].status = "pulling" /\ "pulling" \in Statuses
    BY <2>3, <1>t DEF Ops, Statuses, InProgress
  <2>5. log'[d] # <<>>
    <3>1. log'[d] = Append(log[d], "pending")
      BY <1>1, <1>3, <1>t DEF InsertPending, Record
    <3>2. log[d] \in Seq(Statuses) /\ "pending" \in Statuses
      BY <1>1, <1>t DEF Statuses, InProgress
    <3> QED BY <3>1, <3>2, Appended
  <2>6. \A e \in Ids : Silent(e)' => e # d BY <2>5 DEF Silent
  <2> QED BY <2>1, <2>2, <2>4, <2>6, <1>1, <1>2 DEF Client, AppStatements, StatusStatements
<1>4. CASE ~HasRow(d)
  BY <1>2, <1>4, <1>t, AtEnd DEF InsertPending, End
<1> QED BY <1>2, <1>3, <1>4

LEMMA GetRowKeeps ==
    ASSUME IInv, StoreTypeOK', NEW c \in Clients, GetRow(c)
    PROVE  Tables' /\ Quiet /\ Client(c)'
<1>1. Tables' /\ Quiet BY ReadTables DEF GetRow, Read
<1>t. /\ op \in [Clients -> Ops] /\ pc \in [Clients -> Statements]
      /\ held \in [Clients -> Works]
  BY DEF IInv, StoreTypeOK
<1>2. Client(c) /\ pc[c] = "getRow" BY DEF GetRow, Read, IInv
<1>3. CASE MayChange(held[c].id)
  BY <1>1, <1>2, <1>3, <1>t, AtStatusStatement DEF GetRow, Goto, Client, StatusStatements
<1>4. CASE ~MayChange(held[c].id)
  <2>1. End(c) /\ Throw(c) BY <1>4 DEF GetRow
  <2>2. pc'[c] = "idle" BY <2>1, <1>t DEF End
  <2> QED BY <2>1, <2>2, <1>1, AfterThrow, AtEnd
<1> QED BY <1>1, <1>3, <1>4

LEMMA UpdateRowKeeps ==
    ASSUME IInv, StoreTypeOK', NEW c \in Clients, UpdateRow(c)
    PROVE  Tables' /\ Quiet /\ Client(c)'
<1>1. Tables' /\ Quiet BY UpdateTables
<1>t. /\ op \in [Clients -> Ops] /\ pc \in [Clients -> Statements]
      /\ held \in [Clients -> Works]
  BY DEF IInv, StoreTypeOK
<1>2. Client(c) /\ pc[c] = "updateRow" BY DEF UpdateRow, IInv
<1> QED BY <1>1, <1>2, <1>t, AtStatusStatement DEF UpdateRow, Goto, Client, StatusStatements

LEMMA InsertEventKeeps ==
    ASSUME IInv, StoreTypeOK', NEW c \in Clients, InsertEvent(c)
    PROVE  Tables' /\ Quiet /\ Client(c)'
<1> DEFINE d == held[c].id
<1>t. pc \in [Clients -> Statements] BY DEF IInv, StoreTypeOK
<1>1. Client(c) /\ pc[c] = "insertEvent" BY DEF InsertEvent, IInv
<1>2. d \in Ids /\ d < seq /\ ~Silent(d) /\ op[c].status \in Statuses
  BY <1>1 DEF Client, StatusStatements
<1>3. Tables' /\ Quiet
  <2>1. UNCHANGED <<app, owner, status, seq>> /\ Record(d, op[c].status) BY DEF InsertEvent
  <2>2. d \in 0..MaxDeployments BY <1>2
  <2> QED BY <1>2, <2>1, <2>2, RecordTables
<1>4. pc'[c] = "idle" BY <1>t DEF InsertEvent, End
<1>5. Throw(c) \/ Proceed(c) BY DEF InsertEvent
<1> QED BY <1>1, <1>3, <1>4, <1>5, AfterThrow, AfterProceed, AtEnd

(* Everything else: operations that begin or break off. *)
LEMMA BeginsKeeps ==
    ASSUME IInv, StoreTypeOK', NEW c \in Clients,
           Begins(c) \/ \E a \in AppNames : Deploy(c, a)
    PROVE  Tables' /\ Quiet /\ Client(c)'
<1>t. /\ op \in [Clients -> Ops] /\ pc \in [Clients -> Statements] /\ Client(c)
  BY DEF IInv, StoreTypeOK
<1>1. UNCHANGED tables /\ UNCHANGED held /\ pc[c] = "idle"
  BY DEF Begins, Delete, Create, Set, SetDeploymentStatus, Deploy, Begin, tables
<1>2. Tables' /\ Quiet BY <1>1, ReadTables
<1>3. ASSUME NEW o, NEW s, Begin(c, o, s) PROVE op'[c] = o /\ pc'[c] = s
  BY <1>3, <1>t DEF Begin
<1>4. CASE \E s \in Statuses : SetDeploymentStatus(c, s)
  <2>1. PICK s \in Statuses : SetDeploymentStatus(c, s) BY <1>4
  <2>2. /\ op'[c] = [NoOp EXCEPT !.kind = "status", !.status = s] /\ pc'[c] = "getRow"
        /\ held[c].next # {}
    BY <2>1, <1>3 DEF SetDeploymentStatus
  <2>3. op'[c].kind = "status" /\ op'[c].status = s BY <2>2 DEF NoOp
  <2>4. held[c].id \in Ids BY <2>2, <1>t DEF Client
  <2> QED BY <2>2, <2>3, <2>4, <1>1, <1>2, AtStatusStatement DEF StatusStatements
<1>5. CASE \E a \in AppNames : Delete(c, a)
  <2>1. PICK a \in AppNames : Delete(c, a) BY <1>5
  <2>2. op'[c] = [NoOp EXCEPT !.kind = "delete", !.app = a] /\ pc'[c] = "findApp"
    BY <2>1, <1>3 DEF Delete
  <2>3. op'[c].kind = "delete" /\ op'[c].app = a BY <2>2 DEF NoOp
  <2> QED BY <2>2, <2>3, <1>1, <1>2, AtAppStatement DEF AppStatements
<1>6. CASE \E a \in AppNames : Deploy(c, a)
  <2>1. PICK a \in AppNames : Deploy(c, a) BY <1>6
  <2>2. op'[c] = [NoOp EXCEPT !.kind = "deploy", !.app = a] /\ pc'[c] = "findInFlight"
    BY <2>1, <1>3 DEF Deploy
  <2>3. op'[c].kind = "deploy" /\ op'[c].app = a BY <2>2 DEF NoOp
  <2> QED BY <2>2, <2>3, <1>1, <1>2, AtAppStatement DEF AppStatements
<1>7. CASE \E a \in AppNames, h \in Hosts \union {NoHost}, env \in SUBSET Keys :
              Create(c, a, h, env)
  <2>1. PICK a \in AppNames, h \in Hosts \union {NoHost}, env \in SUBSET Keys :
              Create(c, a, h, env)
    BY <1>7
  <2>2. /\ op'[c] = [NoOp EXCEPT !.kind = "create", !.app = a, !.host = h, !.add = env]
        /\ pc'[c] = "findApp"
    BY <2>1, <1>3 DEF Create
  <2>3. op'[c].kind = "create" /\ op'[c].app = a /\ op'[c].host = h BY <2>2 DEF NoOp
  <2> QED BY <2>2, <2>3, <1>1, <1>2, AtAppStatement DEF AppStatements
<1>8. CASE \E a \in AppNames, h \in Hosts \union {NoHost, Keep}, add \in SUBSET Keys,
              drop \in SUBSET Keys : Set(c, a, h, add, drop)
  <2>1. PICK a \in AppNames, h \in Hosts \union {NoHost, Keep}, add \in SUBSET Keys,
              drop \in SUBSET Keys : Set(c, a, h, add, drop)
    BY <1>8
  <2>2. /\ op'[c] = [NoOp EXCEPT !.kind = "set", !.app = a, !.host = h, !.add = add,
                                 !.drop = drop]
        /\ pc'[c] = "findForEnv"
    BY <2>1, <1>3 DEF Set
  <2>3. op'[c].kind = "set" /\ op'[c].app = a BY <2>2 DEF NoOp
  <2> QED BY <2>2, <2>3, <1>1, <1>2, AtAppStatement DEF AppStatements
<1> QED BY <1>4, <1>5, <1>6, <1>7, <1>8 DEF Begins

LEMMA LookKeeps ==
    ASSUME IInv, StoreTypeOK', NEW c \in Clients, NEW d \in Ids, Look(c, d)
    PROVE  Tables' /\ Quiet /\ Client(c)'
<1>1. Tables' /\ Quiet BY ReadTables DEF Look
<1>2. /\ held'[c].id = d
      /\ pc'[c] = "idle"
      /\ UNCHANGED tables
      /\ status[d] = "running" \/ Stuck(d)
  BY DEF Look, IInv, StoreTypeOK
<1>3. status[d] # "none" /\ ~Silent(d) /\ d < seq
  BY <1>2, StoreAssumption DEF Stuck, InProgress, Silent, IInv, Tables, StoreTypeOK
<1>4. seq' = seq /\ \A e \in Ids : Silent(e)' <=> Silent(e)
  BY <1>2 DEF tables, Silent, HasRow
<1> QED BY <1>1, <1>2, <1>3, <1>4 DEF Client, AppStatements, StatusStatements

LEMMA BreaksKeep ==
    ASSUME IInv, StoreTypeOK', NEW c \in Clients, SqlError(c) \/ Crash(c)
    PROVE  Tables' /\ Quiet /\ Client(c)'
<1>1. Tables' /\ Quiet BY ReadTables DEF SqlError, Crash
<1>2. pc'[c] = "idle" BY DEF SqlError, Crash, End, IInv, StoreTypeOK
<1>3. CASE Throw(c) BY <1>1, <1>2, <1>3, AfterThrow, AtEnd
<1>4. CASE held' = [held EXCEPT ![c] = NoWork]
  BY <1>1, <1>2, <1>4, AtEnd DEF IInv, StoreTypeOK
<1> QED BY <1>3, <1>4 DEF SqlError, Crash

(* What one process does keeps the tables, and what it knows itself. *)
LEMMA StepKeeps ==
    ASSUME IInv, StoreTypeOK', NEW c \in Clients, StepOf(c)
    PROVE  Tables' /\ Quiet /\ Client(c)'
<1>1. CASE Begins(c) \/ \E a \in AppNames : Deploy(c, a) BY <1>1, BeginsKeeps
<1>2. CASE \E d \in Ids : Look(c, d) BY <1>2, LookKeeps
<1>3. CASE SqlError(c) \/ Crash(c) BY <1>3, BreaksKeep
<1>4. CASE AppStatement(c) BY <1>4, AppStatementKeeps
<1>5. CASE InsertRow(c) BY <1>5, InsertRowKeeps
<1>6. CASE InsertPending(c) BY <1>6, InsertPendingKeeps
<1>7. CASE GetRow(c) BY <1>7, GetRowKeeps
<1>8. CASE UpdateRow(c) BY <1>8, UpdateRowKeeps
<1>9. CASE InsertEvent(c) BY <1>9, InsertEventKeeps
<1>10. CASE Statement(c)
  BY <1>4, <1>5, <1>6, <1>7, <1>8, <1>9, <1>10 DEF Statement, AppStatement
<1> QED BY <1>1, <1>2, <1>3, <1>10, Sorted

-----------------------------------------------------------------------------
(* Room *)

(* Room is only taken by a deploy that begins, which found it. *)
LEMMA StepRoom ==
    ASSUME IInv, StoreTypeOK', NEW c \in Clients, StepOf(c)
    PROVE  Room'
<1>t. /\ pc \in [Clients -> Statements] /\ op \in [Clients -> Ops]
      /\ seq \in Nat /\ seq' \in Nat /\ Room
  BY StoreAssumption DEF IInv, StoreTypeOK
<1>1. \A x \in Clients : x # c => pc'[x] = pc[x]
  BY Elsewhere DEF IInv, Unmoved
<1>2. ASSUME pc'[c] \notin {"findInFlight", "insertRow"} \/ c \in Waiting, seq' = seq
      PROVE  Room'
  <2>1. Waiting' \subseteq Waiting BY <1>1, <1>2 DEF Waiting
  <2>2. Cardinality(Waiting') <= Cardinality(Waiting) /\ Cardinality(Waiting') \in Nat
    BY <2>1, WaitingFinite, FS_Subset, FS_CardinalityType
  <2>3. seq' + Cardinality(Waiting') <= MaxDeployments + 1
    BY <2>2, <1>2, <1>t, WaitingFinite, StoreAssumption DEF Room
  <2> QED BY <2>3 DEF Room
<1>3. CASE InsertRow(c)
  <2>1. c \in Waiting BY <1>3 DEF InsertRow, Waiting
  <2>2. pc'[c] \in {"insertPending", "idle"} /\ seq' \in {seq, seq + 1}
    BY <1>3, <1>t DEF InsertRow, Goto, End
  <2>3. Waiting' = Waiting \ {c} BY <2>2, <1>1 DEF Waiting
  <2>4. Cardinality(Waiting') = Cardinality(Waiting) - 1
    BY <2>1, <2>3, WaitingFinite, FS_RemoveElement
  <2>5. seq' + Cardinality(Waiting') <= MaxDeployments + 1
    BY <2>2, <2>4, <1>t, WaitingFinite, StoreAssumption DEF Room
  <2> QED BY <2>5 DEF Room
<1>4. CASE \E a \in AppNames : Deploy(c, a)
  <2>1. /\ seq' = seq /\ pc'[c] = "findInFlight" /\ pc[c] = "idle"
        /\ seq + Cardinality(Waiting) \in Ids
    BY <1>4, <1>t DEF Deploy, Begin, IdsLeft, Waiting, tables
  <2>2. Waiting' = Waiting \union {c} BY <2>1, <1>1 DEF Waiting
  <2>3. Cardinality(Waiting') <= Cardinality(Waiting) + 1 /\ Cardinality(Waiting') \in Nat
    BY <2>2, WaitingFinite, FS_AddElement, SMTT(30)
  <2>4. seq' + Cardinality(Waiting') <= MaxDeployments + 1
    BY <2>1, <2>3, <1>t, WaitingFinite, StoreAssumption
  <2> QED BY <2>4 DEF Room
<1>5. CASE Begins(c)
  <2>1. pc'[c] \in {"findApp", "findForEnv", "getRow"} /\ seq' = seq
    BY <1>5, <1>t DEF Begins, Delete, Create, Set, SetDeploymentStatus, Begin, tables
  <2> QED BY <2>1, <1>2
<1>6. CASE \E d \in Ids : Look(c, d)
  BY <1>2, <1>6 DEF Look, tables
<1>7. CASE AppStatement(c)
  <2>1. seq' = seq
    BY <1>7 DEF AppStatement, FindForEnv, FindApp, HostnameOwner, InsertApp, UpdateApp,
                FindRunning, DeleteRow, FindInFlight, Read, tables
  <2>2. pc'[c] \notin {"findInFlight", "insertRow"} \/ c \in Waiting
    BY <1>7, <1>t DEF AppStatement, FindForEnv, FindApp, AfterFind, HostnameOwner, InsertApp,
                UpdateApp, FindRunning, DeleteRow, FindInFlight, Read, Goto, GotoWith, End, Waiting
  <2> QED BY <2>1, <2>2, <1>2
<1>8. CASE InsertPending(c) \/ GetRow(c) \/ UpdateRow(c) \/ InsertEvent(c)
  <2>1. seq' = seq
    BY <1>8 DEF InsertPending, GetRow, UpdateRow, InsertEvent, Read, tables
  <2>2. pc'[c] \in {"idle", "getRow", "updateRow", "insertEvent"}
    BY <1>8, <1>t DEF InsertPending, GetRow, UpdateRow, InsertEvent, Goto, End
  <2> QED BY <2>1, <2>2, <1>2
<1>9. CASE SqlError(c) \/ Crash(c)
  BY <1>2, <1>9, <1>t DEF SqlError, Crash, End, tables
<1> QED BY <1>3, <1>4, <1>5, <1>6, <1>7, <1>8, <1>9, Sorted DEF Statement, AppStatement

-----------------------------------------------------------------------------
(* The invariant holds. *)

LEMMA InvInit == StoreInit => IInv
<1> SUFFICES ASSUME StoreInit PROVE IInv OBVIOUS
<1> USE StoreAssumption DEF StoreInit
<1>1. StoreTypeOK
  <2>1. <<>> \in Seq(Statuses) OBVIOUS
  <2> QED BY <2>1, Resting DEF StoreTypeOK, Statements
<1>2. "none" \notin Statuses BY DEF Statuses, InProgress, Final
<1>3. Tables
  BY <1>2 DEF Tables, HostnamesUnique, NoOrphans, LogBeginsPending, Exists, HasRow, Silent
<1>4. \A c \in Clients : Client(c)
  BY <1>2 DEF Client, NoWork, NoOp, AppStatements, StatusStatements, Silent, HasRow
<1>5. Room
  <2>1. Waiting = {} BY DEF Waiting
  <2> QED BY <2>1, FS_EmptySet DEF Room
<1> QED BY <1>1, <1>3, <1>4, <1>5 DEF IInv

LEMMA InvNext == IInv /\ [StoreNext]_storeVars => IInv'
<1> SUFFICES ASSUME IInv, [StoreNext]_storeVars PROVE IInv' OBVIOUS
<1>1. CASE StoreNext
  <2>1. PICK c \in Clients : StepOf(c) BY <1>1, NextIsOnes
  <2>2. StoreTypeOK' BY <2>1, StepTypes
  <2>3. Tables' /\ Quiet /\ Client(c)' BY <2>1, <2>2, StepKeeps
  <2>4. \A x \in Clients : x # c => Client(x)'
    BY <2>1, <2>2, <2>3, Elsewhere, OthersClient DEF IInv
  <2>5. Room' BY <2>1, <2>2, StepRoom
  <2> QED BY <2>2, <2>3, <2>4, <2>5 DEF IInv
<1>2. CASE UNCHANGED storeVars
  <2>1. UNCHANGED tables BY <1>2 DEF storeVars, tables
  <2>2. StoreTypeOK' BY <1>2 DEF IInv, StoreTypeOK, storeVars
  <2>3. Tables' /\ Quiet BY <2>1, ReadTables
  <2>4. \A x \in Clients : Client(x)'
    BY <1>2, <2>2, <2>3, OthersClient DEF IInv, Unmoved, storeVars
  <2>5. Waiting' = Waiting BY <1>2 DEF Waiting, storeVars
  <2>6. Room' BY <1>2, <2>5 DEF Room, IInv, storeVars
  <2> QED BY <2>2, <2>3, <2>4, <2>6 DEF IInv
<1> QED BY <1>1, <1>2

(* The inductive invariant, for every behaviour. *)
LEMMA InvAlways == StoreSpec => []IInv
BY InvInit, InvNext, PTL DEF StoreSpec

(* The database and the processes keep their types. *)
THEOREM StoreTypeCorrect == StoreSpec => []StoreTypeOK
<1>1. IInv => StoreTypeOK BY DEF IInv
<1> QED BY <1>1, InvAlways, PTL

(* No two apps ever share a hostname, though the checks before the writes  *)
(* race.                                                                   *)
THEOREM HostnamesUniqueAlways == StoreSpec => []HostnamesUnique
<1>1. IInv => HostnamesUnique BY DEF IInv, Tables
<1> QED BY <1>1, InvAlways, PTL

(* A deletion that comes between the statements of a deploy leaves neither *)
(* a deployment nor an event behind.                                       *)
THEOREM NoOrphansAlways == StoreSpec => []NoOrphans
<1>1. IInv => NoOrphans BY DEF IInv, Tables
<1> QED BY <1>1, InvAlways, PTL

(* The history of a deployment begins with pending, whoever else works on  *)
(* it.                                                                     *)
THEOREM LogBeginsPendingAlways == StoreSpec => []LogBeginsPending
<1>1. IInv => LogBeginsPending BY DEF IInv, Tables
<1> QED BY <1>1, InvAlways, PTL

-----------------------------------------------------------------------------
(***************************************************************************)
(* What the repositories keep unless two operations cross in one of the    *)
(* four ways StateStore names, whatever fails and whoever dies.  Each      *)
(* theorem names the crossings that alone can break its property; the      *)
(* runs of store_*.cfg show that each of them does.                        *)
(*                                                                         *)
(* Drives tells how far the deployment of a deploy can have come, and that *)
(* nobody else takes it anywhere but to its end; it holds however the      *)
(* processes cross.  What a process has read between two statements is     *)
(* still true at the second one only without the crossing:                 *)
(* Unfinished, NoneRuns, NoneInFlight, KnowsApp.                           *)
(***************************************************************************)
Past == Final \union {"deleted"}

Drives(c) ==
    IF held[c].mine
    THEN \/ status[held[c].id] \in InProgress \union Past
         \/ pc[c] = "idle" /\ held[c].next \subseteq Final
         \/ pc[c] \in StatusStatements /\ op[c].status \in Final
         \/ pc[c] = "insertEvent" /\ op[c].status = "running"
    ELSE /\ held[c].next \subseteq Final
         /\ pc[c] \in StatusStatements => op[c].status \in Final

Apart ==
    \A x, y \in Clients : held[x].mine /\ held[y].mine /\ held[x].id = held[y].id => x = y

(* An id that has an owner has been a row. *)
Entered == \A d \in Ids : status[d] = "none" => owner[d] = NoApp

DInv ==
    /\ IInv
    /\ \A c \in Clients : Drives(c)
    /\ Apart
    /\ Entered

Unfinished(c)   == pc[c] = "updateRow" => status[held[c].id] \notin Final
NoneRuns(c)     == pc[c] = "deleteRow" => Running(op[c].app) = {}
NoneInFlight(c) == pc[c] = "insertRow" => Of(op[c].app, InProgress) = {}

NewEnv(c) == (app[op[c].app].env \union op[c].add) \ op[c].drop

KnowsApp(c) ==
    /\ pc[c] = "findApp" /\ op[c].kind = "set" =>
          Exists(op[c].app) /\ row[c].env = NewEnv(c)
    /\ pc[c] = "hostnameOwner" => op[c].kind \in {"create", "set"}
    /\ pc[c] = "updateApp" => op[c].kind = "set"
    /\ pc[c] \in {"hostnameOwner", "updateApp"} /\ op[c].kind = "set" =>
          /\ Exists(op[c].app)
          /\ op[c].host = Keep => row[c].host = app[op[c].app].host
          /\ row[c].env = IF NamesEnv(c) THEN NewEnv(c) ELSE app[op[c].app].env

USE DEF Ids

-----------------------------------------------------------------------------
(* Who writes *)

(* A statement is executed by a process that is in an operation. *)
LEMMA StatementBusy == \A c \in Clients : Statement(c) => pc[c] # "idle"
BY DEF Statement, FindForEnv, FindApp, HostnameOwner, InsertApp, UpdateApp, FindRunning,
       DeleteRow, FindInFlight, InsertRow, InsertPending, GetRow, UpdateRow, InsertEvent, Read

(* What is not a statement writes no table. *)
LEMMA OnlyStatementsWrite ==
    ASSUME NEW c \in Clients, StepOf(c), ~Statement(c)
    PROVE  UNCHANGED tables
BY Sorted DEF Begins, Delete, Create, Set, SetDeploymentStatus, Deploy, Begin, Look, SqlError,
              Crash, tables

(* The deployments a step changes the status of. *)
LEMMA StatusWrites ==
    ASSUME IInv, NEW c \in Clients, StepOf(c)
    PROVE  \/ UNCHANGED <<status, owner>>
           \/ /\ InsertRow(c) /\ Exists(op[c].app)
              /\ status' = [status EXCEPT ![seq] = "pending"]
              /\ owner' = [owner EXCEPT ![seq] = op[c].app]
           \/ /\ UpdateRow(c) /\ HasRow(held[c].id) /\ UNCHANGED owner
              /\ status' = [status EXCEPT ![held[c].id] = op[c].status]
           \/ /\ DeleteRow(c) /\ UNCHANGED owner
              /\ \A d \in Ids : status'[d] = IF owner[d] = op[c].app THEN "deleted" ELSE status[d]
<1>1. CASE InsertRow(c) BY <1>1 DEF InsertRow
<1>2. CASE UpdateRow(c) BY <1>2 DEF UpdateRow
<1>3. CASE DeleteRow(c) BY <1>3 DEF DeleteRow, Cascade
<1>4. CASE ~Statement(c) BY <1>4, OnlyStatementsWrite DEF tables
<1> QED BY <1>1, <1>2, <1>3, <1>4
        DEF Statement, FindForEnv, FindApp, HostnameOwner, InsertApp, UpdateApp, FindRunning,
            FindInFlight, InsertPending, GetRow, InsertEvent, Read, tables

(* The process that inserts a deployment has an id for it, and the one     *)
(* that updates one a deployment that was inserted.                        *)
LEMMA WrittenIds ==
    ASSUME IInv, NEW c \in Clients
    PROVE  /\ InsertRow(c) => seq \in Ids /\ op[c].app \in AppNames /\ status[seq] = "none"
           /\ UpdateRow(c) => held[c].id \in Ids /\ op[c].status \in Statuses
<1>1. ASSUME InsertRow(c) PROVE seq \in Ids /\ op[c].app \in AppNames /\ status[seq] = "none"
  <2>1. pc[c] = "insertRow" /\ c \in Waiting BY <1>1 DEF InsertRow, Waiting
  <2>2. op[c].app \in AppNames /\ seq \in Ids
    BY <2>1, RoomForOne DEF IInv, Client, AppStatements
  <2> QED BY <2>2 DEF IInv, Tables, StoreTypeOK
<1>2. ASSUME UpdateRow(c) PROVE held[c].id \in Ids /\ op[c].status \in Statuses
  BY <1>2 DEF IInv, Client, StatusStatements, UpdateRow
<1> QED BY <1>1, <1>2

-----------------------------------------------------------------------------
(* How far the deployments have come *)

(* A process with nothing to do drives nothing. *)
LEMMA DrivesNothing ==
    ASSUME NEW c \in Clients, held'[c] = NoWork, pc'[c] \notin StatusStatements
    PROVE  Drives(c)'
BY DEF Drives, NoWork

(* After a throw there is at most failed left to set. *)
LEMMA DrivesToFailed ==
    ASSUME IInv, NEW c \in Clients, Throw(c), pc'[c] = "idle"
    PROVE  Drives(c)'
<1>t. held \in [Clients -> Works] BY DEF IInv, StoreTypeOK
<1>1. CASE held'[c] = NoWork BY <1>1, DrivesNothing DEF StatusStatements
<1>2. CASE held'[c] # NoWork
  <2>1. held'[c] = [held[c] EXCEPT !.next = {"failed"}] /\ held[c].mine
    BY <1>t, <1>2, ThrowIs
  <2>2. held'[c].next = {"failed"} /\ held'[c].mine BY <1>t, <2>1 DEF Works
  <2> QED BY <2>2 DEF Drives, Final
<1> QED BY <1>1, <1>2

(* The deployment moves on, and its process stays out of its way. *)
LEMMA DrivesStill ==
    ASSUME NEW x \in Clients, Drives(x), held'[x] = held[x],
           \/ pc'[x] = pc[x] /\ op'[x] = op[x]
           \/ pc[x] \notin StatusStatements \union {"idle"} /\ pc'[x] \notin StatusStatements
           \/ pc[x] = "getRow" /\ pc'[x] = "updateRow" /\ op'[x] = op[x],
           held[x].mine =>
              status'[held[x].id] \in {status[held[x].id]} \union Past
    PROVE  Drives(x)'
BY DEF Drives, StatusStatements

(* The other processes' deployments stay where they are, or are closed. *)
LEMMA OthersDrive ==
    ASSUME DInv, NEW c \in Clients, StepOf(c), NEW x \in Clients, x # c
    PROVE  Drives(x)'
<1>t. /\ IInv /\ Drives(x) /\ Drives(c) /\ Client(x) /\ Client(c) /\ Unmoved(x)
      /\ status \in [Ids -> Statuses \union {"none", "deleted"}] /\ seq \in Nat
      /\ held[x].id \in Nat
  BY Elsewhere, StoreAssumption DEF DInv, IInv, StoreTypeOK, Works
<1>1. ASSUME held[x].mine
      PROVE  status'[held[x].id] \in {status[held[x].id]} \union Past
  <2>1. held[x].id \in Ids /\ held[x].id < seq BY <1>1, <1>t DEF Client
  <2>2. CASE UNCHANGED status BY <2>2
  <2>3. CASE status' = [status EXCEPT ![seq] = "pending"] BY <2>1, <2>3, <1>t
  <2>4. CASE UpdateRow(c) /\ status' = [status EXCEPT ![held[c].id] = op[c].status]
    <3>1. CASE held[c].id # held[x].id BY <2>1, <2>4, <3>1, <1>t
    <3>2. CASE held[c].id = held[x].id
      <4>1. ~held[c].mine BY <1>1, <3>2 DEF DInv, Apart
      <4>2. op[c].status \in Final
        BY <4>1, <2>4, <1>t DEF Drives, StatusStatements, UpdateRow
      <4> QED BY <4>2, <2>1, <2>4, <3>2, <1>t DEF Past
    <3> QED BY <3>1, <3>2
  <2>5. CASE \A d \in Ids : status'[d] = IF owner[d] = op[c].app THEN "deleted" ELSE status[d]
    BY <2>1, <2>5 DEF Past
  <2> QED BY <2>2, <2>3, <2>4, <2>5, <1>t, StatusWrites
<1> QED BY <1>1, <1>t, DrivesStill DEF Unmoved

(* A process at a statement about an app, and one that begins or breaks    *)
(* off.                                                                    *)
LEMMA AppDrives ==
    ASSUME DInv, NEW c \in Clients, AppStatement(c)
    PROVE  Drives(c)'
<1>t. /\ IInv /\ Drives(c) /\ pc \in [Clients -> Statements]
      /\ op \in [Clients -> Ops] /\ held'[c] = held[c]
      /\ pc[c] \in AppStatements /\ Client(c)
  BY DEF DInv, IInv, StoreTypeOK, AppStatement, AppStatements, FindForEnv, FindApp,
         HostnameOwner, InsertApp, UpdateApp, FindRunning, DeleteRow, FindInFlight, Read
<1>1. pc[c] \notin StatusStatements \union {"idle"} BY <1>t DEF AppStatements, StatusStatements
<1>2. pc'[c] \notin StatusStatements
  BY <1>t DEF AppStatement, FindForEnv, FindApp, AfterFind,
              HostnameOwner, InsertApp, UpdateApp, FindRunning, DeleteRow, FindInFlight,
              Goto, GotoWith, End, StatusStatements
<1>3. ASSUME held[c].mine
      PROVE  status'[held[c].id] \in {status[held[c].id]} \union Past
  <2>1. held[c].id \in Ids BY <1>3, <1>t DEF Client
  <2>2. CASE UNCHANGED status BY <2>2
  <2>3. CASE DeleteRow(c) BY <2>1, <2>3 DEF DeleteRow, Cascade, Past
  <2> QED BY <2>2, <2>3
          DEF AppStatement, FindForEnv, FindApp, HostnameOwner, InsertApp, UpdateApp,
              FindRunning, FindInFlight, Read, tables
<1> QED BY <1>1, <1>2, <1>3, <1>t, DrivesStill

LEMMA BeginDrives ==
    ASSUME DInv, NEW c \in Clients, StepOf(c), ~Statement(c)
    PROVE  Drives(c)'
<1>t. /\ IInv /\ Drives(c) /\ pc \in [Clients -> Statements] /\ op \in [Clients -> Ops]
      /\ held \in [Clients -> Works] /\ status' = status
  BY OnlyStatementsWrite DEF DInv, IInv, StoreTypeOK, tables
<1>1. CASE \/ \E a \in AppNames : Delete(c, a) \/ Deploy(c, a)
           \/ \E a \in AppNames, h \in Hosts \union {NoHost}, env \in SUBSET Keys :
                 Create(c, a, h, env)
           \/ \E a \in AppNames, h \in Hosts \union {NoHost, Keep}, add \in SUBSET Keys,
                 drop \in SUBSET Keys : Set(c, a, h, add, drop)
  <2>1. /\ held'[c] = NoWork
        /\ pc'[c] \in {"findApp", "findForEnv", "findInFlight"}
    BY <1>1, <1>t DEF Delete, Create, Set, Deploy, Begin
  <2> QED BY <2>1, DrivesNothing DEF StatusStatements
<1>2. CASE \E s \in Statuses : SetDeploymentStatus(c, s)
  <2>1. PICK s \in Statuses : SetDeploymentStatus(c, s) BY <1>2
  <2>2. /\ op'[c] = [NoOp EXCEPT !.kind = "status", !.status = s] /\ pc'[c] = "getRow"
        /\ held'[c] = held[c] /\ s \in held[c].next /\ pc[c] = "idle"
    BY <2>1, <1>t DEF SetDeploymentStatus, Begin
  <2>3. op'[c].status = s BY <2>2 DEF NoOp
  <2> QED BY <2>2, <2>3, <1>t DEF Drives, StatusStatements
<1>3. CASE \E d \in Ids : Look(c, d)
  <2>1. pc'[c] = "idle" /\ ~held'[c].mine /\ held'[c].next \subseteq Final
    BY <1>3, <1>t DEF Look, Final
  <2> QED BY <2>1 DEF Drives, StatusStatements
<1>4. CASE SqlError(c) \/ Crash(c)
  <2>1. pc'[c] = "idle" BY <1>4, <1>t DEF SqlError, Crash, End
  <2>2. CASE SqlError(c) BY <2>1, <2>2, <1>t, DrivesToFailed DEF SqlError
  <2>3. CASE Crash(c) BY <2>1, <2>3, <1>t, DrivesNothing DEF Crash, StatusStatements
  <2> QED BY <1>4, <2>2, <2>3
<1> QED BY <1>1, <1>2, <1>3, <1>4, Sorted DEF Begins

(* A process at a statement about a deployment. *)
LEMMA StatusDrives ==
    ASSUME DInv, NEW c \in Clients, Statement(c), ~AppStatement(c)
    PROVE  Drives(c)'
<1>t. /\ IInv /\ Drives(c) /\ Client(c)
      /\ pc \in [Clients -> Statements] /\ op \in [Clients -> Ops]
      /\ held \in [Clients -> Works]
      /\ status \in [Ids -> Statuses \union {"none", "deleted"}]
  BY DEF DInv, IInv, StoreTypeOK
<1>1. CASE InsertRow(c)
  <2>1. CASE Exists(op[c].app)
    <3>1. seq \in Ids BY <1>1, <1>t, RoomForOne DEF InsertRow, Waiting, IInv
    <3>2. held'[c] = [id |-> seq, next |-> {}, mine |-> TRUE] /\ status'[seq] = "pending"
      BY <3>1, <2>1, <1>1, <1>t DEF InsertRow
    <3> QED BY <3>2 DEF Drives, InProgress
  <2>2. CASE ~Exists(op[c].app)
    <3>1. held' = held /\ status' = status /\ pc'[c] = "idle" /\ pc[c] = "insertRow"
      BY <2>2, <1>1, <1>t DEF InsertRow, End
    <3> QED BY <3>1, <1>t, DrivesStill DEF StatusStatements
  <2> QED BY <2>1, <2>2
<1>2. CASE InsertPending(c)
  <2>1. pc[c] = "insertPending" /\ held[c].mine /\ status' = status
    BY <1>2, <1>t DEF InsertPending, Client
  <2>2. status[held[c].id] \in InProgress \union Past
    BY <2>1, <1>t DEF Drives, StatusStatements
  <2>3. CASE held' = held BY <2>1, <2>2, <2>3 DEF Drives
  <2>4. CASE held'[c] = NoWork /\ pc'[c] = "idle"
    BY <2>4, DrivesNothing DEF StatusStatements
  <2> QED BY <2>3, <2>4, <1>2, <1>t DEF InsertPending, End
<1>3. CASE GetRow(c)
  <2>1. pc[c] = "getRow" /\ status' = status BY <1>3 DEF GetRow, Read, tables
  <2>2. CASE MayChange(held[c].id)
    <3>1. held' = held /\ op' = op /\ pc'[c] = "updateRow"
      BY <2>2, <1>3, <1>t DEF GetRow, Goto
    <3> QED BY <3>1, <2>1, <1>t, DrivesStill
  <2>3. CASE ~MayChange(held[c].id)
    BY <2>3, <1>3, <1>t, DrivesToFailed DEF GetRow, End
  <2> QED BY <2>2, <2>3
<1>4. CASE UpdateRow(c)
  <2>1. /\ pc[c] = "updateRow" /\ pc'[c] = "insertEvent" /\ op' = op /\ held' = held
        /\ held[c].id \in Ids /\ op[c].status \in Statuses
    BY <1>4, <1>t DEF UpdateRow, Goto, Client, StatusStatements
  <2>2. CASE HasRow(held[c].id)
    <3>1. status'[held[c].id] = op[c].status BY <2>1, <2>2, <1>4, <1>t DEF UpdateRow
    <3>2. op[c].status \in InProgress \union {"running"} \union Final BY <2>1 DEF Statuses
    <3> QED BY <2>1, <3>1, <3>2, <1>t DEF Drives, StatusStatements, Past
  <2>3. CASE ~HasRow(held[c].id)
    <3>1. status' = status BY <2>3, <1>4 DEF UpdateRow
    <3> QED BY <2>1, <3>1, <1>t DEF Drives, StatusStatements
  <2> QED BY <2>2, <2>3
<1>5. CASE InsertEvent(c)
  <2>1. /\ pc[c] = "insertEvent" /\ pc'[c] = "idle" /\ status' = status
    BY <1>5, <1>t DEF InsertEvent, End
  <2>2. CASE Throw(c) BY <2>1, <2>2, <1>t, DrivesToFailed
  <2>3. CASE Proceed(c)
    <3>1. CASE held[c].mine /\ Follow(op[c].status) # {}
      <4>1. op[c].status \in {"pulling", "starting"} BY <3>1 DEF Follow
      <4>2. status[held[c].id] \in InProgress \union Past
        BY <4>1, <3>1, <2>1, <1>t DEF Drives, Final
      <4>3. held'[c] = [held[c] EXCEPT !.next = Follow(op[c].status)]
        BY <2>3, <3>1, <1>t DEF Proceed
      <4>4. held'[c].id = held[c].id /\ held'[c].mine BY <4>3, <3>1, <1>t DEF Works
      <4> QED BY <4>2, <4>4, <2>1 DEF Drives
    <3>2. CASE ~(held[c].mine /\ Follow(op[c].status) # {})
      <4>1. held'[c] = NoWork BY <2>3, <3>2, <1>t DEF Proceed
      <4> QED BY <4>1, <2>1, DrivesNothing DEF StatusStatements
    <3> QED BY <3>1, <3>2
  <2> QED BY <2>2, <2>3, <1>5 DEF InsertEvent
<1> QED BY <1>1, <1>2, <1>3, <1>4, <1>5 DEF Statement, AppStatement

-----------------------------------------------------------------------------
(* No two deploys drive the same deployment. *)

LEMMA StepApart ==
    ASSUME DInv, NEW c \in Clients, StepOf(c)
    PROVE  Apart'
<1>t. /\ IInv /\ Apart /\ held \in [Clients -> Works] /\ seq \in Nat
      /\ \A x \in Clients : held[x].id \in Nat /\ held[x].id < seq
      /\ \A x \in Clients : x # c => held'[x] = held[x]
  BY Elsewhere, StoreAssumption DEF DInv, IInv, StoreTypeOK, Client, Works, Unmoved
<1>1. ASSUME held'[c].mine => held[c].mine /\ held'[c].id = held[c].id
      PROVE  Apart'
  BY <1>1, <1>t DEF Apart
<1>2. ASSUME held'[c].id = seq PROVE Apart'
  <2>1. \A x \in Clients : x # c => held'[x].id # held'[c].id BY <1>2, <1>t
  <2> QED BY <2>1, <1>t DEF Apart
<1>3. ASSUME Throw(c) \/ Proceed(c) \/ held'[c] = NoWork \/ held' = held
      PROVE  Apart'
  <2>1. \A S : /\ [held[c] EXCEPT !.next = S].mine = held[c].mine
               /\ [held[c] EXCEPT !.next = S].id = held[c].id
    BY <1>t DEF Works
  <2>2. ~NoWork.mine BY DEF NoWork
  <2>3. held'[c] = held[c] \/ held'[c] = NoWork
        \/ \E S : held'[c] = [held[c] EXCEPT !.next = S]
    BY <1>3, <1>t, ThrowIs DEF Proceed
  <2>4. held'[c].mine => held[c].mine /\ held'[c].id = held[c].id BY <2>1, <2>2, <2>3
  <2> QED BY <2>4, <1>1
<1>4. CASE Begins(c) \/ (\E a \in AppNames : Deploy(c, a)) \/ SqlError(c) \/ Crash(c)
  BY <1>3, <1>4, <1>t DEF Begins, Delete, Create, Set, SetDeploymentStatus, Deploy, SqlError, Crash
<1>5. CASE \E d \in Ids : Look(c, d)
  <2>1. ~held'[c].mine BY <1>5, <1>t DEF Look
  <2> QED BY <2>1, <1>1
<1>6. CASE InsertRow(c) /\ Exists(op[c].app)
  <2>1. held'[c].id = seq BY <1>6, <1>t DEF InsertRow
  <2> QED BY <2>1, <1>2
<1>7. CASE Statement(c) /\ ~(InsertRow(c) /\ Exists(op[c].app))
  BY <1>3, <1>7, <1>t
     DEF Statement, FindForEnv, FindApp, HostnameOwner, InsertApp, UpdateApp, FindRunning,
         DeleteRow, FindInFlight, InsertRow, InsertPending, GetRow, UpdateRow, InsertEvent
<1> QED BY <1>4, <1>5, <1>6, <1>7, Sorted

-----------------------------------------------------------------------------
(* How far the deployments have come is known however operations cross. *)

(* A status is written to a row, and an app's name is never NoApp. *)
LEMMA StepEntered ==
    ASSUME DInv, NEW c \in Clients, StepOf(c)
    PROVE  Entered'
<1>t. /\ IInv /\ Entered /\ status \in [Ids -> Statuses \union {"none", "deleted"}]
      /\ owner \in [Ids -> AppNames \union {NoApp}]
  BY DEF DInv, IInv, StoreTypeOK
<1>1. CASE UNCHANGED <<status, owner>> BY <1>1, <1>t DEF Entered
<1>2. CASE /\ InsertRow(c) /\ status' = [status EXCEPT ![seq] = "pending"]
           /\ owner' = [owner EXCEPT ![seq] = op[c].app]
  BY <1>2, <1>t, WrittenIds DEF Entered
<1>3. CASE /\ UpdateRow(c) /\ HasRow(held[c].id) /\ UNCHANGED owner
           /\ status' = [status EXCEPT ![held[c].id] = op[c].status]
  <2>1. op[c].status # "none" BY <1>3, <1>t, WrittenIds DEF Statuses, InProgress, Final
  <2> QED BY <1>3, <2>1, <1>t DEF Entered
<1>4. CASE /\ UNCHANGED owner
           /\ \A d \in Ids : status'[d] = IF owner[d] = op[c].app THEN "deleted" ELSE status[d]
  BY <1>4, <1>t DEF Entered
<1> QED BY <1>1, <1>2, <1>3, <1>4, <1>t, StatusWrites

LEMMA DInvInit == StoreInit => DInv
<1> SUFFICES ASSUME StoreInit PROVE DInv OBVIOUS
<1>1. IInv BY InvInit
<1>2. \A c \in Clients : pc[c] = "idle" /\ held[c] = NoWork BY DEF StoreInit
<1>3. Apart BY <1>2 DEF Apart, NoWork
<1>4. \A c \in Clients : Drives(c) BY <1>2 DEF Drives, NoWork, StatusStatements
<1>5. Entered BY DEF Entered, StoreInit
<1> QED BY <1>1, <1>3, <1>4, <1>5 DEF DInv

LEMMA DInvNext == DInv /\ [StoreNext]_storeVars => DInv'
<1> SUFFICES ASSUME DInv, [StoreNext]_storeVars PROVE DInv' OBVIOUS
<1>0. IInv' BY InvNext DEF DInv
<1>1. CASE StoreNext
  <2>1. PICK c \in Clients : StepOf(c) BY <1>1, NextIsOnes
  <2>2. Apart' BY <2>1, StepApart
  <2>3. Drives(c)' BY <2>1, AppDrives, BeginDrives, StatusDrives
  <2>4. \A x \in Clients : x # c => Drives(x)' BY <2>1, OthersDrive
  <2>5. Entered' BY <2>1, StepEntered
  <2> QED BY <1>0, <2>2, <2>3, <2>4, <2>5 DEF DInv
<1>2. CASE UNCHANGED storeVars
  <2>1. Apart' /\ Entered' BY <1>2 DEF DInv, Apart, Entered, storeVars
  <2>2. \A x \in Clients : Drives(x)' BY <1>2 DEF DInv, Drives, storeVars
  <2> QED BY <1>0, <2>1, <2>2 DEF DInv
<1> QED BY <1>1, <1>2

LEMMA DInvAlways == StoreSpec => []DInv
<1> QED BY DInvInit, DInvNext, PTL DEF StoreSpec

-----------------------------------------------------------------------------
(* The row a process is about to update is not finished. *)

(* Where a process can be after its step. *)
LEMMA Arrives ==
    ASSUME StoreTypeOK, NEW c \in Clients, StepOf(c)
    PROVE  /\ pc'[c] = "updateRow" => GetRow(c) /\ MayChange(held[c].id) /\ held' = held
           /\ pc'[c] = "deleteRow" => FindRunning(c) /\ Running(op[c].app) = {} /\ op' = op
           /\ pc'[c] = "insertRow" =>
                 FindInFlight(c) /\ Of(op[c].app, InProgress) = {} /\ op' = op
<1>t. pc \in [Clients -> Statements] BY DEF StoreTypeOK
<1>1. CASE Begins(c) \/ \E a \in AppNames : Deploy(c, a)
  BY <1>1, <1>t DEF Begins, Delete, Create, Set, SetDeploymentStatus, Deploy, Begin
<1>2. CASE (\E d \in Ids : Look(c, d)) \/ SqlError(c) \/ Crash(c)
  BY <1>2, <1>t DEF Look, SqlError, Crash, End
<1>3. CASE FindForEnv(c) \/ FindApp(c) \/ HostnameOwner(c) \/ InsertApp(c) \/ UpdateApp(c) \/ DeleteRow(c)
  BY <1>3, <1>t DEF FindForEnv, FindApp, AfterFind, HostnameOwner, InsertApp, UpdateApp, DeleteRow,
                    Goto, GotoWith, End
<1>4. CASE FindRunning(c) BY <1>4, <1>t DEF FindRunning, Goto, End
<1>5. CASE FindInFlight(c) BY <1>5, <1>t DEF FindInFlight, Goto, End
<1>6. CASE InsertRow(c) \/ InsertPending(c) \/ UpdateRow(c) \/ InsertEvent(c)
  BY <1>6, <1>t DEF InsertRow, InsertPending, UpdateRow, InsertEvent, Goto, End
<1>7. CASE GetRow(c) BY <1>7, <1>t DEF GetRow, Goto, End
<1> QED BY <1>1, <1>2, <1>3, <1>4, <1>5, <1>6, <1>7, Sorted DEF Statement

AllUnfinished == \A c \in Clients : Unfinished(c)

LEMMA UnfinishedNext == IInv /\ OneUpdater /\ AllUnfinished /\ [StoreNext]_storeVars => AllUnfinished'
<1> SUFFICES ASSUME IInv, OneUpdater, AllUnfinished, [StoreNext]_storeVars, NEW x \in Clients
             PROVE  Unfinished(x)'
  BY DEF AllUnfinished
<1>t. /\ StoreTypeOK /\ status \in [Ids -> Statuses \union {"none", "deleted"}] /\ Unfinished(x)
      /\ seq \in Nat
  BY StoreAssumption DEF IInv, StoreTypeOK, AllUnfinished
<1>1. CASE UNCHANGED storeVars BY <1>1, <1>t DEF storeVars, Unfinished
<1>2. ASSUME NEW c \in Clients, StepOf(c), x = c PROVE Unfinished(x)'
  BY <1>2, <1>t, Arrives DEF GetRow, Read, tables, MayChange, Unfinished
<1>3. ASSUME NEW c \in Clients, StepOf(c), x # c, pc[x] = "updateRow" PROVE Unfinished(x)'
  <2>1. Unmoved(x) /\ held[x].id \in Ids /\ held[x].id < seq
    BY <1>t, <1>3, Elsewhere DEF IInv, Client, StatusStatements
  <2>2. UpdateRow(c) => held[c].id # held[x].id BY <1>3 DEF UpdateRow, OneUpdater
  <2>3. CASE status' = [status EXCEPT ![seq] = "pending"] BY <1>t, <2>1, <2>3 DEF Unmoved, Unfinished
  <2>4. CASE UpdateRow(c) /\ status' = [status EXCEPT ![held[c].id] = op[c].status]
    BY <1>t, <2>1, <2>2, <2>4 DEF Unmoved, Unfinished
  <2>5. CASE \A d \in Ids : status'[d] = IF owner[d] = op[c].app THEN "deleted" ELSE status[d]
    BY <1>t, <2>1, <2>5 DEF Unmoved, Unfinished, Final
  <2>6. CASE UNCHANGED status BY <1>t, <2>1, <2>6 DEF Unmoved, Unfinished
  <2> QED BY <1>t, <1>3, <2>3, <2>4, <2>5, <2>6, StatusWrites
<1>4. ASSUME NEW c \in Clients, StepOf(c), x # c, pc[x] # "updateRow" PROVE Unfinished(x)'
  BY <1>t, <1>4, Elsewhere DEF Unmoved, Unfinished
<1> QED BY <1>1, <1>2, <1>3, <1>4, NextIsOnes

LEMMA UnfinishedAlways == StoreSpec /\ []OneUpdater => []AllUnfinished
<1>1. StoreInit => AllUnfinished BY DEF StoreInit, AllUnfinished, Unfinished
<1> QED BY <1>1, UnfinishedNext, InvAlways, PTL DEF StoreSpec

(* What is failed, stopped or replaced stays so, until its app is deleted, *)
(* unless two processes are at the UPDATE of the same deployment at once.  *)
THEOREM FinalStaysUncrossed == StoreSpec /\ []OneUpdater => FinalStays
<1> DEFINE Stays == \A d \in Ids : status[d] \in Final => status'[d] \in {status[d], "deleted"}
<1>1. ASSUME IInv, AllUnfinished, [StoreNext]_storeVars PROVE Stays
  <2>t. status \in [Ids -> Statuses \union {"none", "deleted"}] BY <1>1 DEF IInv, StoreTypeOK
  <2>1. CASE UNCHANGED storeVars BY <2>1 DEF storeVars
  <2>2. ASSUME NEW c \in Clients, StepOf(c) PROVE Stays
    <3>1. CASE InsertRow(c) /\ status' = [status EXCEPT ![seq] = "pending"]
      BY <1>1, <2>t, <2>2, <3>1, WrittenIds DEF Final
    <3>2. CASE UpdateRow(c) /\ status' = [status EXCEPT ![held[c].id] = op[c].status]
      <4>1. status[held[c].id] \notin Final
        BY <1>1, <2>2, <3>2 DEF AllUnfinished, Unfinished, UpdateRow
      <4> QED BY <2>t, <3>2, <4>1
    <3> QED BY <1>1, <2>2, <3>1, <3>2, StatusWrites
  <2> QED BY <1>1, <2>1, <2>2, NextIsOnes
<1>2. IInv /\ AllUnfinished /\ [StoreNext]_storeVars => [Stays]_storeVars BY <1>1
<1>3. StoreSpec /\ []OneUpdater => [][Stays]_storeVars
  BY <1>2, UnfinishedAlways, InvAlways, PTL DEF StoreSpec
<1> QED BY <1>3 DEF FinalStays

-----------------------------------------------------------------------------
(* The app a process is about to delete has nothing running. *)

AllNoneRun == \A c \in Clients : NoneRuns(c)

LEMMA NoneRunNext == IInv /\ DeletesBelow /\ AllNoneRun /\ [StoreNext]_storeVars => AllNoneRun'
<1> SUFFICES ASSUME IInv, DeletesBelow, AllNoneRun, [StoreNext]_storeVars, NEW x \in Clients
             PROVE  NoneRuns(x)'
  BY DEF AllNoneRun
<1>t. /\ StoreTypeOK /\ status \in [Ids -> Statuses \union {"none", "deleted"}] /\ NoneRuns(x)
      /\ owner \in [Ids -> AppNames \union {NoApp}]
  BY DEF IInv, StoreTypeOK, AllNoneRun
<1>1. CASE UNCHANGED storeVars BY <1>1, <1>t DEF storeVars, NoneRuns, Running, Of
<1>2. ASSUME NEW c \in Clients, StepOf(c), x = c PROVE NoneRuns(x)'
  BY <1>2, <1>t, Arrives DEF FindRunning, Read, tables, NoneRuns, Running, Of
<1>3. ASSUME NEW c \in Clients, StepOf(c), x # c, pc[x] = "deleteRow" PROVE NoneRuns(x)'
  <2>1. Unmoved(x) BY <1>t, <1>3, Elsewhere
  <2>2. \A d \in Ids : owner[d] = op[x].app => status[d] # "running"
    BY <1>t, <1>3 DEF NoneRuns, Running, Of
  <2>3. \A d \in Ids : owner'[d] = op[x].app => status'[d] # "running"
    <3>1. CASE UNCHANGED <<status, owner>> BY <2>2, <3>1
    <3>2. CASE /\ status' = [status EXCEPT ![seq] = "pending"]
               /\ owner' = [owner EXCEPT ![seq] = op[c].app]
      BY <1>t, <2>2, <3>2
    <3>3. CASE /\ UpdateRow(c) /\ UNCHANGED owner
               /\ status' = [status EXCEPT ![held[c].id] = op[c].status]
      <4>1. op[c].status = "running" => owner[held[c].id] # op[x].app
        BY <1>3, <3>3 DEF UpdateRow, DeletesBelow
      <4> QED BY <1>t, <2>2, <3>3, <4>1
    <3>4. CASE /\ UNCHANGED owner
               /\ \A d \in Ids : status'[d] = IF owner[d] = op[c].app THEN "deleted" ELSE status[d]
      BY <2>2, <3>4
    <3> QED BY <1>3, <3>1, <3>2, <3>3, <3>4, StatusWrites
  <2> QED BY <2>1, <2>3 DEF Unmoved, NoneRuns, Running, Of
<1>4. ASSUME NEW c \in Clients, StepOf(c), x # c, pc[x] # "deleteRow" PROVE NoneRuns(x)'
  BY <1>t, <1>4, Elsewhere DEF Unmoved, NoneRuns
<1> QED BY <1>1, <1>2, <1>3, <1>4, NextIsOnes

LEMMA NoneRunAlways == StoreSpec /\ []DeletesBelow => []AllNoneRun
<1>1. StoreInit => AllNoneRun BY DEF StoreInit, AllNoneRun, NoneRuns
<1> QED BY <1>1, NoneRunNext, InvAlways, PTL DEF StoreSpec

(* No app is deleted under a deployment that runs, unless the DELETE meets *)
(* the UPDATE that makes it run.                                           *)
THEOREM RunningNotDeletedUncrossed == StoreSpec /\ []DeletesBelow => RunningNotDeleted
<1> DEFINE Kept == \A d \in Ids : status[d] = "running" => status'[d] # "deleted"
<1>1. ASSUME IInv, AllNoneRun, [StoreNext]_storeVars PROVE Kept
  <2>t. status \in [Ids -> Statuses \union {"none", "deleted"}] BY <1>1 DEF IInv, StoreTypeOK
  <2>1. CASE UNCHANGED storeVars BY <2>1 DEF storeVars
  <2>2. ASSUME NEW c \in Clients, StepOf(c) PROVE Kept
    <3>1. CASE InsertRow(c) /\ status' = [status EXCEPT ![seq] = "pending"] BY <2>t, <3>1
    <3>2. CASE UpdateRow(c) /\ status' = [status EXCEPT ![held[c].id] = op[c].status]
      <4>1. op[c].status # "deleted"
        BY <1>1, <2>2, <3>2, WrittenIds DEF Statuses, InProgress, Final
      <4> QED BY <2>t, <3>2, <4>1
    <3>3. CASE /\ DeleteRow(c)
               /\ \A d \in Ids : status'[d] = IF owner[d] = op[c].app THEN "deleted" ELSE status[d]
      BY <1>1, <2>2, <3>3 DEF AllNoneRun, NoneRuns, DeleteRow, Running, Of
    <3> QED BY <1>1, <2>2, <3>1, <3>2, <3>3, StatusWrites
  <2> QED BY <1>1, <2>1, <2>2, NextIsOnes
<1>2. IInv /\ AllNoneRun /\ [StoreNext]_storeVars => [Kept]_storeVars BY <1>1
<1>3. StoreSpec /\ []DeletesBelow => [][Kept]_storeVars
  BY <1>2, NoneRunAlways, InvAlways, PTL DEF StoreSpec
<1> QED BY <1>3 DEF RunningNotDeleted

-----------------------------------------------------------------------------
(* The app a process is about to insert a deployment of has none in        *)
(* flight.                                                                 *)

(* An update moves a deployment on, or ends it. *)
LEMMA UpdateMoves ==
    ASSUME DInv, AllUnfinished, NEW c \in Clients, UpdateRow(c), HasRow(held[c].id)
    PROVE  \/ status[held[c].id] \in InProgress
           \/ status[held[c].id] = "running" /\ op[c].status \in Final
<1>1. /\ pc[c] = "updateRow" /\ held[c].id \in Ids /\ op[c].status \in Statuses /\ Drives(c)
  BY WrittenIds DEF UpdateRow, DInv
<1>2. status[held[c].id] \in InProgress \union {"running"}
  BY <1>1 DEF AllUnfinished, Unfinished, HasRow, Statuses
<1> QED BY <1>1, <1>2 DEF Drives, StatusStatements, Past, InProgress, Final

AllNoneInFlight == \A c \in Clients : NoneInFlight(c)

LEMMA NoneInFlightNext ==
    DInv /\ OneInserter /\ AllUnfinished /\ AllNoneInFlight /\ [StoreNext]_storeVars
        => AllNoneInFlight'
<1> SUFFICES ASSUME DInv, OneInserter, AllUnfinished, AllNoneInFlight, [StoreNext]_storeVars,
                    NEW x \in Clients
             PROVE  NoneInFlight(x)'
  BY DEF AllNoneInFlight
<1>t. /\ IInv /\ StoreTypeOK /\ NoneInFlight(x)
      /\ status \in [Ids -> Statuses \union {"none", "deleted"}]
      /\ owner \in [Ids -> AppNames \union {NoApp}]
  BY DEF DInv, IInv, StoreTypeOK, AllNoneInFlight
<1>1. CASE UNCHANGED storeVars BY <1>1, <1>t DEF storeVars, NoneInFlight, Of
<1>2. ASSUME NEW c \in Clients, StepOf(c), x = c PROVE NoneInFlight(x)'
  BY <1>2, <1>t, Arrives DEF FindInFlight, Read, tables, NoneInFlight, Of
<1>3. ASSUME NEW c \in Clients, StepOf(c), x # c, pc[x] = "insertRow" PROVE NoneInFlight(x)'
  <2>1. Unmoved(x) BY <1>t, <1>3, Elsewhere
  <2>2. \A d \in Ids : owner[d] = op[x].app => status[d] \notin InProgress
    BY <1>t, <1>3 DEF NoneInFlight, Of
  <2>3. \A d \in Ids : owner'[d] = op[x].app => status'[d] \notin InProgress
    <3>1. CASE UNCHANGED <<status, owner>> BY <2>2, <3>1
    <3>2. CASE /\ InsertRow(c) /\ status' = [status EXCEPT ![seq] = "pending"]
               /\ owner' = [owner EXCEPT ![seq] = op[c].app]
      <4>1. op[c].app # op[x].app BY <1>3, <3>2 DEF InsertRow, OneInserter
      <4> QED BY <1>t, <1>3, <2>2, <3>2, <4>1, WrittenIds
    <3>3. CASE /\ UpdateRow(c) /\ HasRow(held[c].id) /\ UNCHANGED owner
               /\ status' = [status EXCEPT ![held[c].id] = op[c].status]
      <4>1. op[c].status \in InProgress => status[held[c].id] \in InProgress
        BY <1>3, <3>3, UpdateMoves DEF InProgress, Final
      <4> QED BY <1>t, <2>2, <3>3, <4>1
    <3>4. CASE /\ UNCHANGED owner
               /\ \A d \in Ids : status'[d] = IF owner[d] = op[c].app THEN "deleted" ELSE status[d]
      BY <2>2, <3>4 DEF InProgress
    <3> QED BY <1>t, <1>3, <3>1, <3>2, <3>3, <3>4, StatusWrites
  <2> QED BY <2>1, <2>3 DEF Unmoved, NoneInFlight, Of
<1>4. ASSUME NEW c \in Clients, StepOf(c), x # c, pc[x] # "insertRow" PROVE NoneInFlight(x)'
  BY <1>t, <1>4, Elsewhere DEF Unmoved, NoneInFlight
<1> QED BY <1>1, <1>2, <1>3, <1>4, NextIsOnes

LEMMA NoneInFlightAlways ==
    StoreSpec /\ []OneInserter /\ []OneUpdater => []AllNoneInFlight
<1>1. StoreInit => AllNoneInFlight BY DEF StoreInit, AllNoneInFlight, NoneInFlight
<1> QED BY <1>1, NoneInFlightNext, UnfinishedAlways, DInvAlways, PTL DEF StoreSpec

(* No app has two deployments in flight, unless two deploys of it are at   *)
(* their INSERT at once, or a late UPDATE revives one that was finished    *)
(* meanwhile.                                                              *)
THEOREM StoreOneInFlightUncrossed ==
    StoreSpec /\ []OneInserter /\ []OneUpdater => []StoreOneInFlight
<1>1. StoreInit => StoreOneInFlight BY DEF StoreInit, StoreOneInFlight, InProgress
<1>2. DInv /\ AllUnfinished /\ AllNoneInFlight /\ StoreOneInFlight /\ [StoreNext]_storeVars
        => StoreOneInFlight'
  <2> SUFFICES ASSUME DInv, AllUnfinished, AllNoneInFlight, StoreOneInFlight, [StoreNext]_storeVars
               PROVE  StoreOneInFlight'
    OBVIOUS
  <2>t. /\ IInv /\ status \in [Ids -> Statuses \union {"none", "deleted"}]
        /\ owner \in [Ids -> AppNames \union {NoApp}]
    BY DEF DInv, IInv, StoreTypeOK
  <2>1. CASE UNCHANGED storeVars BY <2>1 DEF storeVars, StoreOneInFlight
  <2>2. ASSUME NEW c \in Clients, StepOf(c) PROVE StoreOneInFlight'
    <3>1. CASE UNCHANGED <<status, owner>> BY <3>1 DEF StoreOneInFlight
    <3>2. CASE /\ InsertRow(c) /\ status' = [status EXCEPT ![seq] = "pending"]
               /\ owner' = [owner EXCEPT ![seq] = op[c].app]
      <4>1. \A d \in Ids : owner[d] = op[c].app => status[d] \notin InProgress
        BY <2>2, <3>2 DEF AllNoneInFlight, NoneInFlight, Of, InsertRow
      <4>2. seq \in Ids BY <2>t, <2>2, <3>2, WrittenIds
      <4>3. \A d \in Ids : d # seq => status'[d] = status[d] /\ owner'[d] = owner[d]
        BY <2>t, <3>2
      <4>4. owner'[seq] = op[c].app BY <2>t, <3>2, <4>2
      <4> QED BY <4>1, <4>3, <4>4 DEF StoreOneInFlight
    <3>3. CASE /\ UpdateRow(c) /\ HasRow(held[c].id) /\ UNCHANGED owner
               /\ status' = [status EXCEPT ![held[c].id] = op[c].status]
      <4>1. op[c].status \in InProgress => status[held[c].id] \in InProgress
        BY <2>2, <3>3, UpdateMoves DEF InProgress, Final
      <4>2. \A d \in Ids : status'[d] \in InProgress => status[d] \in InProgress
        BY <2>t, <3>3, <4>1
      <4> QED BY <3>3, <4>2 DEF StoreOneInFlight
    <3>4. CASE /\ UNCHANGED owner
               /\ \A d \in Ids : status'[d] = IF owner[d] = op[c].app THEN "deleted" ELSE status[d]
      <4>1. \A d \in Ids : status'[d] \in InProgress => status[d] \in InProgress
        BY <3>4 DEF InProgress
      <4> QED BY <3>4, <4>1 DEF StoreOneInFlight
    <3> QED BY <2>t, <2>2, <3>1, <3>2, <3>3, <3>4, StatusWrites
  <2> QED BY <2>1, <2>2, NextIsOnes
<1> QED BY <1>1, <1>2, NoneInFlightAlways, UnfinishedAlways, DInvAlways, PTL DEF StoreSpec

-----------------------------------------------------------------------------
(* What a set has read of the app it sets. *)

(* Anywhere else there is nothing to know. *)
LEMMA KnowsNoApp ==
    ASSUME NEW x \in Clients, pc'[x] \notin {"findApp", "hostnameOwner", "updateApp"}
    PROVE  KnowsApp(x)'
BY DEF KnowsApp

(* What the first two reads find. *)
LEMMA FindsApp ==
    ASSUME IInv, NEW c \in Clients, KnowsApp(c), FindForEnv(c) \/ FindApp(c)
    PROVE  KnowsApp(c)'
<1>t. /\ op \in [Clients -> Ops] /\ pc \in [Clients -> Statements] /\ row \in [Clients -> AppRows]
      /\ UNCHANGED tables /\ op[c].app \in AppNames /\ Client(c)
      /\ op[c].kind \in {"none", "create", "set", "delete", "deploy", "status"}
  <2>1. UNCHANGED tables /\ pc[c] \in AppStatements
    BY DEF FindForEnv, FindApp, Read, AppStatements
  <2> QED BY <2>1 DEF IInv, StoreTypeOK, Client, Ops
<1>1. CASE End(c) BY <1>1, <1>t, KnowsNoApp DEF End
<1>2. CASE FindForEnv(c) /\ ~End(c)
  <2>1. /\ Exists(op[c].app) /\ pc'[c] = "findApp" /\ op' = op /\ app' = app
        /\ row'[c] = [NoAppRow EXCEPT !.env = NewEnv(c)]
    BY <1>2, <1>t DEF FindForEnv, Exists, GotoWith, NewEnv, tables
  <2>2. row'[c].env = NewEnv(c) BY <2>1 DEF NoAppRow
  <2> QED BY <2>1, <2>2 DEF KnowsApp, Exists, NewEnv
<1>3. CASE FindApp(c) /\ ~End(c)
  <2>1. op' = op /\ app' = app BY <1>3, <1>t DEF FindApp, AfterFind, Goto, GotoWith, tables
  <2>2. CASE op[c].kind = "create"
    <3>1. pc'[c] \in {"insertApp", "hostnameOwner"}
      BY <1>3, <1>t, <2>2 DEF FindApp, AfterFind, GotoWith
    <3> QED BY <3>1, <2>1, <2>2 DEF KnowsApp
  <2>3. CASE op[c].kind = "set"
    <3>1. /\ pc'[c] \in {"updateApp", "hostnameOwner"} /\ Exists(op[c].app)
          /\ row'[c] = Merged(c, app[op[c].app])
      BY <1>3, <1>t, <2>3 DEF FindApp, AfterFind, GotoWith, Exists
    <3>2. row[c].env = NewEnv(c) BY <1>3, <2>3 DEF KnowsApp, FindApp, Read
    <3>3. /\ op[c].host = Keep => row'[c].host = app[op[c].app].host
          /\ row'[c].env = IF NamesEnv(c) THEN NewEnv(c) ELSE app[op[c].app].env
      BY <3>1, <3>2 DEF Merged
    <3> QED BY <3>1, <3>3, <2>1, <2>3 DEF KnowsApp, Exists, NewEnv, NamesEnv
  <2>4. CASE op[c].kind = "delete"
    BY <1>3, <1>t, <2>4, KnowsNoApp DEF FindApp, Goto
  <2> QED BY <1>3, <2>2, <2>3, <2>4 DEF FindApp
<1> QED BY <1>1, <1>2, <1>3

LEMMA StatementKnowsApp ==
    ASSUME IInv, NEW c \in Clients, KnowsApp(c), Statement(c)
    PROVE  KnowsApp(c)'
<1>t. op \in [Clients -> Ops] /\ pc \in [Clients -> Statements]
  BY DEF IInv, StoreTypeOK
<1>1. CASE End(c) BY <1>1, <1>t, KnowsNoApp DEF End
<1>2. CASE FindForEnv(c) \/ FindApp(c) BY <1>2, FindsApp
<1>3. CASE HostnameOwner(c) /\ ~End(c)
  <2>1. /\ pc[c] = "hostnameOwner" /\ UNCHANGED <<op, row, app>>
        /\ pc'[c] = IF op[c].kind = "create" THEN "insertApp" ELSE "updateApp"
    BY <1>3, <1>t DEF HostnameOwner, Goto, Read, tables
  <2> QED BY <2>1 DEF KnowsApp, NewEnv, NamesEnv, Exists
<1>4. CASE /\ ~End(c)
           /\ FindRunning(c) \/ FindInFlight(c) \/ InsertRow(c) \/ InsertPending(c) \/ GetRow(c) \/ UpdateRow(c)
  BY <1>4, <1>t, KnowsNoApp
     DEF FindRunning, FindInFlight, InsertRow, InsertPending, GetRow, UpdateRow, Goto
<1> QED BY <1>1, <1>2, <1>3, <1>4
        DEF Statement, InsertApp, UpdateApp, DeleteRow, InsertEvent

(* What is not a statement leaves a process where it knows nothing of an   *)
(* app, or has yet to read it.                                             *)
LEMMA BeginKnowsApp ==
    ASSUME IInv, NEW c \in Clients, KnowsApp(c), StepOf(c), ~Statement(c)
    PROVE  KnowsApp(c)'
<1>t. op \in [Clients -> Ops] /\ pc \in [Clients -> Statements]
  BY DEF IInv, StoreTypeOK
<1>1. CASE \E a \in AppNames : Delete(c, a)
  <2>1. PICK a \in AppNames : Delete(c, a) BY <1>1
  <2>2. op'[c] = [NoOp EXCEPT !.kind = "delete", !.app = a] /\ pc'[c] = "findApp"
    BY <2>1, <1>t DEF Delete, Begin
  <2>3. op'[c].kind = "delete" BY <2>2 DEF NoOp
  <2> QED BY <2>2, <2>3 DEF KnowsApp
<1>2. CASE \E a \in AppNames, h \in Hosts \union {NoHost}, env \in SUBSET Keys :
              Create(c, a, h, env)
  <2>1. PICK a \in AppNames, h \in Hosts \union {NoHost}, env \in SUBSET Keys :
              Create(c, a, h, env)
    BY <1>2
  <2>2. /\ op'[c] = [NoOp EXCEPT !.kind = "create", !.app = a, !.host = h, !.add = env]
        /\ pc'[c] = "findApp"
    BY <2>1, <1>t DEF Create, Begin
  <2>3. op'[c].kind = "create" BY <2>2 DEF NoOp
  <2> QED BY <2>2, <2>3 DEF KnowsApp
<1>3. CASE \/ \E a \in AppNames, h \in Hosts \union {NoHost, Keep}, add \in SUBSET Keys,
                  drop \in SUBSET Keys : Set(c, a, h, add, drop)
           \/ \E s \in Statuses : SetDeploymentStatus(c, s)
           \/ \E a \in AppNames : Deploy(c, a)
  BY <1>3, <1>t, KnowsNoApp DEF Set, SetDeploymentStatus, Deploy, Begin
<1>4. CASE \E d \in Ids : Look(c, d)
  BY <1>4, <1>t, KnowsNoApp DEF Look
<1>5. CASE SqlError(c) \/ Crash(c)
  BY <1>5, <1>t, KnowsNoApp DEF SqlError, Crash, End
<1> QED BY <1>1, <1>2, <1>3, <1>4, <1>5, Sorted DEF Begins


AllKnowApps == \A c \in Clients : KnowsApp(c)

(* The rows of the apps a process does not write. *)
LEMMA AppWrites ==
    ASSUME StoreTypeOK, NEW c \in Clients, StepOf(c), NEW a \in AppNames,
           pc[c] \in {"insertApp", "updateApp", "deleteRow"} => op[c].app # a
    PROVE  app'[a] = app[a]
<1>t. app \in [AppNames -> AppRows \union {NoRow}] BY DEF StoreTypeOK
<1>1. CASE ~Statement(c) BY <1>1, OnlyStatementsWrite DEF tables
<1>2. CASE InsertApp(c) BY <1>2, <1>t DEF InsertApp
<1>3. CASE UpdateApp(c) BY <1>3, <1>t DEF UpdateApp
<1>4. CASE DeleteRow(c) BY <1>4, <1>t DEF DeleteRow
<1> QED BY <1>1, <1>2, <1>3, <1>4
        DEF Statement, FindForEnv, FindApp, HostnameOwner, FindRunning, FindInFlight, InsertRow,
            InsertPending, GetRow, UpdateRow, InsertEvent, Read, tables

LEMMA KnowAppsNext == IInv /\ SetsAlone /\ AllKnowApps /\ [StoreNext]_storeVars => AllKnowApps'
<1> SUFFICES ASSUME IInv, SetsAlone, AllKnowApps, [StoreNext]_storeVars, NEW x \in Clients
             PROVE  KnowsApp(x)'
  BY DEF AllKnowApps
<1>t. StoreTypeOK /\ KnowsApp(x) BY DEF IInv, AllKnowApps
<1>1. CASE UNCHANGED storeVars
  BY <1>1, <1>t DEF storeVars, KnowsApp, NewEnv, NamesEnv, Exists
<1>2. ASSUME NEW c \in Clients, StepOf(c), x = c PROVE KnowsApp(x)'
  BY <1>2, <1>t, StatementKnowsApp, BeginKnowsApp
<1>3. ASSUME NEW c \in Clients, StepOf(c), x # c PROVE KnowsApp(x)'
  <2>1. Unmoved(x) BY <1>t, <1>3, Elsewhere
  <2>2. CASE pc[x] \notin {"findApp", "hostnameOwner", "updateApp"}
    BY <2>1, <2>2, KnowsNoApp DEF Unmoved
  <2>3. CASE pc[x] \in {"findApp", "hostnameOwner", "updateApp"} /\ op[x].kind # "set"
    BY <1>t, <2>1, <2>3 DEF Unmoved, KnowsApp
  <2>4. CASE pc[x] \in {"findApp", "hostnameOwner", "updateApp"} /\ op[x].kind = "set"
    <3>1. op[x].app \in AppNames BY <2>4 DEF IInv, Client, AppStatements
    <3>2. app'[op[x].app] = app[op[x].app]
      BY <1>t, <1>3, <2>4, <3>1, AppWrites DEF SetsAlone
    <3> QED BY <1>t, <2>1, <3>2 DEF Unmoved, KnowsApp, NewEnv, NamesEnv, Exists
  <2> QED BY <2>2, <2>3, <2>4
<1> QED BY <1>1, <1>2, <1>3, NextIsOnes

LEMMA KnowAppsAlways == StoreSpec /\ []SetsAlone => []AllKnowApps
<1>1. StoreInit => AllKnowApps BY DEF StoreInit, AllKnowApps, KnowsApp
<1> QED BY <1>1, KnowAppsNext, InvAlways, PTL DEF StoreSpec

(* An update writes what it names, and the rest as it found it. *)

LEMMA UpdateNamed ==
    ASSUME IInv, NEW c \in Clients, KnowsApp(c), UpdateApp(c),
           app'[op[c].app] # app[op[c].app]
    PROVE  /\ op[c].host = Keep => app'[op[c].app].host = app[op[c].app].host
           /\ \A k \in Keys \ (op[c].add \union op[c].drop) :
                 k \in app'[op[c].app].env <=> k \in app[op[c].app].env
<1>1. op[c].app \in AppNames /\ app \in [AppNames -> AppRows \union {NoRow}]
  BY DEF IInv, StoreTypeOK, Client, AppStatements, UpdateApp
<1>2. app'[op[c].app] = row[c] BY <1>1 DEF UpdateApp
<1>3. /\ op[c].host = Keep => row[c].host = app[op[c].app].host
      /\ row[c].env = IF NamesEnv(c) THEN NewEnv(c) ELSE app[op[c].app].env
  BY DEF KnowsApp, UpdateApp
<1> QED BY <1>2, <1>3 DEF NewEnv

(* An update changes only the fields it names, unless somebody else writes *)
(* the app between its reads and its write; also when the one before it    *)
(* was cut off between two statements.                                     *)
THEOREM UpdatesOnlyNamedUncrossed == StoreSpec /\ []SetsAlone => UpdatesOnlyNamed
<1> DEFINE Named ==
      \A c \in Clients :
        LET a == op[c].app
            old == app[a]
            new == app'[a]
        IN  UpdateApp(c) /\ new # old =>
                /\ op[c].host = Keep => new.host = old.host
                /\ \A k \in Keys \ (op[c].add \union op[c].drop) :
                      k \in new.env <=> k \in old.env
<1>1. IInv /\ AllKnowApps => Named BY UpdateNamed DEF AllKnowApps
<1>2. IInv /\ AllKnowApps /\ [StoreNext]_storeVars => [Named]_storeVars BY <1>1
<1>3. StoreSpec /\ []SetsAlone => [][Named]_storeVars
  BY <1>2, KnowAppsAlways, InvAlways, PTL DEF StoreSpec
<1> QED BY <1>3 DEF UpdatesOnlyNamed

-----------------------------------------------------------------------------
(* The life of the records *)

LEMMA LifeInit == StoreInit => Life!Init
BY DEF StoreInit, Life!Init, Exists, StageOf, InProgress, Final, Life!Ids

(* A stage tells what a status is. *)
LEMMA StageIs ==
    ASSUME StoreTypeOK, NEW d \in Ids
    PROVE  /\ StageOf(d) = "inFlight" <=> status[d] \in InProgress
           /\ StageOf(d) = "running" <=> status[d] = "running"
BY DEF StageOf, StoreTypeOK, Statuses, InProgress, Final

(* Rows of apps that stay, and statuses that stay: nothing happens. *)
LEMMA LifeStill ==
    ASSUME UNCHANGED <<owner, status, seq>>, \A a \in AppNames : Exists(a)' <=> Exists(a)
    PROVE  UNCHANGED Life!lifeVars
BY DEF Life!lifeVars, StageOf

(* A deployment that is not finished takes one of the steps a deployment   *)
(* can take.                                                               *)
LEMMA LifeMoves ==
    ASSUME StoreTypeOK, NEW d \in Ids, NEW s \in Statuses, UNCHANGED <<app, owner, seq>>,
           status' = [status EXCEPT ![d] = s],
           \/ status[d] \in InProgress
           \/ status[d] = "running" /\ s \in Final \union {"running"}
    PROVE  [Life!Next]_(Life!lifeVars)
<1> DEFINE stages == [e \in Ids |-> StageOf(e)]
<1>1. UNCHANGED <<{a \in AppNames : Exists(a)}, owner, seq>> BY DEF Exists
<1>2. stages' = [stages EXCEPT ![d] = StageOf(d)'] BY DEF StoreTypeOK, StageOf
<1>3. stages[d] = StageOf(d) OBVIOUS
<1>4. StageOf(d) \in {"inFlight", "running"}
  BY DEF StageOf, InProgress, Final
<1>5. StageOf(d)' = IF s \in InProgress THEN "inFlight"
                    ELSE IF s \in Final THEN "finished" ELSE "running"
  BY DEF StoreTypeOK, StageOf, Statuses
<1>6. CASE StageOf(d)' = StageOf(d)
  <2>1. stages' = stages BY <1>2, <1>6
  <2> QED BY <2>1, <1>1 DEF Life!lifeVars
<1>7. CASE StageOf(d)' # StageOf(d) /\ StageOf(d)' = "finished"
  <2>1. Life!Finish(d) BY <1>1, <1>2, <1>3, <1>4, <1>7 DEF Life!Finish
  <2> QED BY <2>1 DEF Life!Next, Life!Ids
<1>8. CASE StageOf(d)' # StageOf(d) /\ StageOf(d)' # "finished"
  <2>1. StageOf(d) = "inFlight" /\ StageOf(d)' = "running"
    BY <1>4, <1>5, <1>8 DEF StageOf, InProgress, Final
  <2>2. Life!Promote(d) BY <1>1, <1>2, <1>3, <2>1 DEF Life!Promote
  <2> QED BY <2>2 DEF Life!Next, Life!Ids
<1> QED BY <1>6, <1>7, <1>8

(* A deploy inserts a row for an app that is there. *)
LEMMA LifeStarts ==
    ASSUME DInv, NEW c \in Clients, InsertRow(c), Exists(op[c].app)
    PROVE  Life!Next
<1> DEFINE a == op[c].app
<1>1. a \in AppNames /\ seq \in Ids BY WrittenIds DEF DInv, InsertRow
<1>2. /\ owner' = [owner EXCEPT ![seq] = a] /\ status' = [status EXCEPT ![seq] = "pending"]
      /\ seq' = seq + 1 /\ app' = app
  BY DEF InsertRow
<1>3. status \in [Ids -> Statuses \union {"none", "deleted"}] BY DEF DInv, IInv, StoreTypeOK
<1> HIDE DEF a
<1>4. [d \in Ids |-> StageOf(d)]' = [[d \in Ids |-> StageOf(d)] EXCEPT ![seq] = "inFlight"]
  BY <1>1, <1>2, <1>3 DEF StageOf, InProgress
<1>5. Life!Start(a)
  BY <1>1, <1>2, <1>4, Exists(op[c].app) DEF Life!Start, Life!Ids, Exists, a
<1> QED BY <1>1, <1>5 DEF Life!Next

(* An app is deleted with nothing of it running. *)
LEMMA LifeRemoves ==
    ASSUME DInv, AllNoneRun, NEW c \in Clients, DeleteRow(c), Exists(op[c].app)
    PROVE  Life!Next
<1> DEFINE a == op[c].app
<1>1. a \in AppNames /\ Exists(a) /\ Running(a) = {}
  <2>1. pc[c] = "deleteRow" BY DEF DeleteRow
  <2> QED BY <2>1 DEF DInv, IInv, Client, AllNoneRun, NoneRuns, AppStatements
<1>2. /\ app' = [app EXCEPT ![a] = NoRow] /\ UNCHANGED <<owner, seq>>
      /\ status' = [d \in Ids |-> IF owner[d] = a THEN "deleted" ELSE status[d]]
  BY DEF DeleteRow, Cascade
<1>3. /\ status \in [Ids -> Statuses \union {"none", "deleted"}]
      /\ app \in [AppNames -> AppRows \union {NoRow}]
  BY DEF DInv, IInv, StoreTypeOK
<1> HIDE DEF a
<1>4. \A d \in Ids : StageOf(d) = "running" <=> status[d] = "running"
  BY StageIs DEF DInv, IInv
<1>5. Life!Of(a, "running") = {} BY <1>1, <1>4 DEF Life!Of, Life!Ids, Running, Of
<1>6. {b \in AppNames : Exists(b)}' = {b \in AppNames : Exists(b)} \ {a}
  BY <1>1, <1>2, <1>3 DEF Exists
<1>7. [d \in Ids |-> StageOf(d)]' =
        [d \in Ids |-> IF owner[d] = a THEN "deleted" ELSE [e \in Ids |-> StageOf(e)][d]]
  BY <1>2, <1>3 DEF StageOf, InProgress, Final
<1>8. Life!RemoveApp(a) BY <1>1, <1>2, <1>5, <1>6, <1>7 DEF Life!RemoveApp, Life!Ids
<1> QED BY <1>1, <1>8 DEF Life!Next

(* A second DELETE of the app finds nothing left of it. *)
LEMMA LifeRemoved ==
    ASSUME DInv, NEW c \in Clients, DeleteRow(c), ~Exists(op[c].app)
    PROVE  UNCHANGED Life!lifeVars
<1>t. /\ IInv /\ Entered /\ op[c].app \in AppNames
      /\ status \in [Ids -> Statuses \union {"none", "deleted"}]
      /\ app \in [AppNames -> AppRows \union {NoRow}]
  BY DEF DInv, IInv, StoreTypeOK, Client, AppStatements, DeleteRow
<1>1. app' = app /\ UNCHANGED <<owner, seq>> BY <1>t DEF DeleteRow, Exists
<1>2. \A d \in Ids : owner[d] = op[c].app => status[d] = "deleted"
  BY <1>t, StoreAssumption DEF IInv, Tables, NoOrphans, HasRow, Entered
<1>3. status' = status BY <1>t, <1>2 DEF DeleteRow, Cascade
<1> QED BY <1>1, <1>3, LifeStill DEF Exists

LEMMA LifeNext ==
    DInv /\ AllUnfinished /\ AllNoneRun /\ [StoreNext]_storeVars => [Life!Next]_(Life!lifeVars)
<1> SUFFICES ASSUME DInv, AllUnfinished, AllNoneRun, [StoreNext]_storeVars
             PROVE  [Life!Next]_(Life!lifeVars)
  OBVIOUS
<1>t. StoreTypeOK /\ IInv BY DEF DInv, IInv
<1>0. CASE UNCHANGED tables BY <1>0, LifeStill DEF tables, Exists
<1>1. ASSUME NEW c \in Clients, Statement(c), ~UNCHANGED tables
      PROVE  [Life!Next]_(Life!lifeVars)
  <2>1. CASE InsertApp(c)
    <3>1. op[c].app \in AppNames /\ row[c] # NoRow
      BY <1>t, <2>1, StoreAssumption DEF IInv, Client, AppStatements, InsertApp, StoreTypeOK
    <3>2. ~Exists(op[c].app) /\ app' = [app EXCEPT ![op[c].app] = row[c]]
      BY <1>1, <2>1 DEF InsertApp, tables
    <3>3. {b \in AppNames : Exists(b)}' = {b \in AppNames : Exists(b)} \union {op[c].app}
      BY <1>t, <3>1, <3>2 DEF Exists, StoreTypeOK
    <3>4. UNCHANGED <<owner, [d \in Ids |-> StageOf(d)], seq>>
      BY <2>1 DEF InsertApp, StageOf
    <3>5. Life!AddApp(op[c].app) BY <3>1, <3>2, <3>3, <3>4 DEF Life!AddApp
    <3> QED BY <3>1, <3>5 DEF Life!Next
  <2>2. CASE UpdateApp(c)
    <3>1. op[c].app \in AppNames /\ row[c] # NoRow
      BY <1>t, <2>2, StoreAssumption DEF IInv, Client, AppStatements, UpdateApp, StoreTypeOK
    <3>2. \A a \in AppNames : Exists(a)' <=> Exists(a)
      BY <1>t, <3>1, <2>2 DEF UpdateApp, Exists, StoreTypeOK
    <3> QED BY <3>2, <2>2, LifeStill DEF UpdateApp
  <2>3. CASE DeleteRow(c) BY <2>3, LifeRemoves, LifeRemoved
  <2>4. CASE InsertRow(c)
    <3>1. CASE Exists(op[c].app) BY <3>1, <2>4, LifeStarts
    <3>2. CASE ~Exists(op[c].app) BY <3>2, <2>4, <1>0 DEF InsertRow, tables
    <3> QED BY <3>1, <3>2
  <2>5. CASE InsertPending(c) \/ InsertEvent(c)
    BY <2>5, LifeStill DEF InsertPending, InsertEvent, Exists
  <2>6. CASE UpdateRow(c)
    <3>1. CASE HasRow(held[c].id)
      <4>1. held[c].id \in Ids /\ op[c].status \in Statuses BY <1>t, <2>6, WrittenIds
      <4>2. status' = [status EXCEPT ![held[c].id] = op[c].status] /\ UNCHANGED <<app, owner, seq>>
        BY <2>6, <3>1 DEF UpdateRow
      <4>3. \/ status[held[c].id] \in InProgress
            \/ status[held[c].id] = "running" /\ op[c].status \in Final
        BY <2>6, <3>1, UpdateMoves
      <4> QED BY <1>t, <4>1, <4>2, <4>3, LifeMoves
    <3>2. CASE ~HasRow(held[c].id) BY <1>1, <2>6, <3>2 DEF UpdateRow, tables
    <3> QED BY <3>1, <3>2
  <2> QED BY <1>1, <2>1, <2>2, <2>3, <2>4, <2>5, <2>6
          DEF Statement, FindForEnv, FindApp, HostnameOwner, FindRunning, FindInFlight, GetRow, Read
<1>2. CASE StoreNext
  <2>1. PICK c \in Clients : StepOf(c) BY <1>2, NextIsOnes
  <2> QED BY <2>1, <1>0, <1>1, OnlyStatementsWrite
<1>3. CASE UNCHANGED storeVars BY <1>3, <1>0 DEF storeVars, tables
<1> QED BY <1>2, <1>3

(* Unless operations cross in one of two ways the repositories keep what   *)
(* DeploymentLife promises, through every other interleaving, failed       *)
(* statements and kills between two statements.                            *)
THEOREM StoreImplementsLifeUncrossed ==
    StoreSpec /\ []OneUpdater /\ []DeletesBelow => StoreImplementsLife
<1>1. StoreInit => Life!Init BY LifeInit
<1> QED BY <1>1, LifeNext, DInvAlways, UnfinishedAlways, NoneRunAlways, PTL
        DEF StoreSpec, StoreImplementsLife, Life!Spec

-----------------------------------------------------------------------------
(* Rows without an event, however operations cross. *)

(* Whoever inserted a row without an event is about to record it. *)
Created == \A d \in Ids : Silent(d) => \E c \in Clients : pc[c] = "insertPending" /\ held[c].id = d

(* Nobody dies and no statement fails between the two inserts. *)
InsertsWhole == \A c \in Clients : pc[c] = "insertPending" => ~SqlError(c) /\ ~Crash(c)

LEMMA CreatedKept ==
    ASSUME IInv, [InsertsWhole]_storeVars, Created, [StoreNext]_storeVars
    PROVE  Created'
<1>t. StoreTypeOK BY DEF IInv
<1>1. CASE UNCHANGED storeVars BY <1>1 DEF storeVars, tables, Created, Silent, HasRow
<1>2. ASSUME NEW c \in Clients, StepOf(c) PROVE Created'
  <2>1. \A x \in Clients : x # c => pc'[x] = pc[x] /\ held'[x] = held[x]
    BY <1>t, <1>2, Elsewhere DEF Unmoved
  <2>2. CASE UNCHANGED storeVars BY <1>1, <2>2
  <2>3. CASE InsertPending(c)
    <3>1. /\ pc[c] = "insertPending" /\ UNCHANGED <<status, seq>>
          /\ log' = [log EXCEPT ![held[c].id] = IF HasRow(held[c].id) THEN Append(@, "pending") ELSE @]
      BY <2>3 DEF InsertPending, Record
    <3>2. ASSUME NEW d \in Ids, Silent(d)' PROVE Silent(d) /\ d # held[c].id
      <4>1. HasRow(d) BY <3>1, <3>2 DEF Silent, HasRow
      <4>2. CASE d = held[c].id
        <5>1. log'[d] = Append(log[d], "pending") BY <1>t, <3>1, <4>1, <4>2 DEF StoreTypeOK
        <5>2. log[d] \in Seq(Statuses) BY <1>t DEF StoreTypeOK
        <5>3. "pending" \in Statuses BY DEF Statuses, InProgress
        <5>4. log'[d] # <<>> BY <5>1, <5>2, <5>3
        <5> QED BY <3>2, <5>4 DEF Silent
      <4>3. CASE d # held[c].id
        <5>1. log'[d] = log[d] BY <1>t, <3>1, <4>3 DEF StoreTypeOK
        <5> QED BY <3>2, <4>1, <4>3, <5>1 DEF Silent
      <4> QED BY <4>2, <4>3
    <3> QED BY <2>1, <3>2 DEF Created
  <2>4. CASE InsertRow(c) /\ Exists(op[c].app)
    <3>1. /\ status' = [status EXCEPT ![seq] = "pending"] /\ log' = log
          /\ held' = [held EXCEPT ![c] = [id |-> seq, next |-> {}, mine |-> TRUE]]
          /\ pc' = [pc EXCEPT ![c] = "insertPending"] /\ pc[c] = "insertRow"
      BY <2>4 DEF InsertRow, Goto
    <3>2. pc'[c] = "insertPending" /\ held'[c].id = seq BY <1>t, <3>1 DEF StoreTypeOK
    <3>3. ASSUME NEW d \in Ids, Silent(d)', d # seq PROVE Silent(d)
      BY <1>t, <3>1, <3>3 DEF Silent, HasRow, StoreTypeOK
    <3> QED BY <2>1, <3>1, <3>2, <3>3 DEF Created
  <2>5. CASE InsertsWhole /\ ~InsertPending(c) /\ ~(InsertRow(c) /\ Exists(op[c].app))
    <3>1. pc[c] # "insertPending"
      BY <1>2, <2>5, Sorted DEF InsertsWhole, Begins, Delete, Create, Set, SetDeploymentStatus, Deploy, Begin, Look,
         Statement, FindForEnv, FindApp, HostnameOwner, InsertApp, UpdateApp, FindRunning, DeleteRow,
         FindInFlight, InsertRow, GetRow, UpdateRow, InsertEvent, Read
    <3>2. ASSUME NEW d \in Ids, Silent(d)' PROVE Silent(d)
      <4>1. CASE UNCHANGED <<status, log>> BY <3>2, <4>1 DEF Silent, HasRow
      <4>2. CASE DeleteRow(c)
        BY <1>t, <3>2, <4>2 DEF DeleteRow, Cascade, Silent, HasRow, Statuses, InProgress, Final
      <4>3. CASE UpdateRow(c)
        BY <1>t, <3>2, <4>3 DEF UpdateRow, Silent, HasRow, StoreTypeOK
      <4>4. CASE InsertEvent(c)
        <5>1. /\ UNCHANGED status /\ op[c].status \in Statuses
              /\ log' = [log EXCEPT ![held[c].id] = IF HasRow(held[c].id) THEN Append(@, op[c].status) ELSE @]
          BY <4>4 DEF InsertEvent, Record, IInv, Client, StatusStatements
        <5>2. HasRow(d) /\ log[d] \in Seq(Statuses) BY <1>t, <3>2, <5>1 DEF Silent, HasRow, StoreTypeOK
        <5>3. log'[d] \in {log[d], Append(log[d], op[c].status)} BY <1>t, <5>1 DEF StoreTypeOK
        <5>4. Append(log[d], op[c].status) # <<>> BY <5>1, <5>2
        <5> QED BY <3>2, <5>2, <5>3, <5>4 DEF Silent
      <4>5. UNCHANGED <<status, log>> \/ DeleteRow(c) \/ UpdateRow(c) \/ InsertEvent(c)
        BY <1>2, <2>5, OnlyStatementsWrite
        DEF Statement, FindForEnv, FindApp, HostnameOwner, InsertApp, UpdateApp, FindRunning, FindInFlight,
            InsertRow, GetRow, Read, tables
      <4> QED BY <4>1, <4>2, <4>3, <4>4, <4>5
    <3> QED BY <2>1, <3>1, <3>2 DEF Created
  <2> QED BY <2>2, <2>3, <2>4, <2>5
<1> QED BY <1>1, <1>2, NextIsOnes

(* A deployment in flight that nobody works on has an event to tell its    *)
(* age by, however operations cross, whoever dies and whatever fails: a    *)
(* death or a failure just between the two inserts of createDeployment is  *)
(* all that leaves a row no reconcile will find.                           *)
THEOREM InFlightHasEventUncut ==
    StoreSpec /\ [][InsertsWhole]_storeVars => []InFlightHasEvent
<1>1. StoreInit => Created BY DEF StoreInit, Created, Silent, HasRow, Statuses, InProgress, Final
<1>2. IInv /\ Created /\ [InsertsWhole]_storeVars /\ [StoreNext]_storeVars => Created'
  BY CreatedKept
<1>3. Created => InFlightHasEvent
  BY DEF Created, InFlightHasEvent, Silent, HasRow, Statuses
<1> QED BY <1>1, <1>2, <1>3, InvAlways, PTL DEF StoreSpec
=============================================================================
