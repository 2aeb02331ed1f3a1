------------------------------ MODULE Startup ------------------------------
(***************************************************************************)
(* What every command does before its own work: resolve the engine socket  *)
(* and ping it (commands/context.ts, runtime/socket.ts), then open the     *)
(* state database and bring its schema up to date (state/db.ts).  Several  *)
(* processes, of releases that know different numbers of migrations, do so *)
(* at once; the database knows one writer, and nobody waits for it.        *)
(***************************************************************************)
EXTENDS Integers, Sequences, Functions

CONSTANTS Procs,       \* processes; each runs one command after the other
          Migrations,  \* MIGRATIONS: a sequence of sequences of tables
          Knows,       \* Knows[p]: how many of them p's release knows
          NoProc,      \* the lock is free
          Explicit,    \* sockets named by the variables, in their order
          Defaults,    \* the default sockets, in the order they are tried
          NoSocket,    \* no socket was found
          MaxFaults    \* bound on everything that may go wrong

Latest == Len(Migrations)

Log == "schema_migrations"

TablesOf(n) == UNION {Range(Migrations[i]) : i \in 1..n}

(* The tables of the migrations are new, all of them.                      *)
ASSUME StartupAssumption ==
    /\ Migrations \in Seq(Seq(STRING))
    /\ Explicit \in Seq(Range(Explicit))
    /\ Defaults \in Seq(Range(Defaults))
    /\ Knows \in [Procs -> 0..Len(Migrations)]
    /\ NoProc \notin Procs
    /\ NoSocket \notin Range(Explicit) \union Range(Defaults)
    /\ MaxFaults \in Nat
    /\ \A i \in 1..Latest : Log \notin Range(Migrations[i])
    /\ \A i, j \in 1..Latest : \A k \in DOMAIN Migrations[i], l \in DOMAIN Migrations[j] :
           Migrations[i][k] = Migrations[j][l] => i = j /\ k = l

VARIABLES
    tables,    \* the tables of the database, as committed
    versions,  \* the rows of schema_migrations, as committed
    lock,      \* the process whose transaction holds the database
    txn,       \* the holder's [tables, versions, done]: done statements of its migration
    pc,        \* pc[p]: what p does next
    at,        \* at[p]: the migration p is applying, or applies next
    met,       \* met[p]: the newest version there was when p's command began
    sock,      \* sock[p]: the socket p resolved
    sockets,   \* the sockets that exist, each with an engine behind it
    faults     \* how much has gone wrong

dbVars == <<tables, versions, lock, txn>>
procVars == <<pc, at, met, sock>>
startupVars == <<tables, versions, lock, txn, pc, at, met, sock, sockets, faults>>

(* latestVersion: MAX(version), or 0. *)
MaxVersion(vs) == IF vs = {} THEN 0 ELSE CHOOSE v \in vs : \A w \in vs : w <= v

NoTxn == [tables |-> {}, versions |-> {}, done |-> 0]

-----------------------------------------------------------------------------
(* resolveSocket *)
First(s, S) == LET hits == {i \in DOMAIN s : s[i] \in S}
               IN  IF hits = {} THEN NoSocket ELSE s[CHOOSE i \in hits : \A j \in hits : i <= j]

(* The first variable that is set, whether or not its socket exists.       *)
ExplicitSocket(env) == First(Explicit, env)

SlipFallsThrough(env, there) ==
    IF ExplicitSocket(env) \in there THEN ExplicitSocket(env) ELSE First(Defaults, there)
Resolve(env, there) ==
    IF ExplicitSocket(env) # NoSocket
    THEN IF ExplicitSocket(env) \in there THEN ExplicitSocket(env) ELSE NoSocket
    ELSE First(Defaults, there)

-----------------------------------------------------------------------------
GoTo(p, step) == pc' = [pc EXCEPT ![p] = step]

(* The command ends: ROLLBACK, db.close or the death of the process gives  *)
(* the lock back and forgets the transaction.                              *)
SlipKept(p) == lock
Released(p) == IF lock = p THEN NoProc ELSE lock

End(p) ==
    /\ GoTo(p, "idle")
    /\ at' = [at EXCEPT ![p] = 0]
    /\ met' = [met EXCEPT ![p] = 0]
    /\ sock' = [sock EXCEPT ![p] = NoSocket]
    /\ lock' = Released(p)
    /\ txn' = IF lock = p THEN NoTxn ELSE txn
    /\ UNCHANGED <<tables, versions, sockets>>

Throws(p) == End(p) /\ UNCHANGED faults

Fault == faults < MaxFaults /\ faults' = faults + 1

(* A command that needs the engine starts with the socket, the others with *)
(* the database.                                                           *)
Start(p, step) ==
    /\ pc[p] = "idle"
    /\ GoTo(p, step)
    /\ met' = [met EXCEPT ![p] = MaxVersion(versions)]
    /\ UNCHANGED <<dbVars, at, sock, sockets, faults>>

WithEngine(p) == Start(p, "resolve")
WithStore(p)  == Start(p, "create")

ResolveSocket(p, env) ==
    /\ pc[p] = "resolve"
    /\ IF Resolve(env, sockets) = NoSocket
       THEN Throws(p)
       ELSE /\ sock' = [sock EXCEPT ![p] = Resolve(env, sockets)]
            /\ GoTo(p, "ping")
            /\ UNCHANGED <<dbVars, at, met, sockets, faults>>

Ping(p) ==
    /\ pc[p] = "ping"
    /\ IF sock[p] \in sockets
       THEN /\ GoTo(p, "create")
            /\ sock' = [sock EXCEPT ![p] = NoSocket]
            /\ UNCHANGED <<dbVars, at, met, sockets, faults>>
       ELSE Throws(p)

(* CREATE TABLE IF NOT EXISTS writes only when it has something to create. *)
CreateLog(p) ==
    /\ pc[p] = "create"
    /\ IF Log \notin tables /\ lock # NoProc
       THEN Throws(p)
       ELSE /\ tables' = tables \union {Log}
            /\ GoTo(p, "version")
            /\ UNCHANGED <<versions, lock, txn, at, met, sock, sockets, faults>>

(* The version is read once, before any transaction. *)
SlipTooNew(p, current) == FALSE
TooNew(p, current) == current > Knows[p]

SlipStartAt(current) == current + 2
StartAt(current) == current + 1

ReadVersion(p) ==
    /\ pc[p] = "version"
    /\ IF TooNew(p, MaxVersion(versions))
       THEN Throws(p)
       ELSE /\ at' = [at EXCEPT ![p] = StartAt(MaxVersion(versions))]
            /\ GoTo(p, IF StartAt(MaxVersion(versions)) > Knows[p] THEN "open" ELSE "begin")
            /\ UNCHANGED <<dbVars, met, sock, sockets, faults>>

(* BEGIN IMMEDIATE takes the write lock or throws at once. *)
BeginImmediate(p) ==
    /\ pc[p] = "begin"
    /\ IF lock # NoProc
       THEN Throws(p)
       ELSE /\ lock' = p
            /\ txn' = [tables |-> tables, versions |-> versions, done |-> 0]
            /\ GoTo(p, "migrate")
            /\ UNCHANGED <<tables, versions, at, met, sock, sockets, faults>>

(* The statements of the migration, one by one; CREATE TABLE throws when   *)
(* the table is there, and the transaction is rolled back.                 *)
SlipAutoCommit(p, t) == tables' = tables \union {t} /\ UNCHANGED versions
Unseen(p, t) == UNCHANGED <<tables, versions>>

SlipSkips(p) ==
    /\ GoTo(p, "open")
    /\ lock' = Released(p) /\ txn' = NoTxn
    /\ UNCHANGED <<tables, versions, at, met, sock, sockets, faults>>
MigrationFails(p) == Throws(p)

CreateTable(p) ==
    /\ pc[p] = "migrate"
    /\ txn.done < Len(Migrations[at[p]])
    /\ LET t == Migrations[at[p]][txn.done + 1]
       IN  IF t \in txn.tables
           THEN MigrationFails(p)
           ELSE /\ txn' = [txn EXCEPT !.tables = @ \union {t}, !.done = @ + 1]
                /\ Unseen(p, t)
                /\ UNCHANGED <<lock, procVars, sockets, faults>>

(* The version is the table's primary key. *)
InsertVersion(p) ==
    /\ pc[p] = "migrate"
    /\ txn.done = Len(Migrations[at[p]])
    /\ IF at[p] \in txn.versions
       THEN Throws(p)
       ELSE /\ txn' = [txn EXCEPT !.versions = @ \union {at[p]}]
            /\ GoTo(p, "commit")
            /\ UNCHANGED <<tables, versions, lock, at, met, sock, sockets, faults>>

Commit(p) ==
    /\ pc[p] = "commit"
    /\ tables' = txn.tables
    /\ versions' = txn.versions
    /\ lock' = NoProc
    /\ txn' = NoTxn
    /\ GoTo(p, IF at[p] = Knows[p] THEN "open" ELSE "begin")
    /\ at' = [at EXCEPT ![p] = @ + 1]
    /\ UNCHANGED <<met, sock, sockets, faults>>

(* The command's own writes hold the lock for a moment. *)
Write(p) ==
    /\ pc[p] = "open"
    /\ lock = NoProc
    /\ lock' = p
    /\ GoTo(p, "write")
    /\ Fault
    /\ UNCHANGED <<tables, versions, txn, at, met, sock, sockets>>

Written(p) ==
    /\ pc[p] = "write"
    /\ lock' = NoProc
    /\ GoTo(p, "open")
    /\ UNCHANGED <<tables, versions, txn, at, met, sock, sockets, faults>>

(* withStore closes the store when fn has returned or thrown. *)
Close(p) == pc[p] = "open" /\ Throws(p)

(* A kill, a ping without an answer, a statement that finds the file busy  *)
(* for a moment or the disk full: all of them close the database.          *)
Breaks(p) == pc[p] # "idle" /\ End(p) /\ Fault

(* An engine is started or stopped. *)
EngineToggles(s) ==
    /\ sockets' = IF s \in sockets THEN sockets \ {s} ELSE sockets \union {s}
    /\ Fault
    /\ UNCHANGED <<dbVars, procVars>>

StartupInit ==
    /\ tables = {} /\ versions = {} /\ lock = NoProc /\ txn = NoTxn
    /\ pc = [p \in Procs |-> "idle"]
    /\ at = [p \in Procs |-> 0]
    /\ met = [p \in Procs |-> 0]
    /\ sock = [p \in Procs |-> NoSocket]
    /\ sockets \in SUBSET (Range(Explicit) \union Range(Defaults))
    /\ faults = 0

Step(p) ==
    \/ \E env \in SUBSET Range(Explicit) : ResolveSocket(p, env)
    \/ Ping(p) \/ CreateLog(p) \/ ReadVersion(p) \/ BeginImmediate(p)
    \/ CreateTable(p) \/ InsertVersion(p) \/ Commit(p)
    \/ Written(p) \/ Close(p)

StartupNext ==
    \/ \E p \in Procs : WithEngine(p) \/ WithStore(p) \/ Step(p) \/ Write(p) \/ Breaks(p)
    \/ \E s \in Range(Explicit) \union Range(Defaults) : EngineToggles(s)

StartupSpec == StartupInit /\ [][StartupNext]_startupVars

(* A command that has begun goes on, and users keep running commands, not  *)
(* all of which need the engine.                                           *)
FairStartup ==
    /\ StartupSpec
    /\ \A p \in Procs : WF_startupVars(Step(p)) /\ SF_startupVars(WithStore(p))

-----------------------------------------------------------------------------
(* Properties *)

Steps == {"idle", "resolve", "ping", "create", "version", "begin", "migrate", "commit", "open", "write"}

Sockets == Range(Explicit) \union Range(Defaults)

(* Every variable has its type. *)
StartupTypeOK ==
    /\ tables \subseteq {Log} \union TablesOf(Latest)
    /\ versions \subseteq 1..Latest
    /\ lock \in Procs \union {NoProc}
    /\ txn \in [tables : SUBSET ({Log} \union TablesOf(Latest)), versions : SUBSET (1..Latest), done : Nat]
    /\ pc \in [Procs -> Steps]
    /\ at \in [Procs -> 0..Latest + 1]
    /\ met \in [Procs -> 0..Latest]
    /\ sock \in [Procs -> Sockets \union {NoSocket}]
    /\ sockets \subseteq Sockets
    /\ faults \in 0..MaxFaults

(* Whatever processes die, collide or fail, the schema is that of the      *)
(* first n migrations, whole, and the log says so: they are applied in     *)
(* order, each once, and a migration that fails leaves no trace of itself  *)
(* (spec app-state:26).                                                    *)
SchemaWhole ==
    \E n \in 0..Latest : versions = 1..n /\ tables \ {Log} = TablesOf(n)

(* A command works on a database that has every table its release needs,   *)
(* also when another process applied some of the migrations meanwhile.     *)
OpenIsCurrent ==
    \A p \in Procs : pc[p] \in {"open", "write"} => TablesOf(Knows[p]) \subseteq tables

(* A release never works on a database that was newer than it knows when   *)
(* its command began (SchemaTooNewError, spec app-state:26).               *)
OldKeepsOut == \A p \in Procs : pc[p] \in {"open", "write"} => met[p] <= Knows[p]

(* A socket named by the user is final: it is taken when it exists and     *)
(* nothing is taken when it does not; the first variable set is the one    *)
(* that counts; a default is taken only when nothing is set                *)
(* (spec container-runtime:164).                                           *)
ExplicitIsFinal ==
    \A env \in SUBSET Range(Explicit) :
        LET s == Resolve(env, sockets) IN
        /\ s # NoSocket => s \in sockets
        /\ env # {} => s \in env \union {NoSocket}
        /\ \A i \in DOMAIN Explicit :
               Explicit[i] \in env => s \in {Explicit[k] : k \in 1..i} \union {NoSocket}
        /\ env = {} /\ s = NoSocket => Range(Defaults) \intersect sockets = {}

(* However many opens fail, collide or are killed: as long as commands are *)
(* run, the newest schema some release knows is reached in the end.        *)
SchemaReached == <>[](\A p \in Procs : 1..Knows[p] \subseteq versions)

(* Of several processes that open a new database one gets through: no      *)
(* collision ends every open.  The code does not promise it.               *)
OneGetsThrough ==
    [][(faults' = faults /\ \E p \in Procs : pc[p] \in {"begin", "migrate"} /\ pc'[p] = "idle")
          => \E q \in Procs : pc'[q] # "idle"]_startupVars

(* A release never works on a newer schema.  Two processes can arrange it. *)
OldNeverOnNewer == \A p \in Procs : pc[p] = "open" => MaxVersion(versions) <= Knows[p]
=============================================================================
