--------------------------- MODULE StartupProofs ---------------------------
(***************************************************************************)
(* Proofs about Startup, for any number of processes and releases, any     *)
(* migrations, any sockets and any number of faults.                       *)
(***************************************************************************)
EXTENDS Startup, WellFoundedInduction, TLAPS

(* A migration is a sequence of names, and each release knows some of them. *)
LEMMA MigrationShape ==
    /\ Latest \in Nat
    /\ \A i \in 1..Latest : Migrations[i] \in Seq(STRING)
    /\ \A p \in Procs : Knows[p] \in 0..Latest
BY StartupAssumption DEF StartupAssumption, Latest

(* The table that logs the migrations is in none of them. *)
LEMMA LogIsApart == \A n \in 0..Latest : Log \notin TablesOf(n)
BY StartupAssumption, MigrationShape DEF StartupAssumption, TablesOf

(* The tables of one migration more. *)
LEMMA NextTables ==
    ASSUME NEW n \in 1..Latest
    PROVE  TablesOf(n) = TablesOf(n - 1) \union Range(Migrations[n])
<1>1. 1..n = 1..(n - 1) \union {n}
  BY MigrationShape
<1> QED
  BY <1>1 DEF TablesOf

(* A newer schema has all tables of an older one. *)
LEMMA OlderTables ==
    ASSUME NEW m \in 0..Latest, NEW n \in 0..Latest, m <= n
    PROVE  TablesOf(m) \subseteq TablesOf(n)
<1>1. 1..m \subseteq 1..n
  BY MigrationShape
<1> QED
  BY <1>1 DEF TablesOf

(* The newest of the versions 1 to n is n. *)
LEMMA NewestVersion ==
    ASSUME NEW n \in Nat
    PROVE  MaxVersion(1..n) = n
<1>1. CASE n = 0
  BY <1>1 DEF MaxVersion
<1>2. CASE n # 0
  <2>1. n \in 1..n /\ \A w \in 1..n : w <= n
    BY <1>2
  <2>2. \A v \in 1..n : (\A w \in 1..n : w <= v) => v = n
    BY <2>1
  <2> QED
    BY <1>2, <2>1, <2>2 DEF MaxVersion
<1> QED
  BY <1>1, <1>2

-----------------------------------------------------------------------------
(* A set of natural numbers that is not empty has a least member. *)
LEMMA LeastNatural ==
    ASSUME NEW S, S \subseteq Nat, S # {}
    PROVE  \E m \in S : \A n \in S : m <= n
<1> DEFINE Less == {ss \in Nat \X Nat : ss[1] < ss[2]}
<1>1. Less = OpToRel(<, Nat)
  BY Zenon DEF OpToRel
<1>2. IsWellFoundedOn(Less, Nat)
  BY <1>1, NatLessThanWellFounded, Zenon
<1> HIDE DEF Less
<1>3. PICK m \in S : \A n \in S : <<n, m>> \notin Less
  BY <1>2, WFMin
<1>4. ASSUME NEW n \in S PROVE m <= n
  <2>1. m \in Nat /\ n \in Nat /\ <<n, m>> \in Nat \X Nat
    OBVIOUS
  <2>2. n < m => <<n, m>> \in Less
    BY <2>1 DEF Less
  <2> QED
    BY <1>3, <2>1, <2>2
<1> QED
  BY <1>4

(* The first socket of a sequence that is in a set is in both, and no      *)
(* earlier one is; there is none only if none of them is.                  *)
LEMMA FirstIsFirst ==
    ASSUME NEW s, s \in Seq(Range(s)), NEW S
    PROVE  \/ First(s, S) = NoSocket /\ Range(s) \intersect S = {}
           \/ \E i \in 1..Len(s) :
                 /\ First(s, S) = s[i]
                 /\ s[i] \in S
                 /\ \A j \in 1..Len(s) : s[j] \in S => i <= j
<1> DEFINE hits == {i \in DOMAIN s : s[i] \in S}
<1>1. Len(s) \in Nat /\ DOMAIN s = 1..Len(s)
  OBVIOUS
<1>2. CASE hits = {}
  BY <1>2 DEF First, Range
<1>3. CASE hits # {}
  <2>1. hits \subseteq Nat
    BY <1>1
  <2> HIDE DEF hits
  <2>2. PICK i \in hits : \A j \in hits : i <= j
    BY <1>3, <2>1, LeastNatural
  <2>3. \A k \in hits : (\A j \in hits : k <= j) => k = i
    BY <2>1, <2>2
  <2>4. First(s, S) = s[i]
    BY <1>3, <2>2, <2>3 DEF First, hits
  <2> QED
    BY <1>1, <2>2, <2>4 DEF hits
<1> QED
  BY <1>2, <1>3

-----------------------------------------------------------------------------
(* The invariant.  Schema is SchemaWhole with its witness.  InStep says     *)
(* what a process knows at each statement: the version it has read may be  *)
(* old, but what was applied stays applied, and who holds the lock sees in *)
(* its transaction the database and its own statements.                    *)
Version == MaxVersion(versions)

Schema ==
    /\ Version \in 0..Latest
    /\ versions = 1..Version
    /\ tables \subseteq {Log} \union TablesOf(Version)
    /\ TablesOf(Version) \subseteq tables

HasRead   == {"begin", "migrate", "commit", "open", "write"}
Migrating == {"begin", "migrate", "commit"}
Holding   == {"migrate", "commit", "write"}
AtWork    == {"open", "write"}

Applied(p, k) == {Migrations[at[p]][i] : i \in 1..k}

InStep(p) ==
    /\ pc[p] \in HasRead \union {"version"} => Log \in tables
    /\ pc[p] \in HasRead => met[p] <= Knows[p]
    /\ pc[p] \in Migrating => at[p] \in 1..Knows[p] /\ at[p] <= Version + 1
    /\ pc[p] \in AtWork => Knows[p] <= Version
    /\ pc[p] \in Holding => lock = p
    /\ pc[p] = "migrate" =>
          /\ txn.versions = versions
          /\ txn.done \in 0..Len(Migrations[at[p]])
          /\ txn.tables = tables \union Applied(p, txn.done)
    /\ pc[p] = "commit" =>
          /\ at[p] = Version + 1
          /\ txn.versions = versions \union {at[p]}
          /\ txn.tables = tables \union Range(Migrations[at[p]])
    /\ met[p] <= Version

IInv ==
    /\ StartupTypeOK
    /\ Schema
    /\ \A p \in Procs : InStep(p)

-----------------------------------------------------------------------------
(* A step of p, from the point of view of everybody else: the schema only  *)
(* grows, and the database of somebody else's lock stays as it is.         *)
LeavesAlone(p) ==
    \A q \in Procs \ {p} : pc'[q] = pc[q] /\ at'[q] = at[q] /\ met'[q] = met[q]

Fair(p) ==
    /\ lock \in {NoProc, p} \/ UNCHANGED dbVars
    /\ Version <= Version'
    /\ Log \in tables => Log \in tables'

(* The database as it was, or touched by nobody but the holder's own       *)
(* transaction, has the same version.                                      *)
LEMMA SameVersion == versions' = versions => Version' = Version
BY DEF Version, MaxVersion

(* It is enough to look at the process that moves. *)
LEMMA OthersKeep ==
    ASSUME IInv, NEW p \in Procs, LeavesAlone(p), Fair(p), StartupTypeOK', Schema', InStep(p)'
    PROVE  IInv'
<1>1. ASSUME NEW q \in Procs \ {p} PROVE InStep(q)'
  <2>1. InStep(q) /\ q # NoProc
    BY StartupAssumption DEF IInv, StartupAssumption
  <2>2. pc[q] \in Holding => UNCHANGED dbVars /\ Version' = Version
    BY <2>1, SameVersion DEF InStep, Fair, dbVars
  <2>3. /\ pc'[q] = pc[q] /\ at'[q] = at[q] /\ met'[q] = met[q]
        /\ Version <= Version' /\ (Log \in tables => Log \in tables')
    BY DEF LeavesAlone, Fair
  <2>4. Version \in Nat /\ Version' \in Nat /\ Knows[q] \in Nat /\ met[q] \in Nat /\ at[q] \in Nat
    <3>1. Version \in Nat /\ Version' \in Nat
      BY MigrationShape DEF IInv, Schema
    <3>2. Knows[q] \in Nat /\ met[q] \in Nat /\ at[q] \in Nat
      <4>1. at \in [Procs -> 0..Latest + 1] /\ met \in [Procs -> 0..Latest] /\ q \in Procs
        BY DEF IInv, StartupTypeOK
      <4> QED
        BY <4>1, MigrationShape
    <3> QED
      BY <3>1, <3>2
  <2>5. /\ pc[q] \in HasRead \union {"version"} => Log \in tables'
        /\ pc[q] \in HasRead => met[q] <= Knows[q]
        /\ pc[q] \in Migrating => at[q] \in 1..Knows[q] /\ at[q] <= Version' + 1
        /\ pc[q] \in AtWork => Knows[q] <= Version'
        /\ pc[q] \in Holding => lock' = q
        /\ met[q] <= Version'
    BY <2>1, <2>2, <2>3, <2>4 DEF InStep, dbVars
  <2>6. pc[q] = "migrate" =>
          /\ txn'.versions = versions'
          /\ txn'.done \in 0..Len(Migrations[at[q]])
          /\ txn'.tables = tables' \union {Migrations[at[q]][i] : i \in 1..txn'.done}
    BY <2>1, <2>2 DEF InStep, dbVars, Holding, Applied
  <2>7. pc[q] = "commit" =>
          /\ at[q] = Version' + 1
          /\ txn'.versions = versions' \union {at[q]}
          /\ txn'.tables = tables' \union Range(Migrations[at[q]])
    BY <2>1, <2>2 DEF InStep, dbVars, Holding
  <2> QED
    BY <2>3, <2>5, <2>6, <2>7 DEF InStep, Applied
<1> QED
  BY <1>1 DEF IInv

(* A schema nobody has written to is a schema. *)
LEMMA SchemaStays == Schema /\ UNCHANGED <<tables, versions>> => Schema'
BY SameVersion DEF Schema

(* The end of a command, whatever has ended it. *)
LEMMA EndKeeps ==
    ASSUME IInv, NEW p \in Procs, End(p), faults' \in 0..MaxFaults
    PROVE  IInv'
<1>1. /\ pc' = [pc EXCEPT ![p] = "idle"] /\ at' = [at EXCEPT ![p] = 0] /\ met' = [met EXCEPT ![p] = 0]
      /\ sock' = [sock EXCEPT ![p] = NoSocket] /\ UNCHANGED <<tables, versions, sockets>>
      /\ lock' = IF lock = p THEN NoProc ELSE lock
      /\ txn' = IF lock = p THEN NoTxn ELSE txn
  BY DEF End, GoTo, Released
<1>2. Schema' /\ Version' = Version /\ Version \in Nat
  BY <1>1, SchemaStays, SameVersion, MigrationShape DEF IInv, Schema
<1>3. StartupTypeOK'
  BY <1>1, MigrationShape, SMTT(30) DEF IInv, StartupTypeOK, Steps, NoTxn
<1>4. pc'[p] = "idle" /\ met'[p] = 0
  BY <1>1 DEF IInv, StartupTypeOK
<1>5. InStep(p)'
  BY <1>2, <1>4 DEF InStep, HasRead, Migrating, AtWork, Holding
<1>6. LeavesAlone(p) /\ Fair(p)
  BY <1>1, <1>2 DEF IInv, StartupTypeOK, LeavesAlone, Fair, dbVars
<1> QED
  BY <1>2, <1>3, <1>5, <1>6, OthersKeep

(* A statement that throws ends the command. *)
LEMMA ThrowsKeeps ==
    ASSUME IInv, NEW p \in Procs, Throws(p)
    PROVE  IInv'
BY EndKeeps DEF Throws, IInv, StartupTypeOK

(* Steps that touch neither the database nor its lock. *)
LEMMA QuietKeeps ==
    ASSUME IInv, NEW p \in Procs, NEW step \in Steps, UNCHANGED dbVars,
           pc' = [pc EXCEPT ![p] = step], LeavesAlone(p), StartupTypeOK', InStep(p)'
    PROVE  IInv'
<1>1. Schema' /\ Version' = Version /\ Version \in Nat
  BY SchemaStays, SameVersion, MigrationShape DEF IInv, Schema, dbVars
<1>2. Fair(p)
  BY <1>1 DEF Fair, dbVars
<1> QED
  BY <1>1, <1>2, OthersKeep

-----------------------------------------------------------------------------
(* One lemma per action. *)

(* What a command resolves is a socket, or none. *)
LEMMA ResolveShape == \A env, there : Resolve(env, there) \in Sockets \union {NoSocket}
<1>1. ASSUME NEW s, s \in Seq(Range(s)), NEW S PROVE First(s, S) \in Range(s) \union {NoSocket}
  BY <1>1, FirstIsFirst DEF Range
<1>2. Explicit \in Seq(Range(Explicit)) /\ Defaults \in Seq(Range(Defaults))
  BY StartupAssumption DEF StartupAssumption
<1> QED
  BY <1>1, <1>2 DEF Resolve, ExplicitSocket, Sockets

(* A command begins; the newest version it meets is in the database. *)
LEMMA StartKeeps ==
    ASSUME IInv, NEW p \in Procs, NEW step \in {"resolve", "create"}, Start(p, step)
    PROVE  IInv'
<1>1. /\ pc' = [pc EXCEPT ![p] = step] /\ met' = [met EXCEPT ![p] = Version]
      /\ UNCHANGED <<dbVars, at, sock, sockets, faults>>
  BY DEF Start, GoTo, Version
<1>2. Version \in 0..Latest /\ Version' = Version /\ Version \in Nat
  BY <1>1, SameVersion, MigrationShape DEF IInv, Schema, dbVars
<1>3. StartupTypeOK'
  BY <1>1, <1>2 DEF IInv, StartupTypeOK, Steps, dbVars
<1>4. pc'[p] = step /\ met'[p] = Version
  BY <1>1 DEF IInv, StartupTypeOK
<1>5. InStep(p)'
  BY <1>2, <1>4 DEF InStep, HasRead, Migrating, AtWork, Holding
<1>6. LeavesAlone(p)
  BY <1>1 DEF IInv, StartupTypeOK, LeavesAlone
<1> QED
  BY <1>1, <1>3, <1>5, <1>6, QuietKeeps DEF Steps

(* The steps before the database know nothing of it yet. *)
LEMMA EarlyKeeps ==
    ASSUME IInv, NEW p \in Procs, NEW step \in {"ping", "create"},
           pc' = [pc EXCEPT ![p] = step], sock' \in [Procs -> Sockets \union {NoSocket}],
           UNCHANGED <<dbVars, at, met, sockets, faults>>
    PROVE  IInv'
<1>1. StartupTypeOK'
  BY DEF IInv, StartupTypeOK, Steps, dbVars
<1>2. pc'[p] = step /\ met' = met /\ Version' = Version
  BY SameVersion DEF IInv, StartupTypeOK, dbVars
<1>3. InStep(p)'
  BY <1>2 DEF IInv, InStep, HasRead, Migrating, AtWork, Holding
<1>4. LeavesAlone(p)
  BY DEF IInv, StartupTypeOK, LeavesAlone
<1> QED
  BY <1>1, <1>3, <1>4, QuietKeeps DEF Steps

(* The socket is resolved and pinged. *)
LEMMA SocketKeeps ==
    ASSUME IInv, NEW p \in Procs, Ping(p) \/ (\E env \in SUBSET Range(Explicit) : ResolveSocket(p, env))
    PROVE  IInv'
<1>1. ASSUME NEW env \in SUBSET Range(Explicit), ResolveSocket(p, env) PROVE IInv'
  <2>1. CASE Throws(p)
    BY <2>1, ThrowsKeeps
  <2>2. CASE ~Throws(p)
    <3>1. /\ sock' = [sock EXCEPT ![p] = Resolve(env, sockets)] /\ pc' = [pc EXCEPT ![p] = "ping"]
          /\ UNCHANGED <<dbVars, at, met, sockets, faults>>
      BY <1>1, <2>2 DEF ResolveSocket, GoTo
    <3>2. sock' \in [Procs -> Sockets \union {NoSocket}]
      BY <3>1, ResolveShape DEF IInv, StartupTypeOK
    <3> QED
      BY <3>1, <3>2, EarlyKeeps
  <2> QED
    BY <2>1, <2>2
<1>2. CASE Ping(p)
  <2>1. CASE Throws(p)
    BY <2>1, ThrowsKeeps
  <2>2. CASE ~Throws(p)
    <3>1. /\ sock' = [sock EXCEPT ![p] = NoSocket] /\ pc' = [pc EXCEPT ![p] = "create"]
          /\ UNCHANGED <<dbVars, at, met, sockets, faults>>
      BY <1>2, <2>2 DEF Ping, GoTo
    <3>2. sock' \in [Procs -> Sockets \union {NoSocket}]
      BY <3>1 DEF IInv, StartupTypeOK
    <3> QED
      BY <3>1, <3>2, EarlyKeeps
  <2> QED
    BY <2>1, <2>2
<1> QED
  BY <1>1, <1>2

(* The log table is created when nobody is writing, or is there already. *)
LEMMA CreateLogKeeps ==
    ASSUME IInv, NEW p \in Procs, CreateLog(p)
    PROVE  IInv'
<1>1. CASE Throws(p)
  BY <1>1, ThrowsKeeps
<1>2. CASE ~Throws(p)
  <2>1. /\ lock = NoProc \/ tables' = tables
        /\ tables' = tables \union {Log} /\ pc' = [pc EXCEPT ![p] = "version"]
        /\ UNCHANGED <<versions, lock, txn, at, met, sock, sockets, faults>>
    BY <1>2 DEF CreateLog, GoTo
  <2>2. Version' = Version /\ Version \in Nat
    BY <2>1, SameVersion, MigrationShape DEF IInv, Schema
  <2>3. Schema'
    BY <2>1, <2>2 DEF IInv, Schema
  <2>4. StartupTypeOK'
    BY <2>1 DEF IInv, StartupTypeOK, Steps
  <2>5. pc'[p] = "version"
    BY <2>1 DEF IInv, StartupTypeOK
  <2>6. InStep(p)'
    BY <2>1, <2>2, <2>5 DEF IInv, InStep, HasRead, Migrating, AtWork, Holding
  <2>7. LeavesAlone(p) /\ Fair(p)
    BY <2>1, <2>2 DEF IInv, StartupTypeOK, LeavesAlone, Fair, dbVars
  <2> QED
    BY <2>3, <2>4, <2>6, <2>7, OthersKeep
<1> QED
  BY <1>1, <1>2

(* The version read is not newer than the release, nor was the one met. *)
LEMMA ReadVersionKeeps ==
    ASSUME IInv, NEW p \in Procs, ReadVersion(p)
    PROVE  IInv'
<1>1. CASE Throws(p)
  BY <1>1, ThrowsKeeps
<1>2. CASE ~Throws(p)
  <2> DEFINE step == IF Version + 1 > Knows[p] THEN "open" ELSE "begin"
  <2>1. /\ pc[p] = "version" /\ ~(Version > Knows[p])
        /\ at' = [at EXCEPT ![p] = Version + 1] /\ pc' = [pc EXCEPT ![p] = step]
        /\ UNCHANGED <<dbVars, met, sock, sockets, faults>>
    BY <1>2 DEF ReadVersion, GoTo, TooNew, StartAt, Version
  <2>2. Version' = Version /\ Version \in 0..Latest /\ Version \in Nat /\ Knows[p] \in Nat /\ Latest \in Nat
    BY <2>1, SameVersion, MigrationShape DEF IInv, Schema, dbVars
  <2>3. at' \in [Procs -> 0..Latest + 1]
    BY <2>1, <2>2 DEF IInv, StartupTypeOK
  <2>4. StartupTypeOK'
    BY <2>1, <2>3 DEF IInv, StartupTypeOK, Steps, dbVars
  <2>5. pc'[p] = step /\ at'[p] = Version + 1 /\ step \in {"open", "begin"} /\ met'[p] = met[p]
    BY <2>1 DEF IInv, StartupTypeOK
  <2>6. met[p] <= Version /\ met[p] \in Nat /\ Log \in tables
    BY <2>1, MigrationShape DEF IInv, InStep, StartupTypeOK
  <2>7. InStep(p)'
    BY <2>1, <2>2, <2>5, <2>6 DEF InStep, HasRead, Migrating, AtWork, Holding, dbVars
  <2>8. LeavesAlone(p)
    BY <2>1 DEF IInv, StartupTypeOK, LeavesAlone
  <2> QED
    BY <2>1, <2>4, <2>7, <2>8, QuietKeeps DEF Steps
<1> QED
  BY <1>1, <1>2

(* The transaction begins with the database as it is. *)
LEMMA BeginImmediateKeeps ==
    ASSUME IInv, NEW p \in Procs, BeginImmediate(p)
    PROVE  IInv'
<1>1. CASE Throws(p)
  BY <1>1, ThrowsKeeps
<1>2. CASE ~Throws(p)
  <2>1. /\ pc[p] = "begin" /\ lock = NoProc /\ lock' = p
        /\ txn' = [tables |-> tables, versions |-> versions, done |-> 0]
        /\ pc' = [pc EXCEPT ![p] = "migrate"]
        /\ UNCHANGED <<tables, versions, at, met, sock, sockets, faults>>
    BY <1>2 DEF BeginImmediate, GoTo
  <2>2. Version' = Version /\ Version \in Nat /\ Schema'
    BY <2>1, SameVersion, SchemaStays, MigrationShape DEF IInv, Schema
  <2>3. StartupTypeOK'
    BY <2>1 DEF IInv, StartupTypeOK, Steps
  <2>4. pc'[p] = "migrate" /\ at' = at /\ met' = met
    BY <2>1 DEF IInv, StartupTypeOK
  <2>5. at[p] \in 1..Knows[p] /\ at[p] <= Version + 1 /\ met[p] <= Knows[p] /\ met[p] <= Version /\ Log \in tables
    BY <2>1 DEF IInv, InStep, Migrating, HasRead
  <2>6. /\ txn'.versions = versions' /\ txn'.done = 0
        /\ txn'.tables = tables' \union {Migrations[at[p]][i] : i \in 1..txn'.done}
    BY <2>1
  <2>7. Len(Migrations[at[p]]) \in Nat
    <3>1. Knows[p] \in 0..Latest /\ at[p] \in 1..Latest
      BY <2>5, MigrationShape
    <3> QED
      BY <3>1, MigrationShape
  <2>8. InStep(p)'
    BY <2>1, <2>2, <2>4, <2>5, <2>6, <2>7 DEF InStep, HasRead, Migrating, AtWork, Holding, Applied
  <2>9. LeavesAlone(p) /\ Fair(p)
    BY <2>1, <2>2 DEF IInv, StartupTypeOK, LeavesAlone, Fair
  <2> QED
    BY <2>2, <2>3, <2>8, <2>9, OthersKeep
<1> QED
  BY <1>1, <1>2

(* What the holder of the lock knows while it migrates. *)
LEMMA MigrateKnows ==
    ASSUME IInv, NEW p \in Procs, pc[p] \in {"migrate", "commit"}
    PROVE  /\ lock = p /\ at[p] \in 1..Latest /\ at[p] \in 1..Knows[p] /\ Knows[p] \in 0..Latest
           /\ Version \in 0..Latest /\ Version \in Nat /\ at[p] <= Version + 1
           /\ Log \in tables /\ met[p] <= Knows[p] /\ met[p] <= Version
           /\ Migrations[at[p]] \in Seq(STRING) /\ Len(Migrations[at[p]]) \in Nat
           /\ Range(Migrations[at[p]]) = Applied(p, Len(Migrations[at[p]]))
           /\ Range(Migrations[at[p]]) \subseteq TablesOf(Latest)
<1>1. /\ lock = p /\ at[p] \in 1..Knows[p] /\ at[p] <= Version + 1
      /\ Log \in tables /\ met[p] <= Knows[p] /\ met[p] <= Version
  BY DEF IInv, InStep, Migrating, HasRead, Holding
<1>2. Knows[p] \in 0..Latest /\ Version \in 0..Latest /\ Latest \in Nat
  BY MigrationShape DEF IInv, Schema
<1>3. at[p] \in 1..Latest /\ Version \in Nat
  BY <1>1, <1>2
<1>4. Migrations[at[p]] \in Seq(STRING)
  BY <1>3, MigrationShape
<1>5. Len(Migrations[at[p]]) \in Nat /\ DOMAIN Migrations[at[p]] = 1..Len(Migrations[at[p]])
  BY <1>4
<1>6. Range(Migrations[at[p]]) = Applied(p, Len(Migrations[at[p]]))
  BY <1>5 DEF Range, Applied
<1>7. Range(Migrations[at[p]]) \subseteq TablesOf(Latest)
  BY <1>3 DEF TablesOf
<1> QED
  BY <1>1, <1>2, <1>3, <1>4, <1>5, <1>6, <1>7

(* A statement of the migration is seen in the transaction only. *)
LEMMA CreateTableKeeps ==
    ASSUME IInv, NEW p \in Procs, CreateTable(p)
    PROVE  IInv'
<1> DEFINE n == txn.done
           t == Migrations[at[p]][n + 1]
<1>1. CASE Throws(p)
  BY <1>1, ThrowsKeeps
<1>2. CASE ~Throws(p)
  <2>1. /\ pc[p] = "migrate" /\ n < Len(Migrations[at[p]])
        /\ txn' = [txn EXCEPT !.tables = @ \union {t}, !.done = @ + 1]
        /\ UNCHANGED <<tables, versions, lock, procVars, sockets, faults>>
    BY <1>2 DEF CreateTable, Unseen, MigrationFails
  <2>2. /\ txn.versions = versions /\ n \in 0..Len(Migrations[at[p]])
        /\ txn.tables = tables \union Applied(p, n)
    BY <2>1 DEF IInv, InStep
  <2>3. n \in Nat /\ n + 1 \in 1..Len(Migrations[at[p]]) /\ t \in Range(Migrations[at[p]])
    BY <2>1, <2>2, MigrateKnows DEF Range
  <2>4. Applied(p, n + 1) = Applied(p, n) \union {t}
    <3>1. 1..(n + 1) = 1..n \union {n + 1}
      BY <2>3
    <3> QED
      BY <3>1 DEF Applied
  <2>5. txn \in [tables : SUBSET ({Log} \union TablesOf(Latest)), versions : SUBSET (1..Latest), done : Nat]
    BY DEF IInv, StartupTypeOK
  <2>6. /\ txn'.tables = txn.tables \union {t} /\ txn'.versions = txn.versions /\ txn'.done = n + 1
        /\ txn' \in [tables : SUBSET ({Log} \union TablesOf(Latest)), versions : SUBSET (1..Latest), done : Nat]
    <3>1. t \in TablesOf(Latest)
      BY <2>1, <2>3, MigrateKnows
    <3>2. txn' = [tables |-> txn.tables \union {t}, versions |-> txn.versions, done |-> n + 1]
      BY <2>1, <2>5
    <3> QED
      BY <2>3, <2>5, <3>1, <3>2
  <2>7. Version' = Version /\ Schema'
    BY <2>1, SameVersion, SchemaStays DEF IInv
  <2>8. StartupTypeOK'
    BY <2>1, <2>6 DEF IInv, StartupTypeOK, procVars
  <2>9. InStep(p)'
    <3>1. pc' = pc /\ at' = at /\ met' = met /\ lock' = lock /\ tables' = tables /\ versions' = versions
      BY <2>1 DEF procVars
    <3>2. txn'.tables = tables' \union Applied(p, n + 1)
      BY <2>2, <2>4, <2>6, <3>1
    <3>3. txn'.tables = tables' \union {Migrations[at'[p]][i] : i \in 1..txn'.done}
      BY <2>6, <3>1, <3>2 DEF Applied
    <3>4. txn'.versions = versions' /\ txn'.done \in 0..Len(Migrations[at'[p]])
      BY <2>2, <2>3, <2>6, <3>1
    <3> HIDE DEF n, t
    <3> QED
      BY <2>1, <2>7, <3>1, <3>3, <3>4, MigrateKnows
      DEF InStep, HasRead, Migrating, AtWork, Holding, Applied
  <2>10. LeavesAlone(p) /\ Fair(p)
    BY <2>1, <2>7, MigrateKnows DEF LeavesAlone, Fair, procVars
  <2> QED
    BY <2>7, <2>8, <2>9, <2>10, OthersKeep
<1> QED
  BY <1>1, <1>2

(* The version goes in only if it is the next one: the key is taken if     *)
(* another process has applied the migration meanwhile.                    *)
LEMMA InsertVersionKeeps ==
    ASSUME IInv, NEW p \in Procs, InsertVersion(p)
    PROVE  IInv'
<1>1. CASE Throws(p)
  BY <1>1, ThrowsKeeps
<1>2. CASE ~Throws(p)
  <2>1. /\ pc[p] = "migrate" /\ txn.done = Len(Migrations[at[p]]) /\ at[p] \notin txn.versions
        /\ txn' = [txn EXCEPT !.versions = @ \union {at[p]}] /\ pc' = [pc EXCEPT ![p] = "commit"]
        /\ UNCHANGED <<tables, versions, lock, at, met, sock, sockets, faults>>
    BY <1>2 DEF InsertVersion, GoTo
  <2>2. /\ txn.versions = versions /\ versions = 1..Version
        /\ txn.tables = tables \union Range(Migrations[at[p]])
    BY <2>1, MigrateKnows DEF IInv, InStep, Schema
  <2>3. at[p] = Version + 1
    BY <2>1, <2>2, MigrateKnows
  <2>4. txn \in [tables : SUBSET ({Log} \union TablesOf(Latest)), versions : SUBSET (1..Latest), done : Nat]
    BY DEF IInv, StartupTypeOK
  <2>5. /\ txn'.tables = txn.tables /\ txn'.versions = versions \union {at[p]}
        /\ txn' \in [tables : SUBSET ({Log} \union TablesOf(Latest)), versions : SUBSET (1..Latest), done : Nat]
    BY <2>1, <2>2, <2>4, MigrateKnows
  <2>6. Version' = Version /\ Schema'
    BY <2>1, SameVersion, SchemaStays DEF IInv
  <2>7. StartupTypeOK'
    BY <2>1, <2>5 DEF IInv, StartupTypeOK, Steps
  <2>8. pc'[p] = "commit" /\ at' = at /\ met' = met /\ lock' = lock /\ tables' = tables /\ versions' = versions
    BY <2>1 DEF IInv, StartupTypeOK
  <2>9. InStep(p)'
    BY <2>1, <2>2, <2>3, <2>5, <2>6, <2>8, MigrateKnows DEF InStep, HasRead, Migrating, AtWork, Holding
  <2>10. LeavesAlone(p) /\ Fair(p)
    BY <2>1, <2>6, MigrateKnows DEF IInv, StartupTypeOK, LeavesAlone, Fair
  <2> QED
    BY <2>6, <2>7, <2>9, <2>10, OthersKeep
<1> QED
  BY <1>1, <1>2

(* The commit makes the schema that of one migration more. *)
LEMMA CommitKeeps ==
    ASSUME IInv, NEW p \in Procs, Commit(p)
    PROVE  IInv'
<1> DEFINE n == at[p]
           step == IF n = Knows[p] THEN "open" ELSE "begin"
<1>1. /\ pc[p] = "commit" /\ tables' = txn.tables /\ versions' = txn.versions
      /\ lock' = NoProc /\ txn' = NoTxn
      /\ pc' = [pc EXCEPT ![p] = step] /\ at' = [at EXCEPT ![p] = n + 1]
      /\ UNCHANGED <<met, sock, sockets, faults>>
  BY DEF Commit, GoTo
<1>2. /\ n = Version + 1 /\ versions' = versions \union {n} /\ versions = 1..Version
      /\ tables' = tables \union Range(Migrations[n])
  BY <1>1 DEF IInv, InStep, Schema
<1>3. n \in Nat /\ n \in 1..Latest /\ versions' = 1..n
  BY <1>1, <1>2, MigrateKnows
<1>4. Version' = n
  <2>1. MaxVersion(1..n) = n
    BY <1>3, NewestVersion
  <2>2. Version' = MaxVersion(versions')
    BY DEF Version, MaxVersion
  <2> QED
    BY <1>3, <2>1, <2>2
<1>5. Schema'
  <2>1. TablesOf(n) = TablesOf(Version) \union Range(Migrations[n])
    BY <1>1, <1>2, <1>3, NextTables, MigrateKnows
  <2>2. tables' \subseteq {Log} \union TablesOf(n) /\ TablesOf(n) \subseteq tables'
    BY <1>2, <2>1 DEF IInv, Schema
  <2>3. n \in 0..Latest
    BY <1>3
  <2> QED
    BY <1>3, <1>4, <2>2, <2>3 DEF Schema, TablesOf
<1>6. StartupTypeOK'
  <2>1. tables' \subseteq {Log} \union TablesOf(Latest) /\ versions' \subseteq 1..Latest
    BY <1>1 DEF IInv, StartupTypeOK
  <2>2. at' \in [Procs -> 0..Latest + 1] /\ pc' \in [Procs -> Steps]
    BY <1>1, <1>3, MigrationShape, SMTT(30) DEF IInv, StartupTypeOK, Steps
  <2> QED
    BY <1>1, <2>1, <2>2 DEF IInv, StartupTypeOK, NoTxn
<1>7. pc'[p] = step /\ at'[p] = n + 1 /\ met' = met /\ step \in {"open", "begin"}
  BY <1>1 DEF IInv, StartupTypeOK
<1>8. Log \in tables' /\ Version' = Version + 1 /\ Version \in Nat /\ Knows[p] \in Nat
      /\ n \in 1..Knows[p] /\ met[p] <= Knows[p] /\ met[p] <= Version /\ met[p] \in Nat
  <2>1. met[p] \in Nat
    BY MigrationShape DEF IInv, StartupTypeOK
  <2> QED
    BY <1>1, <1>2, <1>4, <2>1, MigrateKnows
<1>9. InStep(p)'
  BY <1>2, <1>4, <1>7, <1>8 DEF InStep, HasRead, Migrating, AtWork, Holding
<1>10. LeavesAlone(p) /\ Fair(p)
  BY <1>1, <1>8, MigrateKnows DEF IInv, StartupTypeOK, LeavesAlone, Fair
<1> QED
  BY <1>5, <1>6, <1>9, <1>10, OthersKeep

(* The command's own writes take the lock and give it back. *)
LEMMA WriteKeeps ==
    ASSUME IInv, NEW p \in Procs, Write(p) \/ Written(p)
    PROVE  IInv'
<1>1. PICK step \in {"open", "write"} :
        /\ pc[p] \in {"open", "write"} /\ lock \in {NoProc, p} /\ lock' \in {NoProc, p}
        /\ step = "write" => lock' = p
        /\ pc' = [pc EXCEPT ![p] = step]
        /\ UNCHANGED <<tables, versions, txn, at, met, sock, sockets>>
  BY DEF Write, Written, GoTo, IInv, InStep, Holding
<1>2. faults' \in 0..MaxFaults
  BY StartupAssumption DEF Write, Written, Fault, IInv, StartupTypeOK, StartupAssumption
<1>3. Version' = Version /\ Version \in Nat /\ Schema'
  BY <1>1, SameVersion, SchemaStays, MigrationShape DEF IInv, Schema
<1>4. StartupTypeOK'
  BY <1>1, <1>2 DEF IInv, StartupTypeOK, Steps
<1>5. pc'[p] = step /\ met' = met /\ tables' = tables
  BY <1>1 DEF IInv, StartupTypeOK
<1>6. InStep(p)'
  BY <1>1, <1>3, <1>5 DEF IInv, InStep, HasRead, Migrating, AtWork, Holding
<1>7. LeavesAlone(p) /\ Fair(p)
  BY <1>1, <1>3 DEF IInv, StartupTypeOK, LeavesAlone, Fair
<1> QED
  BY <1>3, <1>4, <1>6, <1>7, OthersKeep

(* Engines come and go without the database. *)
LEMMA TogglesKeep ==
    ASSUME IInv, NEW s \in Sockets, EngineToggles(s)
    PROVE  IInv'
<1>1. sockets' \subseteq Sockets /\ faults' \in 0..MaxFaults /\ UNCHANGED <<dbVars, procVars>>
  BY StartupAssumption DEF EngineToggles, Fault, IInv, StartupTypeOK, StartupAssumption
<1>2. Version' = Version /\ Schema'
  BY <1>1, SameVersion, SchemaStays DEF IInv, dbVars
<1>3. StartupTypeOK'
  BY <1>1 DEF IInv, StartupTypeOK, dbVars, procVars
<1>4. \A p \in Procs : InStep(p)'
  BY <1>1, <1>2 DEF IInv, InStep, Applied, dbVars, procVars
<1> QED
  BY <1>2, <1>3, <1>4 DEF IInv

-----------------------------------------------------------------------------
(* The invariant holds of a database that is not there yet. *)
LEMMA InitIInv == StartupInit => IInv
<1> SUFFICES ASSUME StartupInit PROVE IInv
  OBVIOUS
<1>1. Version = 0 /\ versions = 1..0 /\ TablesOf(0) = {}
  <2>1. 1..0 = {}
    OBVIOUS
  <2> QED
    BY <2>1, NewestVersion DEF StartupInit, Version, TablesOf
<1>2. Schema
  BY <1>1, MigrationShape DEF StartupInit, Schema
<1>3. StartupTypeOK
  BY StartupAssumption, MigrationShape
  DEF StartupInit, StartupTypeOK, Steps, NoTxn, Sockets, StartupAssumption
<1>4. \A p \in Procs : InStep(p)
  BY <1>1 DEF StartupInit, InStep, HasRead, Migrating, AtWork, Holding
<1> QED
  BY <1>2, <1>3, <1>4 DEF IInv

(* Every step keeps it. *)
LEMMA NextIInv == IInv /\ [StartupNext]_startupVars => IInv'
<1> SUFFICES ASSUME IInv, [StartupNext]_startupVars PROVE IInv'
  OBVIOUS
<1>1. ASSUME NEW p \in Procs, WithEngine(p) \/ WithStore(p) PROVE IInv'
  BY <1>1, StartKeeps DEF WithEngine, WithStore
<1>2. ASSUME NEW p \in Procs, Step(p) PROVE IInv'
  BY <1>2, SocketKeeps, CreateLogKeeps, ReadVersionKeeps, BeginImmediateKeeps, CreateTableKeeps,
     InsertVersionKeeps, CommitKeeps, WriteKeeps, ThrowsKeeps DEF Step, Close
<1>3. ASSUME NEW p \in Procs, Write(p) PROVE IInv'
  BY <1>3, WriteKeeps
<1>4. ASSUME NEW p \in Procs, Breaks(p) PROVE IInv'
  <2>1. faults' \in 0..MaxFaults
    BY <1>4, StartupAssumption DEF Breaks, Fault, IInv, StartupTypeOK, StartupAssumption
  <2> QED
    BY <1>4, <2>1, EndKeeps DEF Breaks
<1>5. ASSUME NEW s \in Range(Explicit) \union Range(Defaults), EngineToggles(s) PROVE IInv'
  BY <1>5, TogglesKeep DEF Sockets
<1>6. CASE UNCHANGED startupVars
  <2>1. Version' = Version /\ Schema'
    BY <1>6, SameVersion, SchemaStays DEF IInv, startupVars
  <2>2. StartupTypeOK'
    BY <1>6 DEF IInv, StartupTypeOK, startupVars
  <2>3. \A p \in Procs : InStep(p)'
    BY <1>6, <2>1 DEF IInv, InStep, Applied, startupVars
  <2> QED
    BY <2>1, <2>2, <2>3 DEF IInv
<1> QED
  BY <1>1, <1>2, <1>3, <1>4, <1>5, <1>6 DEF StartupNext

(* The invariant holds in every state. *)
LEMMA AlwaysIInv == StartupSpec => []IInv
BY InitIInv, NextIInv, PTL DEF StartupSpec

-----------------------------------------------------------------------------
(* The state is of the shape StartupTypeOK says: in particular there is    *)
(* never a table or a version that is in no migration.                     *)
THEOREM StartupTypeCorrect == StartupSpec => []StartupTypeOK
<1>1. IInv => StartupTypeOK
  BY DEF IInv
<1> QED
  BY <1>1, AlwaysIInv, PTL

(* However many processes of however many releases open the database at    *)
(* once, and wherever they die, the schema is that of the first n          *)
(* migrations, whole, and the log says so.                                 *)
THEOREM SchemaWholeAlways == StartupSpec => []SchemaWhole
<1>1. ASSUME IInv PROVE SchemaWhole
  <2>1. Version \in 0..Latest /\ versions = 1..Version
    BY <1>1 DEF IInv, Schema
  <2>2. tables \ {Log} = TablesOf(Version)
    BY <1>1, <2>1, LogIsApart DEF IInv, Schema
  <2> QED
    BY <2>1, <2>2 DEF SchemaWhole
<1> QED
  BY <1>1, AlwaysIInv, PTL

(* A command works on a database that has every table its release needs,   *)
(* though the version it read may be old.                                  *)
THEOREM OpenIsCurrentAlways == StartupSpec => []OpenIsCurrent
<1>1. ASSUME IInv, NEW p \in Procs, pc[p] \in {"open", "write"} PROVE TablesOf(Knows[p]) \subseteq tables
  <2>1. Knows[p] <= Version /\ Knows[p] \in 0..Latest /\ Version \in 0..Latest /\ TablesOf(Version) \subseteq tables
    BY <1>1, MigrationShape DEF IInv, InStep, AtWork, Schema
  <2> QED
    BY <2>1, OlderTables
<1>2. IInv => OpenIsCurrent
  BY <1>1 DEF OpenIsCurrent
<1> QED
  BY <1>2, AlwaysIInv, PTL

(* A release never works on a database that was newer than it knows when   *)
(* its command began.                                                      *)
THEOREM OldKeepsOutAlways == StartupSpec => []OldKeepsOut
<1>1. IInv => OldKeepsOut
  BY DEF IInv, InStep, OldKeepsOut, HasRead
<1> QED
  BY <1>1, AlwaysIInv, PTL

(* A socket named by the user is final, whatever is set and whatever       *)
(* sockets exist.                                                          *)
THEOREM ExplicitIsFinalAlways == StartupSpec => []ExplicitIsFinal
<1>1. ASSUME NEW there, NEW env \in SUBSET Range(Explicit)
      PROVE  LET s == Resolve(env, there) IN
             /\ s # NoSocket => s \in there
             /\ env # {} => s \in env \union {NoSocket}
             /\ \A i \in DOMAIN Explicit :
                    Explicit[i] \in env => s \in {Explicit[k] : k \in 1..i} \union {NoSocket}
             /\ env = {} /\ s = NoSocket => Range(Defaults) \intersect there = {}
  <2>1. /\ Explicit \in Seq(Range(Explicit)) /\ Defaults \in Seq(Range(Defaults))
        /\ NoSocket \notin Range(Explicit) \union Range(Defaults)
    BY StartupAssumption DEF StartupAssumption
  <2>2. DOMAIN Explicit = 1..Len(Explicit) /\ Len(Explicit) \in Nat
    BY <2>1
  <2>3. CASE env = {}
    <3>1. ExplicitSocket(env) = NoSocket
      BY <2>1, <2>3, FirstIsFirst DEF ExplicitSocket
    <3>2. Resolve(env, there) = First(Defaults, there)
      BY <3>1 DEF Resolve
    <3>3. /\ First(Defaults, there) # NoSocket => First(Defaults, there) \in there
          /\ First(Defaults, there) = NoSocket => Range(Defaults) \intersect there = {}
      <4>1. CASE First(Defaults, there) = NoSocket /\ Range(Defaults) \intersect there = {}
        BY <4>1
      <4>2. CASE \E i \in 1..Len(Defaults) : First(Defaults, there) = Defaults[i] /\ Defaults[i] \in there
        BY <2>1, <4>2 DEF Range
      <4> QED
        BY <2>1, <4>1, <4>2, FirstIsFirst
    <3>4. \A i \in DOMAIN Explicit : Explicit[i] \notin env
      BY <2>3
    <3> QED
      BY <2>3, <3>2, <3>3, <3>4
  <2>4. CASE env # {}
    <3>1. Range(Explicit) \intersect env # {}
      BY <2>4
    <3>2. PICK i \in 1..Len(Explicit) :
            /\ ExplicitSocket(env) = Explicit[i] /\ Explicit[i] \in env
            /\ \A j \in 1..Len(Explicit) : Explicit[j] \in env => i <= j
      BY <2>1, <3>1, FirstIsFirst DEF ExplicitSocket
    <3>3. Explicit[i] \in Range(Explicit) /\ Explicit[i] # NoSocket
      BY <2>1, <2>2, <3>2 DEF Range
    <3>4. Resolve(env, there) = IF Explicit[i] \in there THEN Explicit[i] ELSE NoSocket
      BY <3>2, <3>3 DEF Resolve
    <3>5. \A j \in 1..Len(Explicit) : Explicit[j] \in env => i \in 1..j
      BY <2>2, <3>2
    <3> QED
      BY <2>2, <2>4, <3>2, <3>4, <3>5
  <2> QED
    BY <2>3, <2>4
<1>2. ExplicitIsFinal
  BY <1>1 DEF ExplicitIsFinal
<1> QED
  BY <1>2, PTL

-----------------------------------------------------------------------------
(* Releases and newer schemas. *)

(* Nobody commits a migration that a process which has read the version    *)
(* does not know.                                                          *)
NotOutrun ==
    \A p, q \in Procs : pc[p] \in HasRead /\ pc[q] = "commit" => at[q] <= Knows[p]

(* What was read is still known. *)
StillKnown == \A p \in Procs : pc[p] \in HasRead => Version <= Knows[p]

LEMMA CommitVersion ==
    ASSUME IInv, NEW q \in Procs, Commit(q)
    PROVE  Version' = at[q]
<1> PICK n : n = at[q] OBVIOUS
<1>1. pc[q] = "commit" /\ versions' = txn.versions BY DEF Commit
<1>2. n = Version + 1 /\ versions' = versions \union {n} /\ versions = 1..Version /\ Version \in Nat
  BY <1>1 DEF IInv, InStep, Schema
<1>3. n \in Nat /\ versions' = 1..n BY <1>2
<1>4. MaxVersion(1..n) = n BY <1>3, NewestVersion
<1> QED BY <1>3, <1>4 DEF Version, MaxVersion

(* Only reading the version and going on from there leaves a process with  *)
(* a version that it has read.                                             *)
LEMMA ReadsOn ==
    ASSUME IInv, NEW p \in Procs, [StartupNext]_startupVars, pc'[p] \in HasRead
    PROVE  pc[p] \in HasRead \/ (ReadVersion(p) /\ Version <= Knows[p])
<1>t. pc \in [Procs -> Steps] BY DEF IInv, StartupTypeOK
<1>1. ASSUME NEW q \in Procs, WithEngine(q) \/ WithStore(q) PROVE pc[p] \in HasRead
  BY <1>1, <1>t DEF WithEngine, WithStore, Start, GoTo, HasRead
<1>2. ASSUME NEW q \in Procs, End(q) PROVE pc[p] \in HasRead
  BY <1>2, <1>t DEF End, GoTo, HasRead
<1>3. ASSUME NEW q \in Procs, ReadVersion(q) PROVE pc[p] \in HasRead \/ (ReadVersion(p) /\ Version <= Knows[p])
  <2>1. CASE End(q) BY <1>2, <2>1
  <2>2. CASE ~End(q) /\ p # q BY <1>3, <1>t, <2>2 DEF ReadVersion, Throws, GoTo
  <2>3. CASE ~End(q) /\ p = q
    <3>1. ~(Version > Knows[p]) BY <1>3, <2>3 DEF ReadVersion, Throws, TooNew, Version
    <3>2. Version \in Int /\ Knows[p] \in Int BY MigrationShape DEF IInv, Schema
    <3> QED BY <1>3, <2>3, <3>1, <3>2
  <2> QED BY <2>1, <2>2, <2>3
<1>4. ASSUME NEW q \in Procs,
             \/ \E env \in SUBSET Range(Explicit) : ResolveSocket(q, env)
             \/ Ping(q) \/ CreateLog(q)
      PROVE  pc[p] \in HasRead
  BY <1>2, <1>4, <1>t DEF ResolveSocket, Ping, CreateLog, Throws, GoTo, HasRead
<1>5. ASSUME NEW q \in Procs,
             BeginImmediate(q) \/ CreateTable(q) \/ InsertVersion(q) \/ Commit(q) \/ Write(q) \/ Written(q)
      PROVE  pc[p] \in HasRead
  BY <1>2, <1>5, <1>t DEF BeginImmediate, CreateTable, MigrationFails, InsertVersion, Commit, Write, Written,
                          Throws, GoTo, HasRead, procVars
<1>6. ASSUME NEW s, EngineToggles(s) PROVE pc[p] \in HasRead BY <1>6 DEF EngineToggles, procVars
<1>7. CASE UNCHANGED startupVars BY <1>7 DEF startupVars
<1> QED BY <1>1, <1>2, <1>3, <1>4, <1>5, <1>6, <1>7 DEF StartupNext, Step, Close, Breaks, Throws

(* Only a commit changes the version. *)
LEMMA OnlyCommits ==
    ASSUME IInv, [StartupNext]_startupVars, \A q \in Procs : ~Commit(q)
    PROVE  Version' = Version
<1>1. versions' = versions
  BY DEF StartupNext, Step, WithEngine, WithStore, Start, ResolveSocket, Ping, CreateLog, ReadVersion,
         BeginImmediate, CreateTable, MigrationFails, Unseen, InsertVersion, Write, Written, Close, Breaks,
         Throws, End, EngineToggles, dbVars, startupVars
<1> QED BY <1>1, SameVersion

(* A release works on a newer schema only if a newer one has outrun it:    *)
(* has committed a migration that it does not know between its reading of  *)
(* the version and its end (state/db.ts reads the version once).  However  *)
(* many releases open the database otherwise, the check keeps the old ones *)
(* out, for as long as they are at work (spec app-state:26).               *)
THEOREM OldNeverOnNewerUnlessOutrun ==
    StartupSpec /\ []NotOutrun => []OldNeverOnNewer
<1>1. StartupInit => StillKnown BY DEF StartupInit, StillKnown, HasRead
<1>2. IInv /\ StillKnown /\ NotOutrun /\ [StartupNext]_startupVars => StillKnown'
  <2> SUFFICES ASSUME IInv, StillKnown, NotOutrun, [StartupNext]_startupVars,
                      NEW p \in Procs, pc'[p] \in HasRead
               PROVE  Version' <= Knows[p]
    BY DEF StillKnown
  <2>1. pc[p] \in HasRead \/ (ReadVersion(p) /\ Version <= Knows[p]) BY ReadsOn
  <2>2. CASE \A q \in Procs : ~Commit(q) BY <2>1, <2>2, OnlyCommits DEF StillKnown
  <2>3. ASSUME NEW q \in Procs, Commit(q) PROVE Version' <= Knows[p]
    <3>1. pc[q] = "commit" /\ Version' = at[q] BY <2>3, CommitVersion DEF Commit
    <3>2. pc[p] \in HasRead
      <4>1. CASE ReadVersion(p)
        <5>1. pc[p] = "version" /\ p # q BY <3>1, <4>1 DEF ReadVersion
        <5>2. pc'[p] = pc[p] BY <2>3, <5>1 DEF Commit, GoTo, IInv, StartupTypeOK
        <5> QED BY <5>1, <5>2 DEF HasRead
      <4> QED BY <2>1, <4>1
    <3> QED BY <3>1, <3>2 DEF NotOutrun
  <2> QED BY <2>2, <2>3
<1>3. StillKnown => OldNeverOnNewer BY DEF StillKnown, OldNeverOnNewer, HasRead, Version
<1> QED BY <1>1, <1>2, <1>3, AlwaysIInv, PTL DEF StartupSpec

=============================================================================
