----------------------------- MODULE Settings -----------------------------
(***************************************************************************)
(* The stored ingress settings (state/settings.ts) and what `ingress up`   *)
(* takes from them.  setIngressSettings reads and validates outside of the *)
(* transaction it writes in, and writes one row per value.                 *)
(***************************************************************************)
EXTENDS Integers, FiniteSets

CONSTANTS Clients,    \* processes that run `paas ingress up`
          Ports,      \* ports a user may ask for, valid or not
          NoValue,    \* a value that is not stored, or not given
          Faults      \* a subset of {"crash", "sqlError"}

ASSUME SettingsAssumption ==
    /\ Ports \subseteq Int
    /\ NoValue \notin Int \union Clients \union {"off", "auto", "on"}
    /\ Faults \subseteq {"crash", "sqlError"}

VARIABLES
    stored,   \* the rows of table settings, as others read them
    writing,  \* writing[c]: the rows as c's open transaction has them
    lock,     \* the client whose BEGIN IMMEDIATE holds the database
    asked,    \* asked[c]: the changes of the command it runs
    left,     \* left[c]: the values it has still to write
    pc,       \* pc[c]: the statement it executes next
    seen      \* seen[c]: the settings its command works with

settingsVars == <<stored, writing, lock, asked, left, pc, seen>>

HttpKey  == "ingress.http_port"
HttpsKey == "ingress.https_port"
TlsKey   == "ingress.tls"

Fields == {TlsKey, HttpKey, HttpsKey}

(* --tls takes any word; "on" stands for every one that is not a mode.     *)
TlsModes == {"off", "auto"}
Values(tls, http, https) ==
    [f \in Fields |-> CASE f = TlsKey -> tls [] f = HttpKey -> http [] f = HttpsKey -> https]

Changes == {Values(tls, http, https) :
                tls \in TlsModes \union {"on", NoValue}, http, https \in Ports \union {NoValue}}

Default == Values("off", 80, 443)

Nothing == [f \in Fields |-> NoValue]

-----------------------------------------------------------------------------
(* getIngressSettings: defaults for what is not stored. *)
Effective(rows) == [f \in Fields |-> IF rows[f] = NoValue THEN Default[f] ELSE rows[f]]

Merge(current, changes) ==
    [f \in Fields |-> IF changes[f] = NoValue THEN current[f] ELSE changes[f]]

ValidPort(p) == p \in 1..65535

Given(changes) == {f \in Fields : changes[f] # NoValue}

(* Every value given is validated, and the ports that result differ.       *)
SlipValid(current, changes) ==
    /\ changes[TlsKey] \in TlsModes \union {NoValue}
    /\ \A f \in {HttpKey, HttpsKey} \intersect Given(changes) : ValidPort(changes[f])
    /\ changes[HttpKey] = changes[HttpsKey] => changes[HttpKey] = NoValue
SlipUnchecked(current, changes) == Merge(current, changes)[HttpKey] # Merge(current, changes)[HttpsKey]
Valid(current, changes) ==
    /\ changes[TlsKey] \in TlsModes \union {NoValue}
    /\ \A f \in {HttpKey, HttpsKey} \intersect Given(changes) : ValidPort(changes[f])
    /\ Merge(current, changes)[HttpKey] # Merge(current, changes)[HttpsKey]

-----------------------------------------------------------------------------
End(c) ==
    /\ pc' = [pc EXCEPT ![c] = "idle"]
    /\ asked' = [asked EXCEPT ![c] = Nothing]
    /\ left' = [left EXCEPT ![c] = {}]
    /\ seen' = [seen EXCEPT ![c] = Default]
    /\ writing' = [writing EXCEPT ![c] = Nothing]

Ask(c, changes) ==
    /\ pc[c] = "idle"
    /\ pc' = [pc EXCEPT ![c] = "read"]
    /\ asked' = [asked EXCEPT ![c] = changes]
    /\ UNCHANGED <<stored, writing, lock, left, seen>>

(* One SELECT, then the validation of all values at once.                  *)
ReadAndValidate(c) ==
    /\ pc[c] = "read"
    /\ LET current == Effective(stored)
       IN  IF ~Valid(current, asked[c])
           THEN End(c)
           ELSE /\ seen' = [seen EXCEPT ![c] = Merge(current, asked[c])]
                /\ pc' = [pc EXCEPT ![c] = IF Given(asked[c]) = {} THEN "use" ELSE "begin"]
                /\ UNCHANGED <<writing, asked, left>>
    /\ UNCHANGED <<stored, lock>>

(* BEGIN IMMEDIATE takes the write lock or throws at once. *)
BeginImmediate(c) ==
    /\ pc[c] = "begin"
    /\ IF lock = NoValue
       THEN /\ lock' = c
            /\ pc' = [pc EXCEPT ![c] = "write"]
            /\ left' = [left EXCEPT ![c] = Given(asked[c])]
            /\ writing' = [writing EXCEPT ![c] = stored]
            /\ UNCHANGED <<asked, seen>>
       ELSE End(c) /\ UNCHANGED lock
    /\ UNCHANGED stored

(* One upsert per value, in the order tls, http, https, seen by nobody     *)
(* before the commit.                                                      *)
InOrder(f, S) == f \in S /\ (f = HttpKey => TlsKey \notin S) /\ (f = HttpsKey => S = {HttpsKey})

SlipVisible(c, f) ==
    /\ stored' = [stored EXCEPT ![f] = asked[c][f]]
    /\ writing' = [writing EXCEPT ![c][f] = asked[c][f]]
PutRow(c, f) ==
    /\ writing' = [writing EXCEPT ![c][f] = asked[c][f]]
    /\ UNCHANGED stored

Upsert(c, f) ==
    /\ pc[c] = "write"
    /\ InOrder(f, left[c])
    /\ left' = [left EXCEPT ![c] = @ \ {f}]
    /\ PutRow(c, f)
    /\ UNCHANGED <<lock, asked, pc, seen>>

Commit(c) ==
    /\ pc[c] = "write"
    /\ left[c] = {}
    /\ stored' = writing[c]
    /\ lock' = NoValue
    /\ pc' = [pc EXCEPT ![c] = "use"]
    /\ writing' = [writing EXCEPT ![c] = Nothing]
    /\ UNCHANGED <<asked, left, seen>>

(* A statement throws and the transaction is rolled back; a kill rolls it  *)
(* back as well.                                                           *)
Undo(c) ==
    /\ lock' = IF lock = c THEN NoValue ELSE lock
    /\ End(c)
    /\ UNCHANGED stored

Rollback(c) == "sqlError" \in Faults /\ pc[c] \in {"read", "begin", "write"} /\ Undo(c)
Crash(c)    == "crash" \in Faults /\ pc[c] # "idle" /\ Undo(c)

(* ingressUp creates Caddy with the settings the call returned. *)
Use(c) ==
    /\ pc[c] = "use"
    /\ End(c)
    /\ UNCHANGED <<stored, lock>>

SettingsInit ==
    /\ stored = Nothing
    /\ writing = [c \in Clients |-> Nothing]
    /\ lock = NoValue
    /\ asked = [c \in Clients |-> Nothing]
    /\ left = [c \in Clients |-> {}]
    /\ pc = [c \in Clients |-> "idle"]
    /\ seen = [c \in Clients |-> Default]

SettingsNext ==
    \E c \in Clients :
        \/ \E changes \in Changes : Ask(c, changes)
        \/ ReadAndValidate(c) \/ BeginImmediate(c) \/ Commit(c) \/ Use(c)
        \/ \E f \in Fields : Upsert(c, f)
        \/ Rollback(c) \/ Crash(c)

SettingsSpec == SettingsInit /\ [][SettingsNext]_settingsVars

-----------------------------------------------------------------------------
(* Properties *)

SettingsTypeOK ==
    /\ stored[TlsKey] \in TlsModes \union {NoValue}
    /\ \A f \in {HttpKey, HttpsKey} : stored[f] = NoValue \/ ValidPort(stored[f])
    /\ lock \in Clients \union {NoValue}
    /\ asked \in [Clients -> Changes]
    /\ left \in [Clients -> SUBSET Fields]
    /\ pc \in [Clients -> {"idle", "read", "begin", "write", "use"}]
    /\ \A c \in Clients : \A f \in Fields : seen[c][f] # NoValue

(* One command's values are stored together or not at all, through failing *)
(* statements, kills and a second command (spec app-state:163).            *)
AllOrNothing ==
    [][stored' # stored =>
          \E c \in Clients :
              /\ pc[c] = "write"
              /\ \A f \in Given(asked[c]) : stored'[f] = asked[c][f]
              /\ \A f \in Fields \ Given(asked[c]) : stored'[f] = stored[f]]_settingsVars

(* "Ports must differ" (spec app-state:173), of what is stored. *)
StoredPortsDiffer == Effective(stored)[HttpKey] # Effective(stored)[HttpsKey]
=============================================================================
