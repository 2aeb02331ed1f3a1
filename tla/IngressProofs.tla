--------------------------- MODULE IngressProofs ---------------------------
(***************************************************************************)
(* Proofs about Ingress, for any number of processes, any ports and        *)
(* requests, any number of retries and whatever goes wrong.                *)
(***************************************************************************)
EXTENDS Ingress, TLAPS

(* Rows by what they hold: the stored ones, and settings without a gap.    *)
Table(r) == r = [f \in Fields |-> r[f]]

PortFields == {HttpKey, HttpsKey}

StoredRow(r) ==
    /\ Table(r)
    /\ r[TlsKey] \in TlsModes \union {NoValue}
    /\ \A f \in PortFields : r[f] = NoValue \/ (r[f] \in Ports /\ ValidPort(r[f]))

FullRow(r) ==
    /\ Table(r)
    /\ r[TlsKey] \in TlsModes
    /\ \A f \in PortFields : r[f] \in PortNumbers

(* What a request looks like, and one whose values were found valid.       *)
Request(a) ==
    /\ Table(a)
    /\ a[TlsKey] \in TlsModes \union {"on", NoValue}
    /\ \A f \in PortFields : a[f] \in Ports \union {NoValue}

Checked(a) ==
    /\ a[TlsKey] \in TlsModes \union {NoValue}
    /\ \A f \in PortFields : a[f] = NoValue \/ ValidPort(a[f])

-----------------------------------------------------------------------------
(* The three keys are different, and NoValue is no value. *)
LEMMA Keys ==
    /\ Fields = {TlsKey} \union PortFields
    /\ TlsKey \notin PortFields
    /\ HttpKey # HttpsKey
    /\ NoValue \notin TlsModes
    /\ NoValue \notin PortNumbers
    /\ NoValue \notin Clients
<1>1. Fields = {TlsKey} \union PortFields
  BY DEF Fields, PortFields
<1>2. TlsKey \notin PortFields /\ HttpKey # HttpsKey
  BY DEF TlsKey, PortFields, HttpKey, HttpsKey
<1>3. NoValue \notin TlsModes /\ NoValue \notin Clients /\ NoValue \notin Int
  BY SettingsAssumption, Zenon DEF TlsModes, SettingsAssumption
<1>4. PortNumbers \subseteq Int
  BY SettingsAssumption DEF PortNumbers, SettingsAssumption
<1> QED
  BY <1>1, <1>2, <1>3, <1>4, Zenon

(* A row of three values holds them at its keys. *)
LEMMA ValuesAt ==
    ASSUME NEW tls, NEW http, NEW https
    PROVE  /\ Table(Values(tls, http, https))
           /\ Values(tls, http, https)[TlsKey] = tls
           /\ Values(tls, http, https)[HttpKey] = http
           /\ Values(tls, http, https)[HttpsKey] = https
BY DEF Values, Table, Fields, TlsKey, HttpKey, HttpsKey

(* A change a user may ask for has the shape of a request. *)
LEMMA RequestShape == \A a \in Changes : Request(a)
BY ValuesAt DEF Changes, Request, PortFields

(* To ask for nothing is a change too, with no value anywhere. *)
LEMMA NothingShape == Nothing \in Changes /\ Table(Nothing) /\ (\A f \in Fields : Nothing[f] = NoValue)
<1>1. Table(Nothing) /\ (\A f \in Fields : Nothing[f] = NoValue)
  BY DEF Nothing, Table
<1>2. Values(NoValue, NoValue, NoValue) = Nothing
  BY DEF Values, Nothing, Fields
<1> QED
  BY <1>1, <1>2 DEF Changes

(* The defaults of settings.ts leave no gap. *)
LEMMA DefaultShape == FullRow(Default)
BY ValuesAt DEF Default, FullRow, TlsModes, PortFields, PortNumbers

(* What a command works with has no gaps. *)
LEMMA EffectiveShape ==
    ASSUME NEW r, StoredRow(r)
    PROVE  FullRow(Effective(r))
<1>1. Table(Effective(r)) /\ \A f \in Fields : Effective(r)[f] \in {r[f], Default[f]}
  BY DEF Table, Effective
<1>2. \A f \in Fields : r[f] = NoValue => Effective(r)[f] = Default[f]
  BY DEF Effective
<1> QED
  BY <1>1, <1>2, DefaultShape, Keys DEF StoredRow, FullRow, PortNumbers

(* A checked request merged into settings without a gap leaves none. *)
LEMMA MergeShape ==
    ASSUME NEW r, FullRow(r), NEW a, Request(a), Checked(a)
    PROVE  FullRow(Merge(r, a))
<1>1. Table(Merge(r, a)) /\ \A f \in Fields : Merge(r, a)[f] = IF a[f] = NoValue THEN r[f] ELSE a[f]
  BY DEF Table, Merge
<1> QED
  BY <1>1, Keys DEF FullRow, Request, Checked, PortNumbers

(* What the validation lets through is checked value by value. *)
LEMMA ValidChecks ==
    ASSUME NEW r, NEW a, Valid(r, a)
    PROVE  Checked(a)
BY Keys DEF Valid, Checked, Given, PortFields

-----------------------------------------------------------------------------
(* The invariant.  Sane is about types.  InStep ties the two halves of a   *)
(* process together and says what its transaction holds: the table as it   *)
(* is, with the values it has upserted so far.  Promise is what a command  *)
(* nobody has disturbed can rely on.                                       *)

Calls == {"none"} \union UpCalls \union DownCalls \union SyncCalls
SettingsPcs == {"idle", "read", "begin", "write", "use"}

Sane ==
    /\ StoredRow(stored)
    /\ lock \in Clients \union {NoValue}
    /\ asked \in [Clients -> Changes]
    /\ left \in [Clients -> SUBSET Fields]
    /\ pc \in [Clients -> SettingsPcs]
    /\ at \in [Clients -> Calls]
    /\ tries \in [Clients -> 0..MaxRetries]
    /\ calm \subseteq Clients
    /\ caddy \in Caddies \union {NoCaddy}
    /\ writing = [c \in Clients |-> writing[c]]
    /\ seen = [c \in Clients |-> seen[c]]
    /\ \A c \in Clients : Table(writing[c]) /\ FullRow(seen[c])

Written(c) ==
    \A f \in Fields :
        writing[c][f] = IF asked[c][f] # NoValue /\ f \notin left[c] THEN asked[c][f] ELSE stored[f]

InStep(c) ==
    /\ at[c] \in UpCalls => pc[c] = "use"
    /\ at[c] \in DownCalls \union SyncCalls => pc[c] = "idle"
    /\ pc[c] \in {"begin", "write"} => Checked(asked[c])
    /\ pc[c] \in {"begin", "write", "use"} => seen[c][HttpKey] # seen[c][HttpsKey]
    /\ pc[c] = "write" => lock = c /\ left[c] \subseteq Given(asked[c]) /\ Written(c)

Fits(c) == Exists /\ caddy.ports = PortsOf(seen[c])

Promise(c) ==
    /\ pc[c] \in {"begin", "write"} => seen[c] = Merge(Effective(stored), asked[c])
    /\ pc[c] = "use" => seen[c] = Effective(stored)
    /\ at[c] = "removeOld" /\ Exists => caddy.ports # PortsOf(seen[c])
    /\ at[c] \in {"startNew", "startOld", "push", "waiting", "done"} => Fits(c)
    /\ at[c] = "done" => Running /\ caddy.tls = seen[c][TlsKey]

IInv ==
    /\ Sane
    /\ \A c \in Clients : InStep(c)
    /\ \A c \in calm : Promise(c)

-----------------------------------------------------------------------------
(* Steps of c, from the point of view of everybody else.                   *)
LeavesAlone(c) ==
    \A d \in Clients \ {c} :
        /\ pc'[d] = pc[d] /\ at'[d] = at[d] /\ asked'[d] = asked[d] /\ left'[d] = left[d]
        /\ writing'[d] = writing[d] /\ seen'[d] = seen[d]

(* The database is touched only by one who holds or takes its lock, and    *)
(* whoever changes anything disturbs all others.                           *)
Fair(c) ==
    /\ lock \in {NoValue, c} \/ (stored' = stored /\ lock' = lock)
    /\ calm' = calm \intersect {c} \/ (calm' = calm \union {c} /\ stored' = stored /\ caddy' = caddy)

(* It is enough to look at the process that moves. *)
LEMMA OthersKeep ==
    ASSUME IInv, NEW c \in Clients, LeavesAlone(c), Fair(c), Sane', InStep(c)', c \in calm' => Promise(c)'
    PROVE  IInv'
<1>1. ASSUME NEW d \in Clients \ {c} PROVE InStep(d)'
  <2>1. InStep(d)
    BY DEF IInv
  <2>2. pc[d] = "write" => lock = d /\ lock' = lock /\ stored' = stored
    BY <2>1, Keys DEF InStep, Fair
  <2> QED
    BY <2>1, <2>2 DEF InStep, LeavesAlone, Written
<1>2. ASSUME NEW d \in calm', d # c PROVE Promise(d)'
  <2>1. calm' = calm \union {c} /\ stored' = stored /\ caddy' = caddy /\ d \in calm /\ d \in Clients \ {c}
    BY <1>2 DEF Fair, IInv, Sane
  <2> QED
    BY <2>1 DEF IInv, Promise, Fits, Exists, Running, LeavesAlone
<1> QED
  BY <1>1, <1>2 DEF IInv

(* The end of a command leaves the rows and requests of the right shape.   *)
LEMMA EndSane ==
    ASSUME Sane, NEW c \in Clients, End(c)
    PROVE  /\ asked' \in [Clients -> Changes]
           /\ left' \in [Clients -> SUBSET Fields]
           /\ pc' \in [Clients -> SettingsPcs]
           /\ writing' = [d \in Clients |-> writing'[d]]
           /\ seen' = [d \in Clients |-> seen'[d]]
           /\ \A d \in Clients : Table(writing'[d]) /\ FullRow(seen'[d])
<1>1. asked' \in [Clients -> Changes]
  BY NothingShape DEF Sane, End
<1>2. left' \in [Clients -> SUBSET Fields] /\ pc' \in [Clients -> SettingsPcs]
  BY DEF Sane, End, SettingsPcs
<1>3. writing' = [d \in Clients |-> IF d = c THEN Nothing ELSE writing[d]]
  BY DEF Sane, End
<1>4. seen' = [d \in Clients |-> IF d = c THEN Default ELSE seen[d]]
  BY DEF Sane, End
<1>5. writing' = [d \in Clients |-> writing'[d]] /\ seen' = [d \in Clients |-> seen'[d]]
  BY <1>3, <1>4
<1>6. \A d \in Clients : Table(writing'[d])
  BY <1>3, NothingShape DEF Sane
<1>7. \A d \in Clients : FullRow(seen'[d])
  BY <1>4, DefaultShape DEF Sane
<1> QED
  BY <1>1, <1>2, <1>5, <1>6, <1>7

(* A command that ends, with or without success. *)
LEMMA FinishKeeps ==
    ASSUME IInv, NEW c \in Clients, Finish(c), caddy' \in Caddies \union {NoCaddy}
    PROVE  IInv'
<1>1. Sane'
  <2>1. Sane /\ End(c) /\ UNCHANGED <<stored, lock>>
    BY DEF IInv, Finish
  <2>2. at' \in [Clients -> Calls] /\ tries' \in [Clients -> 0..MaxRetries]
    BY IngressAssumption DEF IInv, Sane, Finish, Calls, IngressAssumption
  <2>3. calm' \subseteq Clients
    BY DEF IInv, Sane, Finish, Alone
  <2> QED
    BY <2>1, <2>2, <2>3, EndSane DEF Sane, StoredRow
<1>2. pc'[c] = "idle" /\ at'[c] = "none"
  BY DEF IInv, Sane, Finish, End
<1>3. InStep(c)' /\ Promise(c)'
  BY <1>2 DEF InStep, Promise, UpCalls, DownCalls, SyncCalls
<1>4. LeavesAlone(c)
  BY DEF IInv, Sane, LeavesAlone, Finish, End
<1>5. Fair(c)
  BY DEF Fair, Finish, Alone
<1> QED
  BY <1>1, <1>3, <1>4, <1>5, OthersKeep

(* A command that goes on to its next call. *)
LEMMA GotoKeeps ==
    ASSUME IInv, NEW c \in Clients, NEW where \in Calls, Goto(c, where),
           caddy' \in Caddies \union {NoCaddy},
           where \in UpCalls => pc[c] = "use",
           where \in DownCalls \union SyncCalls => pc[c] = "idle",
           c \in calm /\ where = "removeOld" => caddy'.ports # PortsOf(seen[c]),
           c \in calm /\ where \in {"startNew", "startOld", "push", "waiting", "done"} => Fits(c)',
           c \in calm /\ where = "done" => Running' /\ caddy'.tls = seen[c][TlsKey]
    PROVE  IInv'
<1>1. Sane'
  BY DEF IInv, Sane, Goto, Alone, settingsVars
<1>2. at'[c] = where /\ UNCHANGED settingsVars
  BY DEF IInv, Sane, Goto
<1>3. InStep(c)'
  BY <1>2 DEF IInv, InStep, Written, settingsVars
<1>4. c \in calm' => Promise(c)'
  BY <1>2 DEF IInv, Promise, PortsOf, settingsVars, Goto, Alone
<1>5. LeavesAlone(c)
  BY DEF IInv, Sane, LeavesAlone, Goto, settingsVars
<1>6. Fair(c)
  BY DEF Fair, Goto, Alone, settingsVars
<1> QED
  BY <1>1, <1>3, <1>4, <1>5, <1>6, OthersKeep

-----------------------------------------------------------------------------
(* Containers.  Starting and stopping keep the ports. *)
LEMMA StartStop ==
    ASSUME Sane, Exists
    PROVE  /\ StartedCaddy \in Caddies /\ StartedCaddy.ports = caddy.ports
           /\ StoppedCaddy \in Caddies
<1>1. caddy \in Caddies
  BY DEF Sane, Exists
<1>2. \A s \in {"created", "running", "exited"} :
        /\ [caddy EXCEPT !.state = s, !.tls = "none", !.ready = FALSE] \in Caddies
        /\ [caddy EXCEPT !.state = s, !.tls = "none", !.ready = FALSE].ports = caddy.ports
  BY <1>1 DEF Caddies
<1> QED
  BY <1>1, <1>2 DEF StartedCaddy, StoppedCaddy

(* A new container has the ports its creator works with. *)
LEMMA FreshShape ==
    ASSUME Sane, NEW c \in Clients
    PROVE  Fresh(c) \in Caddies /\ Fresh(c).ports = PortsOf(seen[c])
<1>1. PortsOf(seen[c]) \in PortNumbers \X PortNumbers
  BY DEF Sane, FullRow, PortsOf, PortFields
<1> QED
  BY <1>1 DEF Fresh, Caddies

(* A container is not the absence of one. *)
LEMMA ThereOrNot == \A k \in Caddies : k # NoCaddy
BY IngressAssumption DEF IngressAssumption

(* A load changes nothing but the mode. *)
LEMMA LoadedShape ==
    ASSUME Sane, NEW c \in Clients
    PROVE  /\ Loaded(c) \in Caddies \union {NoCaddy}
           /\ ~Answering => Loaded(c) = caddy
           /\ Exists => /\ Loaded(c) \in Caddies
                        /\ Loaded(c).ports = caddy.ports /\ Loaded(c).by = caddy.by
                        /\ Loaded(c).state = caddy.state
           /\ Answering => Loaded(c).tls = seen[c][TlsKey]
<1>1. caddy \in Caddies \union {NoCaddy} /\ seen[c][TlsKey] \in TlsModes
  BY DEF Sane, FullRow
<1>2. CASE Answering
  <2>1. Exists /\ caddy \in Caddies /\ Loaded(c) = [caddy EXCEPT !.tls = seen[c][TlsKey]]
    BY <1>1, <1>2 DEF Answering, Running, Exists, Loaded
  <2> QED
    BY <1>1, <1>2, <2>1 DEF Caddies
<1>3. CASE ~Answering
  BY <1>1, <1>3 DEF Loaded, Exists
<1> QED
  BY <1>2, <1>3

(* A call makes a container of a container, or takes it away, or creates   *)
(* one with the ports its process works with.                              *)
LEMMA EffectShape ==
    ASSUME Sane, NEW c \in Clients
    PROVE  Effect(c) \in Caddies \union {NoCaddy}
<1>1. caddy \in Caddies \union {NoCaddy}
  BY DEF Sane
<1>2. Exists => StartedCaddy \in Caddies /\ StoppedCaddy \in Caddies
  BY StartStop
<1>3. Mine(c) => Exists
  BY DEF Mine
<1> QED
  BY <1>1, <1>2, <1>3, FreshShape, LoadedShape, Zenon DEF Effect

-----------------------------------------------------------------------------
(* One lemma per call of ingressUp that changes the container. *)
LEMMA InspectKeeps ==
    ASSUME IInv, NEW c \in Clients, Inspect(c)
    PROVE  IInv'
<1>1. caddy' = caddy /\ pc[c] = "use" /\ caddy' \in Caddies \union {NoCaddy}
  BY DEF IInv, Sane, Inspect
<1>2. CASE Goto(c, "create")
  BY <1>1, <1>2, GotoKeeps DEF Calls, UpCalls, DownCalls, SyncCalls
<1>3. CASE ~LabelsMatch(c) /\ Goto(c, "removeOld")
  <2>1. caddy'.ports # PortsOf(seen[c])
    BY <1>1, <1>3 DEF LabelsMatch
  <2> QED
    BY <1>1, <1>3, <2>1, GotoKeeps DEF Calls, UpCalls, DownCalls, SyncCalls
<1>4. ASSUME LabelsMatch(c), Exists, NEW where \in {"push", "startOld"}, Goto(c, where)
      PROVE  IInv'
  <2>1. Fits(c)'
    BY <1>1, <1>4 DEF LabelsMatch, Fits, Exists, Goto, settingsVars, PortsOf
  <2>2. where \in Calls /\ where \notin DownCalls \union SyncCalls /\ where # "done"
    BY <1>4 DEF Calls, UpCalls, DownCalls, SyncCalls
  <2> QED
    BY <1>1, <1>4, <2>1, <2>2, GotoKeeps
<1> QED
  BY <1>2, <1>3, <1>4 DEF Inspect

(* The removal of the old container makes way for a new one. *)
LEMMA RemoveOldKeeps ==
    ASSUME IInv, NEW c \in Clients, RemoveOld(c)
    PROVE  IInv'
<1>1. pc[c] = "use" /\ caddy' = NoCaddy /\ Goto(c, "create")
  BY DEF IInv, InStep, RemoveOld, UpCalls
<1> QED
  BY <1>1, GotoKeeps DEF Calls, UpCalls, DownCalls, SyncCalls

(* Who creates the container gets the ports it works with. *)
LEMMA CreateKeeps ==
    ASSUME IInv, NEW c \in Clients, Create(c)
    PROVE  IInv'
<1>1. pc[c] = "use" /\ caddy' = Fresh(c) /\ Goto(c, "startNew")
  BY DEF IInv, InStep, Create, UpCalls
<1>2. caddy' \in Caddies /\ Fits(c)'
  BY <1>1, FreshShape, ThereOrNot DEF IInv, Fits, Exists, Goto, settingsVars, PortsOf
<1> QED
  BY <1>1, <1>2, GotoKeeps DEF Calls, UpCalls, DownCalls, SyncCalls

(* A start that works keeps the ports; one that fails promises nothing. *)
LEMMA StartNewKeeps ==
    ASSUME IInv, NEW c \in Clients, StartNew(c)
    PROVE  IInv'
<1>1. pc[c] = "use" /\ at[c] = "startNew"
  BY DEF IInv, InStep, StartNew, UpCalls
<1>2. CASE Mine(c) /\ caddy' = StartedCaddy /\ Goto(c, "push")
  <2>1. caddy' \in Caddies /\ caddy'.ports = caddy.ports
    BY <1>2, StartStop DEF IInv, Mine
  <2>2. c \in calm => Fits(c)'
    BY <1>1, <1>2, <2>1, ThereOrNot DEF IInv, Promise, Fits, Exists, Goto, settingsVars, PortsOf
  <2> QED
    BY <1>1, <1>2, <2>1, <2>2, GotoKeeps DEF Calls, UpCalls, DownCalls, SyncCalls
<1>3. CASE Goto(c, "cleanup") /\ UNCHANGED caddy
  BY <1>1, <1>3, GotoKeeps DEF Calls, UpCalls, DownCalls, SyncCalls, IInv, Sane
<1> QED
  BY <1>2, <1>3 DEF StartNew

(* A stopped container with the right ports is started as it is. *)
LEMMA StartOldKeeps ==
    ASSUME IInv, NEW c \in Clients, StartOld(c)
    PROVE  IInv'
<1>1. pc[c] = "use" /\ at[c] = "startOld" /\ Goto(c, "push")
  BY DEF IInv, InStep, StartOld, UpCalls
<1>2. caddy' \in Caddies /\ caddy'.ports = caddy.ports
  BY StartStop DEF IInv, StartOld
<1>3. c \in calm => Fits(c)'
  BY <1>1, <1>2, ThereOrNot DEF IInv, Promise, Fits, Exists, Goto, settingsVars, PortsOf
<1> QED
  BY <1>1, <1>2, <1>3, GotoKeeps DEF Calls, UpCalls, DownCalls, SyncCalls

(* A push that arrives gives Caddy the mode its process works with. *)
LEMMA PushedKeeps ==
    ASSUME IInv, NEW c \in Clients, Pushed(c)
    PROVE  IInv'
<1>1. pc[c] = "use" /\ at[c] = "push" /\ Goto(c, "done") /\ Running
  BY DEF IInv, InStep, Pushed, UpCalls, Answering
<1>2. Answering /\ caddy' = Loaded(c)
  BY DEF Pushed
<1>3. /\ caddy' \in Caddies /\ caddy'.ports = caddy.ports
      /\ caddy'.state = "running" /\ caddy'.tls = seen[c][TlsKey]
  BY <1>1, <1>2, LoadedShape DEF IInv, Running
<1>4. Running'
  BY <1>3, ThereOrNot DEF Running, Exists
<1>5. c \in calm => Fits(c)'
  BY <1>1, <1>3, ThereOrNot DEF IInv, Promise, Fits, Exists, Goto, settingsVars, PortsOf
<1> QED
  BY <1>1, <1>3, <1>4, <1>5, GotoKeeps DEF Calls, UpCalls, DownCalls, SyncCalls

(* The calls that end a command of the three. *)
LEMMA EndingsKeep ==
    ASSUME IInv, NEW c \in Clients,
           Cleanup(c) \/ UpReturns(c) \/ NoSuchName(c) \/ Remove(c) \/ SyncLoads(c)
    PROVE  IInv'
<1>1. Finish(c)
  BY DEF Cleanup, UpReturns, NoSuchName, Remove, SyncLoads
<1>2. caddy \in Caddies \union {NoCaddy}
  BY DEF IInv, Sane
<1>3. CASE SyncLoads(c)
  <2>1. caddy' \in Caddies \union {NoCaddy}
    BY <1>3, LoadedShape DEF IInv, SyncLoads
  <2> QED
    BY <1>1, <2>1, FinishKeeps
<1>4. CASE Cleanup(c) \/ UpReturns(c) \/ NoSuchName(c) \/ Remove(c)
  <2>1. caddy' \in Caddies \union {NoCaddy}
    BY <1>2, <1>4 DEF Cleanup, UpReturns, NoSuchName, Remove
  <2> QED
    BY <1>1, <2>1, FinishKeeps
<1> QED
  BY <1>3, <1>4

(* The next attempt at a push, or the end after the last. *)
LEMMA AgainKeeps ==
    ASSUME IInv, NEW c \in Clients, Again(c), pc[c] = "use",
           caddy' \in Caddies \union {NoCaddy}, c \in calm => Fits(c)'
    PROVE  IInv'
<1>1. CASE Tired(c)
  BY <1>1, FinishKeeps DEF Again
<1>2. CASE ~Tired(c)
  <2>1. /\ tries' = [tries EXCEPT ![c] = IF @ = MaxRetries THEN @ ELSE @ + 1]
        /\ at' = [at EXCEPT ![c] = "push"] /\ Alone(c) /\ UNCHANGED settingsVars
    BY <1>2 DEF Again
  <2>2. tries' \in [Clients -> 0..MaxRetries]
    BY <2>1, IngressAssumption DEF IInv, Sane, IngressAssumption
  <2>3. at' \in [Clients -> Calls] /\ at'[c] = "push"
    BY <2>1 DEF IInv, Sane, Calls, UpCalls
  <2>4. Sane'
    BY <2>1, <2>2, <2>3 DEF IInv, Sane, Alone, settingsVars, StoredRow
  <2>5. InStep(c)'
    BY <2>1, <2>3 DEF IInv, InStep, Written, settingsVars, DownCalls, SyncCalls
  <2>6. c \in calm' => Promise(c)'
    BY <2>1, <2>3 DEF IInv, Promise, Alone, settingsVars
  <2>7. LeavesAlone(c) /\ Fair(c)
    BY <2>1 DEF IInv, Sane, LeavesAlone, Fair, Alone, settingsVars
  <2> QED
    BY <2>4, <2>5, <2>6, <2>7, OthersKeep
<1> QED
  BY <1>1, <1>2

(* Whatever becomes of a load, the container keeps its ports. *)
LEMMA LoadKeepsFit ==
    ASSUME IInv, NEW c \in Clients, at[c] = "push", caddy' \in {caddy, Effect(c)}, seen' = seen
    PROVE  /\ caddy' \in Caddies \union {NoCaddy}
           /\ c \in calm => Fits(c)'
<1>1. caddy' \in {caddy, Loaded(c)} /\ Sane
  BY DEF Effect, IInv
<1>2. caddy' \in Caddies \union {NoCaddy}
  BY <1>1, LoadedShape DEF Sane
<1>3. c \in calm => Fits(c)
  BY DEF IInv, Promise
<1>4. Fits(c) => Fits(c)'
  BY <1>1, LoadedShape, ThereOrNot DEF Sane, Fits, Exists, PortsOf
<1> QED
  BY <1>2, <1>3, <1>4

(* A push whose answer did not come is made again, or was the last one. *)
LEMMA RetryKeeps ==
    ASSUME IInv, NEW c \in Clients, Retry(c)
    PROVE  IInv'
<1>1. at[c] = "push" /\ caddy' \in {caddy, Effect(c)} /\ Again(c) /\ pc[c] = "use"
  BY DEF IInv, InStep, Retry, UpCalls
<1>2. CASE Tired(c)
  <2>1. caddy' \in Caddies \union {NoCaddy}
    BY <1>1, EffectShape DEF IInv, Sane
  <2> QED
    BY <1>1, <1>2, <2>1, FinishKeeps DEF Again
<1>3. CASE ~Tired(c)
  <2>1. seen' = seen
    BY <1>1, <1>3 DEF Again, settingsVars
  <2> QED
    BY <1>1, <2>1, LoadKeepsFit, AgainKeeps
<1> QED
  BY <1>2, <1>3

(* A load that Caddy is silent about, and the end of the silence. *)
LEMMA SilenceKeeps ==
    ASSUME IInv, NEW c \in Clients, Silence(c)
    PROVE  IInv'
<1>1. at[c] = "push" /\ caddy' \in {caddy, Effect(c)} /\ Goto(c, "waiting") /\ pc[c] = "use"
  BY DEF IInv, InStep, Silence, UpCalls
<1>2. seen' = seen
  BY <1>1 DEF Goto, settingsVars
<1> QED
  BY <1>1, <1>2, LoadKeepsFit, GotoKeeps DEF Calls, UpCalls, DownCalls, SyncCalls

LEMMA BreaksKeeps ==
    ASSUME IInv, NEW c \in Clients, Breaks(c)
    PROVE  IInv'
<1>1. at[c] = "waiting" /\ caddy' = caddy /\ Again(c) /\ pc[c] = "use"
  BY DEF IInv, InStep, Breaks, UpCalls
<1>2. caddy' \in Caddies \union {NoCaddy}
  BY <1>1 DEF IInv, Sane
<1>3. CASE Tired(c)
  BY <1>1, <1>2, <1>3, FinishKeeps DEF Again
<1>4. CASE ~Tired(c)
  <2>1. c \in calm => Fits(c)'
    BY <1>1, <1>4 DEF IInv, Promise, Fits, Exists, PortsOf, Again, settingsVars
  <2> QED
    BY <1>1, <1>2, <2>1, AgainKeeps
<1> QED
  BY <1>3, <1>4

(* A refused call ends the command, or leads to the cleanup. *)
LEMMA CallFailsKeeps ==
    ASSUME IInv, NEW c \in Clients, CallFails(c)
    PROVE  IInv'
<1>1. caddy' \in Caddies \union {NoCaddy}
  BY EffectShape DEF IInv, Sane, CallFails
<1>2. CASE Finish(c)
  BY <1>1, <1>2, FinishKeeps
<1>3. CASE at[c] = "startNew" /\ Goto(c, "cleanup")
  <2>1. pc[c] = "use"
    BY <1>3 DEF IInv, InStep, UpCalls
  <2> QED
    BY <1>1, <1>3, <2>1, GotoKeeps DEF Calls, UpCalls, DownCalls, SyncCalls
<1> QED
  BY <1>2, <1>3 DEF CallFails

(* A stop keeps the container, for the removal that follows. *)
LEMMA StopKeeps ==
    ASSUME IInv, NEW c \in Clients, Stop(c)
    PROVE  IInv'
<1>1. pc[c] = "idle" /\ Goto(c, "remove")
  BY DEF IInv, InStep, Stop, DownCalls
<1>2. caddy' \in Caddies
  BY StartStop DEF IInv, Stop
<1> QED
  BY <1>1, <1>2, GotoKeeps DEF Calls, UpCalls, DownCalls, SyncCalls

-----------------------------------------------------------------------------
(* The commands' beginnings. *)
LEMMA BeginKeeps ==
    ASSUME IInv, NEW c \in Clients, NEW a \in Changes, UpBegin(c, a)
    PROVE  IInv'
<1>1. /\ pc[c] = "idle" /\ at[c] = "none" /\ pc' = [pc EXCEPT ![c] = "read"]
      /\ asked' = [asked EXCEPT ![c] = a] /\ calm' = calm \union {c}
      /\ UNCHANGED <<stored, writing, lock, left, seen, caddy, at, tries>>
  BY DEF UpBegin, Free, Ask
<1>2. Sane'
  BY <1>1 DEF IInv, Sane, SettingsPcs, StoredRow
<1>3. pc'[c] = "read" /\ at'[c] = "none"
  BY <1>1 DEF IInv, Sane
<1>4. InStep(c)' /\ Promise(c)'
  BY <1>3 DEF InStep, Promise, UpCalls, DownCalls, SyncCalls
<1>5. LeavesAlone(c) /\ Fair(c)
  BY <1>1 DEF IInv, Sane, LeavesAlone, Fair
<1> QED
  BY <1>2, <1>4, <1>5, OthersKeep

(* `ingress down` and a sync begin without touching anything. *)
LEMMA OthersBeginKeep ==
    ASSUME IInv, NEW c \in Clients, DownBegin(c) \/ SyncBegin(c)
    PROVE  IInv'
<1>1. PICK where \in {"stop", "sync"} :
        /\ pc[c] = "idle" /\ at' = [at EXCEPT ![c] = where] /\ calm' = calm \union {c}
        /\ UNCHANGED <<stored, writing, lock, asked, left, pc, seen, caddy, tries>>
  BY DEF DownBegin, SyncBegin, Free, settingsVars
<1>2. Sane'
  BY <1>1 DEF IInv, Sane, Calls, DownCalls, SyncCalls, StoredRow
<1>3. pc'[c] = "idle" /\ at'[c] = where
  BY <1>1 DEF IInv, Sane
<1>4. InStep(c)' /\ Promise(c)'
  BY <1>3 DEF InStep, Promise, UpCalls, DownCalls, SyncCalls
<1>5. LeavesAlone(c) /\ Fair(c)
  BY <1>1 DEF IInv, Sane, LeavesAlone, Fair
<1> QED
  BY <1>2, <1>4, <1>5, OthersKeep

(* A sync takes the settings as they are stored. *)
LEMMA SyncReadsKeeps ==
    ASSUME IInv, NEW c \in Clients, SyncReads(c)
    PROVE  IInv'
<1>1. /\ at[c] = "sync" /\ seen' = [seen EXCEPT ![c] = Effective(stored)]
      /\ at' = [at EXCEPT ![c] = "load"] /\ Alone(c)
      /\ UNCHANGED <<stored, writing, lock, asked, left, pc, caddy, tries>>
  BY DEF SyncReads
<1>2. FullRow(Effective(stored)) /\ pc[c] = "idle"
  BY <1>1, EffectiveShape DEF IInv, Sane, InStep, SyncCalls
<1>3. Sane'
  <2>1. seen' = [d \in Clients |-> IF d = c THEN Effective(stored) ELSE seen[d]]
    BY <1>1 DEF IInv, Sane
  <2>2. seen' = [d \in Clients |-> seen'[d]] /\ \A d \in Clients : FullRow(seen'[d])
    BY <1>2, <2>1 DEF IInv, Sane
  <2> QED
    BY <1>1, <2>2 DEF IInv, Sane, Calls, SyncCalls, Alone, StoredRow
<1>4. pc'[c] = "idle" /\ at'[c] = "load"
  BY <1>1, <1>2 DEF IInv, Sane
<1>5. InStep(c)' /\ Promise(c)'
  BY <1>4 DEF InStep, Promise, UpCalls, DownCalls, SyncCalls
<1>6. LeavesAlone(c) /\ Fair(c)
  BY <1>1 DEF IInv, Sane, LeavesAlone, Fair, Alone
<1> QED
  BY <1>3, <1>5, <1>6, OthersKeep

-----------------------------------------------------------------------------
(* The transaction.  A process in it makes no call, so the steps of Store  *)
(* leave `at` and the container alone.                                     *)
StoreFrame(c) == Alone(c) /\ UNCHANGED <<caddy, at, tries>>

(* A command that ends in the store, or that is killed. *)
LEMMA EndKeeps ==
    ASSUME IInv, NEW c \in Clients, End(c), stored' = stored, caddy' = caddy, Alone(c),
           lock' = lock \/ (lock = c /\ lock' = NoValue),
           tries' \in [Clients -> 0..MaxRetries], at' \in [Clients -> Calls],
           \A d \in Clients \ {c} : at'[d] = at[d],
           at'[c] = "none"
    PROVE  IInv'
<1>1. Sane'
  BY EndSane DEF IInv, Sane, Alone, StoredRow
<1>2. pc'[c] = "idle"
  BY DEF IInv, Sane, End
<1>3. InStep(c)' /\ Promise(c)'
  BY <1>2 DEF InStep, Promise, UpCalls, DownCalls, SyncCalls
<1>4. LeavesAlone(c) /\ Fair(c)
  BY DEF IInv, Sane, LeavesAlone, Fair, Alone, End
<1> QED
  BY <1>1, <1>3, <1>4, OthersKeep

(* In the store a process is at no call. *)
LEMMA NoCall ==
    ASSUME IInv, NEW c \in Clients, pc[c] \in {"read", "begin", "write"}
    PROVE  at[c] = "none"
BY DEF IInv, Sane, InStep, Calls

(* The read and the validation: a command that passes knows what will be. *)
LEMMA ReadKeeps ==
    ASSUME IInv, NEW c \in Clients, ReadAndValidate(c), StoreFrame(c)
    PROVE  IInv'
<1> DEFINE current == Effective(stored)
           next == IF Given(asked[c]) = {} THEN "use" ELSE "begin"
<1>1. at[c] = "none"
  BY NoCall DEF ReadAndValidate
<1>2. CASE ~Valid(current, asked[c])
  <2>1. End(c) /\ UNCHANGED <<stored, lock>>
    BY <1>2 DEF ReadAndValidate
  <2> QED
    BY <1>1, <2>1, EndKeeps DEF StoreFrame, IInv, Sane
<1>3. CASE Valid(current, asked[c])
  <2>1. /\ seen' = [seen EXCEPT ![c] = Merge(current, asked[c])] /\ pc' = [pc EXCEPT ![c] = next]
        /\ UNCHANGED <<writing, asked, left, stored, lock, caddy, at, tries>> /\ Alone(c)
    BY <1>3 DEF ReadAndValidate, StoreFrame
  <2>2. Checked(asked[c])
    BY <1>3, ValidChecks
  <2>3. asked[c] \in Changes /\ Request(asked[c])
    BY RequestShape DEF IInv, Sane
  <2>4. FullRow(Merge(current, asked[c]))
    BY <2>2, <2>3, EffectiveShape, MergeShape DEF IInv, Sane
  <2>5. next = "use" => Merge(current, asked[c]) = current
    <3>1. current = [f \in Fields |-> current[f]]
      BY DEF Effective
    <3> QED
      BY <3>1 DEF Given, Merge
  <2>6. pc'[c] = next /\ seen'[c] = Merge(current, asked[c]) /\ next \in {"use", "begin"}
    BY <2>1 DEF IInv, Sane
  <2>7. Sane'
    <3>1. seen' = [d \in Clients |-> IF d = c THEN Merge(current, asked[c]) ELSE seen[d]]
      BY <2>1 DEF IInv, Sane
    <3>2. seen' = [d \in Clients |-> seen'[d]] /\ \A d \in Clients : FullRow(seen'[d])
      BY <2>4, <3>1 DEF IInv, Sane
    <3>3. pc' \in [Clients -> SettingsPcs]
      BY <2>1, <2>6 DEF IInv, Sane, SettingsPcs
    <3> QED
      BY <2>1, <3>2, <3>3 DEF IInv, Sane, Alone, StoredRow
  <2>8. InStep(c)'
    <3>1. seen'[c][HttpKey] # seen'[c][HttpsKey]
      BY <1>3, <2>6 DEF Valid
    <3> QED
      BY <1>1, <2>1, <2>2, <2>6, <3>1 DEF InStep, UpCalls, DownCalls, SyncCalls
  <2>9. Promise(c)'
    BY <1>1, <2>1, <2>5, <2>6 DEF Promise
  <2>10. LeavesAlone(c) /\ Fair(c)
    BY <2>1 DEF IInv, Sane, LeavesAlone, Fair, Alone
  <2> QED
    BY <2>7, <2>8, <2>9, <2>10, OthersKeep
<1> QED
  BY <1>2, <1>3

(* The transaction begins with the table as it is, or the command ends. *)
LEMMA BeginImmediateKeeps ==
    ASSUME IInv, NEW c \in Clients, BeginImmediate(c), StoreFrame(c)
    PROVE  IInv'
<1>1. at[c] = "none" /\ pc[c] = "begin"
  BY NoCall DEF BeginImmediate
<1>2. CASE lock # NoValue
  <2>1. End(c) /\ UNCHANGED <<stored, lock>>
    BY <1>2 DEF BeginImmediate
  <2> QED
    BY <1>1, <2>1, EndKeeps DEF StoreFrame, IInv, Sane
<1>3. CASE lock = NoValue
  <2>1. /\ lock' = c /\ pc' = [pc EXCEPT ![c] = "write"]
        /\ left' = [left EXCEPT ![c] = Given(asked[c])] /\ writing' = [writing EXCEPT ![c] = stored]
        /\ UNCHANGED <<asked, seen, stored, caddy, at, tries>> /\ Alone(c)
    BY <1>3 DEF BeginImmediate, StoreFrame
  <2>2. /\ pc'[c] = "write" /\ left'[c] = Given(asked[c]) /\ writing'[c] = stored
    BY <2>1 DEF IInv, Sane
  <2>3. Sane'
    <3>1. writing' = [d \in Clients |-> IF d = c THEN stored ELSE writing[d]]
      BY <2>1 DEF IInv, Sane
    <3>2. writing' = [d \in Clients |-> writing'[d]] /\ \A d \in Clients : Table(writing'[d])
      BY <3>1 DEF IInv, Sane, StoredRow
    <3>3. left' \in [Clients -> SUBSET Fields] /\ pc' \in [Clients -> SettingsPcs]
      BY <2>1 DEF IInv, Sane, SettingsPcs, Given
    <3> QED
      BY <2>1, <3>2, <3>3 DEF IInv, Sane, Alone, StoredRow
  <2>4. Written(c)'
    BY <2>1, <2>2 DEF Written, Given
  <2>5. InStep(c)'
    BY <1>1, <2>1, <2>2, <2>4 DEF IInv, InStep, UpCalls, DownCalls, SyncCalls
  <2>6. c \in calm' => Promise(c)'
    BY <1>1, <2>1, <2>2 DEF IInv, Promise, Alone
  <2>7. LeavesAlone(c) /\ Fair(c)
    BY <1>3, <2>1 DEF IInv, Sane, LeavesAlone, Fair, Alone
  <2> QED
    BY <2>3, <2>5, <2>6, <2>7, OthersKeep
<1> QED
  BY <1>2, <1>3

(* An upsert writes one of the values that are left. *)
LEMMA UpsertKeeps ==
    ASSUME IInv, NEW c \in Clients, NEW f \in Fields, Upsert(c, f), StoreFrame(c)
    PROVE  IInv'
<1>1. /\ at[c] = "none" /\ pc[c] = "write" /\ f \in left[c]
      /\ left' = [left EXCEPT ![c] = @ \ {f}] /\ writing' = [writing EXCEPT ![c][f] = asked[c][f]]
      /\ UNCHANGED <<stored, lock, asked, pc, seen, caddy, at, tries>> /\ Alone(c)
  BY NoCall DEF Upsert, InOrder, PutRow, StoreFrame
<1>2. writing' = [d \in Clients |-> IF d = c THEN [writing[c] EXCEPT ![f] = asked[c][f]] ELSE writing[d]]
  BY <1>1 DEF IInv, Sane
<1>3. Table(writing[c])
  BY DEF IInv, Sane
<1>4. \A g \in Fields : writing'[c][g] = IF g = f THEN asked[c][f] ELSE writing[c][g]
  BY <1>2, <1>3 DEF Table
<1>5. Table(writing'[c])
  BY <1>2, <1>3 DEF Table
<1>6. left'[c] = left[c] \ {f}
  BY <1>1 DEF IInv, Sane
<1>7. Sane'
  <2>1. writing' = [d \in Clients |-> writing'[d]] /\ \A d \in Clients : Table(writing'[d])
    BY <1>2, <1>5 DEF IInv, Sane
  <2>2. left' \in [Clients -> SUBSET Fields]
    BY <1>1 DEF IInv, Sane
  <2> QED
    BY <1>1, <2>1, <2>2 DEF IInv, Sane, Alone, StoredRow
<1>8. lock = c /\ Written(c)
  BY <1>1 DEF IInv, InStep, Given
<1>9. asked[c][f] # NoValue => Written(c)'
  BY <1>1, <1>4, <1>6, <1>8 DEF Written
<1>10. asked[c][f] # NoValue
  BY <1>1 DEF IInv, InStep, Given
<1>11. InStep(c)'
  BY <1>1, <1>8, <1>9, <1>10 DEF IInv, InStep, UpCalls, DownCalls, SyncCalls
<1>12. c \in calm' => Promise(c)'
  BY <1>1 DEF IInv, Promise, Alone
<1>13. LeavesAlone(c) /\ Fair(c)
  BY <1>1, <1>2 DEF IInv, Sane, LeavesAlone, Fair, Alone
<1> QED
  BY <1>7, <1>11, <1>12, <1>13, OthersKeep

(* A row with the values of a checked request is a row to be stored, and   *)
(* reads as the request merged with what was effective before.             *)
LEMMA CommitShape ==
    ASSUME NEW r, StoredRow(r), NEW a, Request(a), Checked(a), NEW w, Table(w),
           \A f \in Fields : w[f] = IF a[f] # NoValue THEN a[f] ELSE r[f]
    PROVE  StoredRow(w) /\ Effective(w) = Merge(Effective(r), a)
<1>1. StoredRow(w)
  BY Keys DEF StoredRow, Request, Checked
<1>2. \A f \in Fields : Effective(w)[f] = Merge(Effective(r), a)[f]
  BY DEF Effective, Merge
<1>3. /\ Effective(w) = [f \in Fields |-> Effective(w)[f]]
      /\ Merge(Effective(r), a) = [f \in Fields |-> Merge(Effective(r), a)[f]]
  BY DEF Effective, Merge
<1> QED
  BY <1>1, <1>2, <1>3, Zenon

(* The commit stores what was validated, and what the process works with. *)
LEMMA CommitKeeps ==
    ASSUME IInv, NEW c \in Clients, Commit(c), StoreFrame(c)
    PROVE  IInv'
<1>1. /\ at[c] = "none" /\ pc[c] = "write" /\ left[c] = {} /\ stored' = writing[c] /\ lock' = NoValue
      /\ pc' = [pc EXCEPT ![c] = "use"] /\ writing' = [writing EXCEPT ![c] = Nothing]
      /\ UNCHANGED <<asked, left, seen, caddy, at, tries>> /\ Alone(c)
  BY NoCall DEF Commit, StoreFrame
<1>2. lock = c /\ Written(c) /\ Checked(asked[c])
  BY <1>1 DEF IInv, InStep
<1>3. Table(writing[c]) /\ Request(asked[c]) /\ StoredRow(stored)
  BY RequestShape DEF IInv, Sane
<1>4. StoredRow(writing[c]) /\ Effective(writing[c]) = Merge(Effective(stored), asked[c])
  <2>1. \A f \in Fields : writing[c][f] = IF asked[c][f] # NoValue THEN asked[c][f] ELSE stored[f]
    BY <1>1, <1>2 DEF Written
  <2> QED
    BY <1>2, <1>3, <2>1, CommitShape
<1>5. StoredRow(stored)' /\ Effective(stored') = Merge(Effective(stored), asked[c])
  BY <1>1, <1>4
<1>6. pc'[c] = "use"
  BY <1>1 DEF IInv, Sane
<1>7. Sane'
  <2>1. writing' = [d \in Clients |-> IF d = c THEN Nothing ELSE writing[d]]
    BY <1>1 DEF IInv, Sane
  <2>2. writing' = [d \in Clients |-> writing'[d]] /\ \A d \in Clients : Table(writing'[d])
    BY <2>1, NothingShape DEF IInv, Sane
  <2>3. pc' \in [Clients -> SettingsPcs]
    BY <1>1 DEF IInv, Sane, SettingsPcs
  <2> QED
    BY <1>1, <1>5, <2>2, <2>3 DEF IInv, Sane, Alone
<1>8. InStep(c)'
  BY <1>1, <1>6 DEF IInv, InStep, UpCalls, DownCalls, SyncCalls
<1>9. c \in calm' => Promise(c)'
  BY <1>1, <1>5, <1>6 DEF IInv, Promise, Alone
<1>10. LeavesAlone(c) /\ Fair(c)
  BY <1>1, <1>2 DEF IInv, Sane, LeavesAlone, Fair, Alone
<1> QED
  BY <1>7, <1>8, <1>9, <1>10, OthersKeep

(* Every step in the store keeps the invariant. *)
LEMMA StoreKeeps ==
    ASSUME IInv, NEW c \in Clients, Store(c)
    PROVE  IInv'
<1>1. StoreFrame(c)
  BY DEF Store, StoreFrame
<1>2. CASE Rollback(c)
  <2>1. at[c] = "none" /\ Undo(c)
    BY <1>2, NoCall DEF Rollback
  <2> QED
    BY <1>1, <2>1, EndKeeps DEF Undo, StoreFrame, IInv, Sane
<1> QED
  BY <1>1, <1>2, ReadKeeps, BeginImmediateKeeps, UpsertKeeps, CommitKeeps DEF Store

(* So does a kill, wherever it comes. *)
LEMMA KillKeeps ==
    ASSUME IInv, NEW c \in Clients, Kill(c)
    PROVE  IInv'
<1>1. /\ at' = [at EXCEPT ![c] = "none"] /\ tries' = [tries EXCEPT ![c] = 0]
      /\ Undo(c) /\ Alone(c) /\ caddy' = caddy
  BY DEF Kill
<1>2. at' \in [Clients -> Calls] /\ at'[c] = "none" /\ \A d \in Clients \ {c} : at'[d] = at[d]
  BY <1>1 DEF IInv, Sane, Calls
<1>3. tries' \in [Clients -> 0..MaxRetries]
  BY <1>1, IngressAssumption DEF IInv, Sane, IngressAssumption
<1> QED
  BY <1>1, <1>2, <1>3, EndKeeps DEF Undo

(* What Caddy does by itself changes no ports; if it stops, no command is  *)
(* calm any more.                                                          *)
LEMMA CaddyKeeps ==
    ASSUME IInv, AdminAnswers \/ CaddyExits
    PROVE  IInv'
<1>1. caddy \in Caddies /\ UNCHANGED <<settingsVars, at, tries>>
  BY DEF IInv, Sane, AdminAnswers, CaddyExits, Running, Exists
<1>2. caddy' \in Caddies
  BY <1>1 DEF AdminAnswers, CaddyExits, Caddies
<1>3. calm' \subseteq calm
  BY DEF AdminAnswers, CaddyExits
<1>4. Sane'
  BY <1>1, <1>2, <1>3 DEF IInv, Sane, settingsVars, StoredRow
<1>5. \A c \in Clients : InStep(c)'
  BY <1>1 DEF IInv, InStep, Written, settingsVars
<1>6. ASSUME NEW c \in calm' PROVE Promise(c)'
  <2>1. AdminAnswers /\ c \in calm
    BY <1>3, <1>6 DEF CaddyExits
  <2>2. /\ caddy'.ports = caddy.ports /\ caddy'.state = caddy.state /\ caddy'.tls = caddy.tls
    BY <1>1, <2>1 DEF AdminAnswers, Caddies
  <2> QED
    BY <1>1, <1>2, <2>1, <2>2, ThereOrNot
    DEF IInv, Promise, Fits, Exists, Running, settingsVars, PortsOf
<1> QED
  BY <1>4, <1>5, <1>6 DEF IInv

-----------------------------------------------------------------------------
(* The invariant holds at first, when nothing is stored and nobody works.  *)
LEMMA InitIInv == IngressInit => IInv
<1> SUFFICES ASSUME IngressInit PROVE IInv
  OBVIOUS
<1>1. StoredRow(stored)
  BY NothingShape, Keys DEF IngressInit, SettingsInit, StoredRow
<1>2. asked \in [Clients -> Changes] /\ \A c \in Clients : Table(writing[c]) /\ FullRow(seen[c])
  BY NothingShape, DefaultShape DEF IngressInit, SettingsInit
<1>3. tries \in [Clients -> 0..MaxRetries]
  BY IngressAssumption DEF IngressInit, IngressAssumption
<1>4. Sane
  BY <1>1, <1>2, <1>3 DEF IngressInit, SettingsInit, Sane, SettingsPcs, Calls
<1>5. \A c \in Clients : InStep(c)
  BY DEF IngressInit, SettingsInit, InStep, UpCalls, DownCalls, SyncCalls
<1> QED
  BY <1>4, <1>5 DEF IngressInit, IInv

(* Every step keeps it. *)
LEMMA NextIInv == IInv /\ [IngressNext]_allVars => IInv'
<1> SUFFICES ASSUME IInv, [IngressNext]_allVars PROVE IInv'
  OBVIOUS
<1>1. ASSUME NEW c \in Clients, NEW a \in Requests, UpBegin(c, a) PROVE IInv'
  BY <1>1, BeginKeeps, IngressAssumption DEF IngressAssumption
<1>2. ASSUME NEW c \in Clients, StartIngressItem(c) PROVE IInv'
  BY <1>2, BeginKeeps, NothingShape DEF StartIngressItem
<1>3. ASSUME NEW c \in Clients, UpStep(c) PROVE IInv'
  BY <1>3, StoreKeeps, InspectKeeps, RemoveOldKeeps, CreateKeeps, StartNewKeeps, EndingsKeep,
     StartOldKeeps, PushedKeeps, RetryKeeps, CallFailsKeeps DEF UpStep
<1>4. ASSUME NEW c \in Clients, DownBegin(c) \/ Stop(c) \/ Remove(c) PROVE IInv'
  BY <1>4, OthersBeginKeep, StopKeeps, EndingsKeep
<1>5. ASSUME NEW c \in Clients, SyncBegin(c) \/ SyncReads(c) \/ SyncLoads(c) PROVE IInv'
  BY <1>5, OthersBeginKeep, SyncReadsKeeps, EndingsKeep
<1>6. ASSUME NEW c \in Clients, Kill(c) PROVE IInv'
  BY <1>6, KillKeeps
<1>7. ASSUME NEW c \in Clients, Silence(c) \/ Breaks(c) PROVE IInv'
  BY <1>7, SilenceKeeps, BreaksKeeps
<1>8. CASE UNCHANGED allVars
  BY <1>8 DEF allVars, IInv, Sane, InStep, Written, Promise, Fits, Exists, Running, PortsOf, StoredRow
<1> QED
  BY <1>1, <1>2, <1>3, <1>4, <1>5, <1>6, <1>7, <1>8, CaddyKeeps DEF IngressNext

(* The invariant holds in every state. *)
LEMMA AlwaysIInv == IngressSpec => []IInv
BY InitIInv, NextIInv, PTL DEF IngressSpec

-----------------------------------------------------------------------------
(* The state is of the shape IngressTypeOK says: whatever is asked for,    *)
(* only values found valid are stored.                                     *)
THEOREM IngressTypeCorrect == IngressSpec => []IngressTypeOK
<1>1. IInv => SettingsTypeOK
  BY Keys DEF IInv, Sane, StoredRow, FullRow, SettingsTypeOK, SettingsPcs, PortFields
<1>2. IInv => IngressTypeOK
  BY <1>1 DEF IInv, Sane, InStep, IngressTypeOK, Calls
<1> QED
  BY <1>2, AlwaysIInv, PTL

(* An `ingress up` that nobody disturbs leaves Caddy running with the      *)
(* ports and the TLS mode that are stored, and the two ports differ, for   *)
(* any history before it.                                                  *)
THEOREM UpDeliversAlways == IngressSpec => []UpDelivers
<1>1. ASSUME IInv, NEW c \in calm, at[c] = "done"
      PROVE  /\ Running /\ caddy.ports = PortsOf(Effective(stored))
             /\ caddy.tls = Effective(stored)[TlsKey]
             /\ caddy.ports[1] # caddy.ports[2]
  <2>1. InStep(c) /\ Promise(c) /\ pc[c] = "use"
    BY <1>1 DEF IInv, Sane, InStep, UpCalls
  <2>2. caddy.ports = <<seen[c][HttpKey], seen[c][HttpsKey]>> /\ seen[c][HttpKey] # seen[c][HttpsKey]
    BY <1>1, <2>1 DEF InStep, Promise, Fits, PortsOf
  <2>3. caddy.ports[1] # caddy.ports[2]
    BY <2>2
  <2> QED
    BY <1>1, <2>1, <2>3 DEF Promise, Fits
<1>2. IInv => UpDelivers
  BY <1>1 DEF UpDelivers
<1> QED
  BY <1>2, AlwaysIInv, PTL

(* What one command asks for is stored whole or not at all. *)
THEOREM StoredTogether == IngressSpec => AllOrNothing
<1> DEFINE Whole ==
        stored' # stored =>
            \E c \in Clients :
                /\ pc[c] = "write"
                /\ \A f \in Given(asked[c]) : stored'[f] = asked[c][f]
                /\ \A f \in Fields \ Given(asked[c]) : stored'[f] = stored[f]
<1>1. ASSUME IInv, [IngressNext]_allVars, stored' # stored PROVE \E c \in Clients : Commit(c)
  BY <1>1 DEF IngressNext, allVars, settingsVars, UpBegin, Ask, StartIngressItem, UpStep, Store,
     ReadAndValidate, BeginImmediate, Upsert, PutRow, Rollback, Undo, Inspect, RemoveOld, Create,
     StartNew, Cleanup, StartOld, Pushed, Retry, UpReturns, NoSuchName, CallFails, Goto, Finish,
     Again, Silence, Breaks, DownBegin, Stop, Remove, SyncBegin, SyncReads, SyncLoads, Kill, AdminAnswers,
     CaddyExits
<1>2. ASSUME IInv, NEW c \in Clients, Commit(c) PROVE Whole
  <2>1. pc[c] = "write" /\ left[c] = {} /\ stored' = writing[c] /\ Written(c)
    BY <1>2 DEF IInv, InStep, Commit
  <2> QED
    BY <2>1 DEF Written, Given
<1>3. IInv /\ [IngressNext]_allVars => [Whole]_settingsVars
  BY <1>1, <1>2
<1> QED
  BY <1>3, AlwaysIInv, PTL DEF IngressSpec, AllOrNothing

(* An `ingress up` that nobody disturbs takes away or stops no Caddy that  *)
(* has the stored ports, whatever options it was given and wherever it     *)
(* fails: the labels are compared with what is stored by then, and only a  *)
(* container that differs is removed.  After any history.                  *)
THEOREM UpKeepsCaddyAlways == IngressSpec => UpKeepsCaddy
<1> DEFINE Kept == Exists' /\ caddy'.by = caddy.by /\ (Running => Running')
           Keeps == \A c \in calm \intersect calm' :
                        /\ pc[c] = "use" /\ at[c] # "cleanup"
                        /\ Exists /\ caddy.ports = PortsOf(Effective(stored))
                        => Exists' /\ caddy'.by = caddy.by /\ (Running => Running')
<1>1. ASSUME IInv, [IngressNext]_allVars, NEW c \in calm \intersect calm',
             pc[c] = "use", at[c] # "cleanup", Exists, caddy.ports = PortsOf(Effective(stored))
      PROVE  Kept
  <2>1. /\ c \in Clients /\ caddy \in Caddies /\ calm \subseteq Clients
        /\ at[c] # "removeOld" /\ at[c] \notin DownCalls \union SyncCalls
    BY <1>1 DEF IInv, Sane, InStep, Promise, Exists
  <2>2. ASSUME caddy' = caddy PROVE Kept
    BY <1>1, <2>2 DEF Exists, Running
  <2>3. ASSUME caddy' \in {caddy, Effect(c)} PROVE Kept
    <3>1. caddy' \in {caddy, StartedCaddy, Loaded(c)}
      BY <1>1, <2>1, <2>3 DEF Effect, DownCalls, SyncCalls
    <3>2. CASE caddy' = StartedCaddy
      <4>1. \A s, r : LET k == [caddy EXCEPT !.state = s, !.tls = "none", !.ready = r]
                      IN  k.by = caddy.by
        BY <2>1 DEF Caddies
      <4>2. caddy' \in Caddies /\ caddy'.by = caddy.by
        BY <1>1, <3>2, <4>1, StartStop DEF IInv, StartedCaddy
      <4>3. Running => caddy' = caddy
        BY <3>2 DEF StartedCaddy
      <4> QED
        BY <4>2, <4>3, ThereOrNot DEF Running, Exists
    <3>3. CASE caddy' = Loaded(c)
      BY <1>1, <2>1, <3>3, LoadedShape, ThereOrNot DEF IInv, Running, Exists
    <3> QED
      BY <2>2, <3>1, <3>2, <3>3
  <2>4. ASSUME NEW d \in Clients, Alone(d) PROVE d = c
    BY <1>1, <2>4 DEF Alone
  <2>5. ASSUME NEW d \in Clients, UpStep(d) PROVE Kept
    <3>1. Alone(d)
      BY <2>5 DEF UpStep, Store, Inspect, RemoveOld, Create, StartNew, Cleanup, StartOld, Pushed, Retry,
         Again, UpReturns, NoSuchName, CallFails, Goto, Finish
    <3>2. d = c
      BY <2>4, <3>1
    <3>3. caddy' \in {caddy, Effect(c)}
      BY <1>1, <2>1, <2>5, <3>2 DEF UpStep, Store, Inspect, RemoveOld, Create, StartNew, Cleanup,
         StartOld, Pushed, Retry, UpReturns, NoSuchName, CallFails, Effect, Exists
    <3> QED
      BY <2>3, <3>3
  <2>6. ASSUME NEW d \in Clients, Silence(d) \/ Breaks(d) PROVE Kept
    <3>1. Alone(d)
      BY <2>6 DEF Silence, Breaks, Again, Goto, Finish
    <3>2. caddy' \in {caddy, Effect(c)}
      BY <2>4, <2>6, <3>1 DEF Silence, Breaks
    <3> QED
      BY <2>3, <3>2
  <2>7. ASSUME NEW d \in Clients, Stop(d) \/ Remove(d) \/ SyncLoads(d) PROVE FALSE
    <3>1. d = c
      BY <2>4, <2>7 DEF Stop, Remove, SyncLoads, Goto, Finish
    <3> QED
      BY <2>1, <2>7, <3>1 DEF Stop, Remove, SyncLoads, DownCalls, SyncCalls
  <2>8. ASSUME AdminAnswers PROVE Kept
    <3>1. /\ caddy'.by = caddy.by /\ caddy'.state = caddy.state /\ caddy' \in Caddies
      BY <2>1, <2>8 DEF AdminAnswers, Caddies
    <3> QED
      BY <3>1, ThereOrNot DEF Running, Exists
  <2>9. ~CaddyExits
    BY <1>1 DEF CaddyExits
  <2>10. \/ \E d \in Clients : \/ UpStep(d) \/ Silence(d) \/ Breaks(d)
                               \/ Stop(d) \/ Remove(d) \/ SyncLoads(d)
         \/ AdminAnswers \/ caddy' = caddy
    BY <1>1, <2>9 DEF IngressNext, allVars, UpBegin, StartIngressItem, DownBegin, SyncBegin, SyncReads, Kill
  <2> QED
    BY <2>2, <2>5, <2>6, <2>7, <2>8, <2>10
<1>2. IInv /\ [IngressNext]_allVars => [Keeps]_allVars
  BY <1>1
<1> QED
  BY <1>2, AlwaysIInv, PTL DEF IngressSpec, UpKeepsCaddy

-----------------------------------------------------------------------------
(* The two statements that commands which cross can break: that the stored *)
(* ports differ, and that Caddy has them once nobody is at work.  Both     *)
(* hold as long as commands do not cross where the code leaves them open:  *)
(* between the read and the commit, and from the commit to Caddy.          *)

(* No two commands are between the read of the settings and the commit. *)
OneWriting == \A c, d \in Clients : {pc[c], pc[d]} \subseteq {"begin", "write"} => c = d

(* No two processes bring ingress up; others may take it down and sync it. *)
OneUp == \A c, d \in Clients : pc[c] # "idle" /\ pc[d] # "idle" => c = d

(* No command is cut off between its settings and Caddy. *)
UpsGoThrough == "crash" \notin Faults /\ "callError" \notin Outages

(* What c validated is still what its commit will make of the table. *)
Validated(c) == pc[c] \in {"begin", "write"} => seen[c] = Merge(Effective(stored), asked[c])

DiffInv == IInv /\ StoredPortsDiffer /\ \A c \in Clients : Validated(c)

(* The steps of c. *)
ProcessStep(c) ==
    \/ \E changes \in Requests : UpBegin(c, changes)
    \/ StartIngressItem(c) \/ UpStep(c) \/ Silence(c) \/ Breaks(c)
    \/ DownBegin(c) \/ Stop(c) \/ Remove(c)
    \/ SyncBegin(c) \/ SyncReads(c) \/ SyncLoads(c)
    \/ Kill(c)

(* Only a commit changes what is stored, only the read and the commit go   *)
(* on in the store, and nobody moves another process.                      *)
LEMMA StepMoves ==
    ASSUME IInv, NEW c \in Clients, ProcessStep(c)
    PROVE  /\ \A d \in Clients \ {c} : pc'[d] = pc[d] /\ seen'[d] = seen[d] /\ asked'[d] = asked[d]
           /\ Commit(c) \/ stored' = stored
           /\ pc'[c] \in {"begin", "write"} =>
                \/ ReadAndValidate(c)
                \/ pc[c] \in {"begin", "write"} /\ seen'[c] = seen[c] /\ asked'[c] = asked[c]
<1>1. pc \in [Clients -> SettingsPcs] /\ asked \in [Clients -> Changes] /\ seen = [d \in Clients |-> seen[d]]
  BY DEF IInv, Sane
<1> DEFINE Moves ==
        /\ \A d \in Clients \ {c} : pc'[d] = pc[d] /\ seen'[d] = seen[d] /\ asked'[d] = asked[d]
        /\ Commit(c) \/ stored' = stored
        /\ pc'[c] \in {"begin", "write"} =>
             \/ ReadAndValidate(c)
             \/ pc[c] \in {"begin", "write"} /\ seen'[c] = seen[c] /\ asked'[c] = asked[c]
<1>2. ASSUME End(c), stored' = stored PROVE Moves
  BY <1>1, <1>2 DEF End
<1>3. ASSUME UNCHANGED <<pc, seen, asked, stored>> PROVE Moves
  BY <1>3
<1>4. ASSUME NEW a, Ask(c, a) PROVE Moves
  BY <1>1, <1>4 DEF Ask
<1>5. ASSUME ReadAndValidate(c) PROVE Moves
  BY <1>1, <1>2, <1>5 DEF ReadAndValidate
<1>6. ASSUME BeginImmediate(c) PROVE Moves
  BY <1>1, <1>2, <1>6 DEF BeginImmediate
<1>7. ASSUME NEW f \in Fields, Upsert(c, f) PROVE Moves
  BY <1>3, <1>7 DEF Upsert, PutRow
<1>8. ASSUME Commit(c) PROVE Moves
  BY <1>1, <1>8 DEF Commit
<1>9. ASSUME Undo(c) PROVE Moves
  BY <1>2, <1>9 DEF Undo
<1>10. ASSUME SyncReads(c) PROVE Moves
  <2>1. pc[c] = "idle"
    BY <1>10 DEF IInv, InStep, SyncReads, SyncCalls
  <2> QED
    BY <1>1, <1>10, <2>1 DEF SyncReads
<1>11. ASSUME NEW w, Finish(c) \/ Goto(c, w) PROVE Moves
  BY <1>2, <1>3, <1>11 DEF Finish, Goto, settingsVars
<1>12. ASSUME Store(c) PROVE Moves
  BY <1>5, <1>6, <1>7, <1>8, <1>9, <1>12 DEF Store, Rollback
<1>13. ASSUME Retry(c) \/ Breaks(c) PROVE Moves
  <2>1. Again(c)
    BY <1>13 DEF Retry, Breaks
  <2>2. CASE UNCHANGED settingsVars
    BY <1>3, <2>2 DEF settingsVars
  <2> QED
    BY <1>11, <2>1, <2>2 DEF Again
<1>14. ASSUME UpStep(c) PROVE Moves
  BY <1>11, <1>12, <1>13, <1>14 DEF UpStep, Inspect, RemoveOld, Create, StartNew, Cleanup, StartOld,
     Pushed, UpReturns, NoSuchName, CallFails
<1>15. ASSUME Silence(c) PROVE Moves
  BY <1>11, <1>15 DEF Silence
<1> QED
  BY <1>3, <1>4, <1>9, <1>10, <1>11, <1>13, <1>14, <1>15 DEF ProcessStep, UpBegin, StartIngressItem, DownBegin, Stop,
     Remove, SyncBegin, SyncLoads, Kill, settingsVars

(* A read that passes knows what the commit will make of the table, and    *)
(* the two ports of it differ.                                             *)
LEMMA ReadValidates ==
    ASSUME IInv, NEW c \in Clients, ReadAndValidate(c), pc'[c] # "idle"
    PROVE  /\ seen'[c] = Merge(Effective(stored), asked[c])
           /\ stored' = stored /\ asked' = asked
           /\ pc'[c] = "use" => seen'[c] = Effective(stored)
<1>1. pc \in [Clients -> SettingsPcs] /\ seen = [d \in Clients |-> seen[d]]
  BY DEF IInv, Sane
<1>2. Valid(Effective(stored), asked[c])
  BY <1>1 DEF ReadAndValidate, End
<1>3. /\ seen'[c] = Merge(Effective(stored), asked[c]) /\ stored' = stored /\ asked' = asked
      /\ pc'[c] = "use" => Given(asked[c]) = {}
  BY <1>1, <1>2 DEF ReadAndValidate
<1>4. Given(asked[c]) = {} => Merge(Effective(stored), asked[c]) = Effective(stored)
  <2>1. Effective(stored) = [f \in Fields |-> Effective(stored)[f]]
    BY DEF Effective
  <2> QED
    BY <2>1 DEF Given, Merge
<1> QED
  BY <1>3, <1>4

(* A commit stores what the command validated. *)
LEMMA CommitStores ==
    ASSUME IInv, NEW c \in Clients, Commit(c), Validated(c)
    PROVE  /\ Effective(stored') = seen[c]
           /\ seen[c][HttpKey] # seen[c][HttpsKey]
           /\ pc[c] = "write" /\ pc'[c] = "use" /\ seen' = seen
<1>1. /\ pc[c] = "write" /\ left[c] = {} /\ stored' = writing[c]
      /\ pc' = [pc EXCEPT ![c] = "use"] /\ seen' = seen
  BY DEF Commit
<1>2. Written(c) /\ Checked(asked[c]) /\ seen[c][HttpKey] # seen[c][HttpsKey]
  BY <1>1 DEF IInv, InStep
<1>3. Table(writing[c]) /\ Request(asked[c]) /\ StoredRow(stored) /\ pc'[c] = "use"
  BY <1>1, RequestShape DEF IInv, Sane
<1>4. \A f \in Fields : writing[c][f] = IF asked[c][f] # NoValue THEN asked[c][f] ELSE stored[f]
  BY <1>1, <1>2 DEF Written
<1>5. Effective(writing[c]) = Merge(Effective(stored), asked[c])
  BY <1>2, <1>3, <1>4, CommitShape
<1> QED
  BY <1>1, <1>2, <1>3, <1>5 DEF Validated

(* What is not a process's step leaves the settings alone. *)
LEMMA NextIsProcess ==
    ASSUME [IngressNext]_allVars
    PROVE  \/ \E c \in Clients : ProcessStep(c)
           \/ UNCHANGED <<settingsVars, at>> /\ (AdminAnswers \/ CaddyExits \/ caddy' = caddy)
BY DEF IngressNext, ProcessStep, AdminAnswers, CaddyExits, allVars, settingsVars

(* So no step makes the stored ports equal while only one command is at it. *)
LEMMA DiffKept == DiffInv /\ OneWriting /\ [IngressNext]_allVars => DiffInv'
<1> SUFFICES ASSUME DiffInv, OneWriting, [IngressNext]_allVars PROVE DiffInv'
  OBVIOUS
<1>1. IInv /\ IInv' /\ \A c \in Clients : Validated(c)
  BY NextIInv DEF DiffInv
<1>2. ASSUME NEW c \in Clients, ProcessStep(c) PROVE StoredPortsDiffer' /\ \A d \in Clients : Validated(d)'
  <2>1. CASE Commit(c)
    <3>1. /\ Effective(stored') = seen[c] /\ seen[c][HttpKey] # seen[c][HttpsKey]
          /\ pc[c] = "write" /\ pc'[c] = "use"
      BY <1>1, <2>1, CommitStores
    <3>2. \A d \in Clients \ {c} : pc[d] \notin {"begin", "write"} /\ pc'[d] = pc[d]
      BY <1>1, <1>2, <3>1, StepMoves DEF OneWriting
    <3> QED
      BY <3>1, <3>2 DEF StoredPortsDiffer, Validated
  <2>2. CASE ~Commit(c)
    <3>1. stored' = stored
      BY <1>1, <1>2, <2>2, StepMoves
    <3>2. \A d \in Clients \ {c} : Validated(d)'
      BY <1>1, <1>2, <3>1, StepMoves DEF Validated
    <3>3. Validated(c)'
      <4>1. CASE ReadAndValidate(c) /\ pc'[c] # "idle"
        BY <1>1, <4>1, ReadValidates DEF Validated
      <4>2. CASE ~(ReadAndValidate(c) /\ pc'[c] # "idle")
        BY <1>1, <1>2, <3>1, <4>2, StepMoves DEF Validated
      <4> QED
        BY <4>1, <4>2
    <3> QED
      BY <3>1, <3>2, <3>3 DEF DiffInv, StoredPortsDiffer
  <2> QED
    BY <2>1, <2>2
<1>3. CASE UNCHANGED settingsVars
  BY <1>1, <1>3 DEF DiffInv, StoredPortsDiffer, Validated, settingsVars
<1> QED
  BY <1>1, <1>2, <1>3, NextIsProcess DEF DiffInv

(* "Ports must differ" of what is stored, for any number of commands, any  *)
(* of which may fail or be killed at any statement, as long as no two are  *)
(* between the read and the commit: that setIngressSettings validates      *)
(* outside of its transaction is all that can store one port twice.        *)
THEOREM StoredPortsDifferOneWriting == IngressSpec /\ []OneWriting => []StoredPortsDiffer
<1>1. IngressInit => DiffInv
  <2>1. HttpKey \in Fields /\ HttpsKey \in Fields
    BY DEF Fields
  <2>2. Effective(Nothing)[HttpKey] = Default[HttpKey] /\ Effective(Nothing)[HttpsKey] = Default[HttpsKey]
    BY <2>1 DEF Effective, Nothing
  <2>3. Default[HttpKey] = 80 /\ Default[HttpsKey] = 443
    BY ValuesAt DEF Default
  <2>4. Effective(Nothing)[HttpKey] # Effective(Nothing)[HttpsKey]
    BY <2>2, <2>3
  <2> QED
    BY <2>4, InitIInv DEF DiffInv, IngressInit, SettingsInit, StoredPortsDiffer, Validated
<1>2. DiffInv => StoredPortsDiffer
  BY DEF DiffInv
<1> QED
  BY <1>1, <1>2, DiffKept, PTL DEF IngressSpec

-----------------------------------------------------------------------------
(* PortsSettle, one `ingress up` at a time. *)

Settled == Exists => caddy.ports = PortsOf(Effective(stored))

(* What an up that may be disturbed by downs, syncs and Caddy itself can   *)
(* still rely on: nobody else makes a container.                           *)
AtWork(c) ==
    /\ Validated(c)
    /\ pc[c] = "use" => seen[c] = Effective(stored)
    /\ pc[c] \in {"read", "begin", "write"} \/ at[c] \in UpCalls \ {"removeOld", "create", "cleanup"} => Settled
    /\ at[c] = "startNew" /\ Exists => Mine(c)
    /\ at[c] \in {"create", "cleanup"} => ~Exists

SettleInv ==
    /\ IInv
    /\ (\A c \in Clients : pc[c] = "idle") => Settled
    /\ \A c \in Clients : pc[c] # "idle" => AtWork(c)

(* Caddy's container and the table, as far as the ports are concerned. *)
SamePlace == stored' = stored /\ (Exists' => Exists /\ caddy'.ports = caddy.ports /\ caddy'.by = caddy.by)

(* A step that makes no container, stores nothing and is none of an up     *)
(* disturbs no up.                                                         *)
LEMMA SamePlaceKeeps ==
    ASSUME SettleInv, IInv', SamePlace,
           \A d \in Clients :
                /\ pc'[d] = pc[d]
                /\ pc[d] # "idle" => at'[d] = at[d] /\ asked'[d] = asked[d] /\ seen'[d] = seen[d]
    PROVE  SettleInv'
<1>1. Settled => Settled'
  BY DEF Settled, SamePlace
<1>2. ASSUME NEW d \in Clients, pc[d] # "idle" PROVE AtWork(d)'
  <2>1. AtWork(d) /\ at'[d] = at[d] /\ asked'[d] = asked[d] /\ seen'[d] = seen[d] /\ pc'[d] = pc[d]
    BY <1>2 DEF SettleInv
  <2>2. Validated(d)' /\ (pc'[d] = "use" => seen'[d] = Effective(stored'))
    BY <2>1 DEF AtWork, Validated, SamePlace
  <2>3. /\ at'[d] = "startNew" /\ Exists' => Mine(d)'
        /\ at'[d] \in {"create", "cleanup"} => ~Exists'
    BY <2>1 DEF AtWork, Mine, SamePlace
  <2> QED
    BY <1>1, <2>1, <2>2, <2>3 DEF AtWork
<1> QED
  BY <1>1, <1>2 DEF SettleInv

(* The steps of the one up that is at work: it goes on with what it knows, *)
(* or ends with Caddy as it should be.                                     *)
Arrives(c) == (pc'[c] = "idle" => Settled') /\ (pc'[c] # "idle" => AtWork(c)')

LEMMA OnlyUp ==
    ASSUME SettleInv, OneUp, IInv', NEW c \in Clients, pc[c] # "idle",
           \A d \in Clients \ {c} : pc'[d] = pc[d], Arrives(c)
    PROVE  SettleInv'
<1>1. \A d \in Clients \ {c} : pc'[d] = "idle"
  BY DEF OneUp
<1> QED
  BY <1>1 DEF SettleInv, Arrives

(* The calls of an up. *)
LEMMA CallsArrive ==
    ASSUME IInv, UpsGoThrough, NEW c \in Clients, AtWork(c), pc[c] = "use", ~Store(c),
           UpStep(c) \/ Silence(c) \/ Breaks(c)
    PROVE  Arrives(c)
<1>1. /\ pc \in [Clients -> SettingsPcs] /\ at \in [Clients -> Calls] /\ caddy \in Caddies \union {NoCaddy}
      /\ seen[c] = Effective(stored)
  BY DEF IInv, Sane, AtWork
<1>2. ASSUME Finish(c), Settled' PROVE Arrives(c)
  BY <1>1, <1>2 DEF Finish, End, Arrives
<1>3. ASSUME NEW w \in Calls, Goto(c, w),
             w \in UpCalls \ {"removeOld", "create", "cleanup"} => Settled',
             w = "startNew" /\ Exists' => Mine(c)',
             w \in {"create", "cleanup"} => ~Exists'
      PROVE  Arrives(c)
  <2>1. UNCHANGED settingsVars /\ at'[c] = w
    BY <1>1, <1>3 DEF Goto
  <2>2. pc'[c] = "use" /\ seen'[c] = Effective(stored')
    BY <1>1, <2>1 DEF settingsVars
  <2>3. AtWork(c)'
    BY <1>3, <2>1, <2>2 DEF AtWork, Validated
  <2> QED
    BY <2>2, <2>3 DEF Arrives
<1>4. CASE Inspect(c)
  <2>1. UNCHANGED <<caddy, stored>>
    BY <1>4 DEF Inspect, Goto, settingsVars
  <2>2. Exists /\ LabelsMatch(c) => Settled'
    BY <1>1, <2>1 DEF LabelsMatch, Settled
  <2>3. Exists' = Exists
    BY <2>1 DEF Exists
  <2> QED
    BY <1>3, <1>4, <2>2, <2>3 DEF Inspect, Calls, UpCalls
<1>5. CASE RemoveOld(c)
  BY <1>3, <1>5 DEF RemoveOld, Calls, UpCalls, Exists
<1>6. CASE Create(c)
  <2>1. /\ Fresh(c).ports = PortsOf(Effective(stored)) /\ Fresh(c).by = c
        /\ caddy' = Fresh(c) /\ stored' = stored /\ Goto(c, "startNew")
    BY <1>1, <1>6 DEF Create, Fresh, Goto, settingsVars
  <2>2. Exists' => Settled' /\ Mine(c)'
    BY <2>1 DEF Settled, Mine
  <2>3. Settled' /\ (Exists' => Mine(c)')
    BY <2>2 DEF Settled
  <2> QED
    BY <1>3, <2>1, <2>3 DEF Calls, UpCalls
<1>7. ASSUME Exists, stored' = stored, Settled, caddy' = StartedCaddy PROVE Settled'
  BY <1>7, StartStop DEF IInv, Settled
<1>8. CASE StartNew(c)
  <2>1. stored' = stored /\ Settled /\ (Exists => Mine(c))
    BY <1>8 DEF StartNew, Goto, settingsVars, AtWork, UpCalls
  <2>2. CASE Mine(c) /\ caddy' = StartedCaddy /\ Goto(c, "push")
    BY <1>3, <1>7, <2>1, <2>2 DEF Mine, Calls, UpCalls
  <2>3. CASE ~Mine(c) /\ Goto(c, "cleanup") /\ UNCHANGED caddy
    BY <1>3, <2>1, <2>3 DEF Exists, Calls, UpCalls
  <2> QED
    BY <1>8, <2>2, <2>3 DEF StartNew
<1>9. CASE Cleanup(c)
  <2>1. ~Exists' /\ Finish(c)
    BY <1>9 DEF Cleanup, AtWork, Mine, Exists
  <2> QED
    BY <1>2, <2>1 DEF Settled
<1>10. CASE StartOld(c)
  <2>1. stored' = stored /\ Settled /\ Exists /\ caddy' = StartedCaddy /\ Goto(c, "push")
    BY <1>10 DEF StartOld, Goto, settingsVars, AtWork, UpCalls
  <2> QED
    BY <1>3, <1>7, <2>1 DEF Calls, UpCalls
<1>11. CASE Pushed(c)
  <2>1. stored' = stored /\ Settled /\ Exists /\ Goto(c, "done") /\ caddy' = Loaded(c)
    BY <1>11 DEF Pushed, Answering, Running, Goto, settingsVars, AtWork, UpCalls
  <2>2. caddy'.ports = caddy.ports
    BY <2>1, LoadedShape DEF IInv
  <2> QED
    BY <1>3, <2>1, <2>2 DEF Settled, Calls, UpCalls
<1>12. CASE Retry(c) \/ Silence(c) \/ Breaks(c)
  <2>1. at[c] \in {"push", "waiting"} /\ Settled
    BY <1>12 DEF Retry, Silence, Breaks, AtWork, UpCalls
  <2>2. caddy' \in {caddy, Loaded(c)} /\ stored' = stored
    BY <1>12 DEF Retry, Silence, Breaks, Effect, Again, Finish, Goto, settingsVars
  <2>3. Settled'
    <3>1. caddy' = NoCaddy \/ (Exists /\ caddy'.ports = caddy.ports)
      BY <2>2, LoadedShape DEF IInv, Exists, Loaded, Answering, Running
    <3> QED
      BY <2>1, <2>2, <3>1 DEF Settled, Exists
  <2>4. CASE Finish(c)
    BY <1>2, <2>3, <2>4
  <2>5. CASE Goto(c, "waiting")
    BY <1>3, <2>3, <2>5 DEF Calls, UpCalls
  <2>6. CASE Again(c) /\ ~Tired(c)
    <3>1. UNCHANGED <<pc, seen, asked, stored>> /\ at'[c] = "push"
      BY <1>1, <2>6 DEF Again, settingsVars
    <3>2. AtWork(c)' /\ pc'[c] = "use"
      BY <1>1, <2>3, <3>1 DEF AtWork, Validated
    <3> QED
      BY <3>2 DEF Arrives
  <2> QED
    BY <1>12, <2>4, <2>5, <2>6 DEF Retry, Silence, Breaks, Again
<1>13. CASE UpReturns(c)
  BY <1>2, <1>13 DEF UpReturns, Finish, AtWork, UpCalls, Settled, Exists
<1>14. CASE NoSuchName(c)
  <2>1. Finish(c) /\ UNCHANGED caddy /\ ~Exists
    BY <1>14 DEF NoSuchName, AtWork
  <2>2. Settled'
    BY <2>1 DEF Settled, Exists
  <2> QED
    BY <1>2, <2>1, <2>2
<1>15. CASE CallFails(c)
  BY <1>15 DEF CallFails, UpsGoThrough
<1> QED
  BY <1>4, <1>5, <1>6, <1>8, <1>9, <1>10, <1>11, <1>12, <1>13, <1>14, <1>15 DEF UpStep

(* The statements of an up in the store.  What is read or rolled back      *)
(* leaves Caddy and the table as they were; a commit leaves the command    *)
(* with the settings it is to bring to Caddy.                              *)
LEMMA StoreArrives ==
    ASSUME IInv, NEW c \in Clients, AtWork(c), pc[c] # "idle", Store(c)
    PROVE  Arrives(c)
<1>1. /\ pc \in [Clients -> SettingsPcs] /\ pc[c] \in {"read", "begin", "write"}
      /\ at[c] = "none" /\ at' = at /\ caddy' = caddy /\ ProcessStep(c)
  <2>1. pc[c] \in {"read", "begin", "write"}
    BY DEF Store, ReadAndValidate, BeginImmediate, Commit, Upsert, Rollback
  <2> QED
    BY <2>1, NoCall DEF IInv, Sane, Store, ProcessStep, UpStep
<1>2. Settled /\ Validated(c)
  BY <1>1 DEF AtWork
<1>3. CASE Commit(c)
  <2>1. Effective(stored') = seen[c] /\ pc'[c] = "use" /\ seen' = seen
    BY <1>2, <1>3, CommitStores
  <2>2. AtWork(c)'
    BY <1>1, <2>1 DEF AtWork, Validated, UpCalls
  <2> QED
    BY <2>1, <2>2 DEF Arrives
<1>4. CASE ~Commit(c)
  <2>1. stored' = stored /\ Settled'
    BY <1>1, <1>2, <1>4, StepMoves DEF Settled, Exists
  <2>2. ASSUME pc'[c] # "idle" PROVE Validated(c)' /\ (pc'[c] = "use" => seen'[c] = Effective(stored'))
    <3>1. CASE ReadAndValidate(c)
      BY <2>1, <2>2, <3>1, ReadValidates DEF Validated
    <3>2. CASE ~ReadAndValidate(c)
      <4>1. pc'[c] # "use"
        BY <1>1, <1>4, <2>2, <3>2 DEF Store, BeginImmediate, Upsert, Rollback, Undo, End
      <4>2. Validated(c)'
        BY <1>1, <1>2, <2>1, <3>2, StepMoves DEF Validated
      <4> QED
        BY <4>1, <4>2
    <3> QED
      BY <3>1, <3>2
  <2> QED
    BY <1>1, <2>1, <2>2 DEF Arrives, AtWork
<1> QED
  BY <1>3, <1>4

(* What is not a step of an up makes no container. *)
LEMMA OthersSamePlace ==
    ASSUME IInv, UpsGoThrough, NEW c \in Clients, ProcessStep(c), pc[c] = "idle", pc'[c] = "idle"
    PROVE  /\ SamePlace
           /\ \A d \in Clients :
                /\ pc'[d] = pc[d]
                /\ pc[d] # "idle" => at'[d] = at[d] /\ asked'[d] = asked[d] /\ seen'[d] = seen[d]
<1>1. /\ pc \in [Clients -> SettingsPcs] /\ at \in [Clients -> Calls] /\ caddy \in Caddies \union {NoCaddy}
      /\ at[c] \notin UpCalls /\ \A d \in Clients \ {c} : pc'[d] = pc[d] /\ seen'[d] = seen[d] /\ asked'[d] = asked[d]
  BY StepMoves DEF IInv, Sane, InStep
<1>2. stored' = stored
  BY StepMoves DEF Commit
<1>3. \/ DownBegin(c) \/ Stop(c) \/ Remove(c) \/ NoSuchName(c)
      \/ SyncBegin(c) \/ SyncReads(c) \/ SyncLoads(c)
  <2>1. ~Store(c)
    BY DEF Store, ReadAndValidate, BeginImmediate, Commit, Upsert, Rollback
  <2>2. ~UpBegin(c, Nothing) /\ \A a \in Requests : ~UpBegin(c, a)
    BY <1>1 DEF UpBegin, Ask
  <2>3. ~Kill(c) /\ ~CallFails(c)
    BY DEF Kill, CallFails, UpsGoThrough
  <2>4. ~Inspect(c) /\ ~RemoveOld(c) /\ ~Create(c) /\ ~StartNew(c) /\ ~Cleanup(c) /\ ~StartOld(c)
        /\ ~Pushed(c) /\ ~Retry(c) /\ ~UpReturns(c) /\ ~Silence(c) /\ ~Breaks(c)
    BY <1>1 DEF UpCalls, Inspect, RemoveOld, Create, StartNew, Cleanup, StartOld, Pushed, Retry,
       UpReturns, Silence, Breaks
  <2> QED
    BY <2>1, <2>2, <2>3, <2>4 DEF ProcessStep, UpStep, StartIngressItem
<1>4. \A d \in Clients \ {c} : at'[d] = at[d]
  BY <1>1, <1>3 DEF DownBegin, Stop, Remove, NoSuchName, SyncBegin, SyncReads, SyncLoads, Goto, Finish
<1>5. Exists' => Exists /\ caddy'.ports = caddy.ports /\ caddy'.by = caddy.by
  <2>1. ASSUME NEW k \in Caddies
        PROVE  /\ \A s : [k EXCEPT !.state = s, !.tls = "none", !.ready = FALSE].ports = k.ports
               /\ \A s : [k EXCEPT !.state = s, !.tls = "none", !.ready = FALSE].by = k.by
               /\ \A m : [k EXCEPT !.tls = m].ports = k.ports /\ [k EXCEPT !.tls = m].by = k.by
    BY DEF Caddies
  <2>2. caddy' = caddy \/ (Exists /\ caddy \in Caddies)
    BY <1>1, <1>3 DEF DownBegin, Stop, Remove, NoSuchName, SyncBegin, SyncReads, SyncLoads, Exists,
       Loaded, Answering, Running
  <2>3. \/ caddy' = caddy \/ caddy' = NoCaddy
        \/ \E s : caddy' = [caddy EXCEPT !.state = s, !.tls = "none", !.ready = FALSE]
        \/ \E m : caddy' = [caddy EXCEPT !.tls = m]
    BY <1>3 DEF DownBegin, Stop, Remove, NoSuchName, SyncBegin, SyncReads, SyncLoads, Loaded, StoppedCaddy
  <2>4. CASE caddy' = caddy \/ caddy' = NoCaddy
    BY <2>4 DEF Exists
  <2>5. CASE ~(caddy' = caddy \/ caddy' = NoCaddy)
    <3>1. Exists /\ caddy \in Caddies
      BY <2>2, <2>5
    <3>2. CASE \E s : caddy' = [caddy EXCEPT !.state = s, !.tls = "none", !.ready = FALSE]
      <4>1. PICK s : caddy' = [caddy EXCEPT !.state = s, !.tls = "none", !.ready = FALSE]
        BY <3>2
      <4> QED
        BY <2>1, <3>1, <4>1, Zenon
    <3>3. CASE \E m : caddy' = [caddy EXCEPT !.tls = m]
      <4>1. PICK m : caddy' = [caddy EXCEPT !.tls = m]
        BY <3>3
      <4> QED
        BY <2>1, <3>1, <4>1, Zenon
    <3> QED
      BY <2>3, <2>5, <3>2, <3>3
  <2> QED
    BY <2>4, <2>5
<1> QED
  BY <1>1, <1>2, <1>4, <1>5 DEF SamePlace

(* Everything keeps the promise of the one up that is at work. *)
LEMMA SettleKept == SettleInv /\ UpsGoThrough /\ OneUp /\ OneUp' /\ [IngressNext]_allVars => SettleInv'
<1> SUFFICES ASSUME SettleInv, UpsGoThrough, OneUp, OneUp', [IngressNext]_allVars PROVE SettleInv'
  OBVIOUS
<1>1. IInv /\ IInv'
  BY NextIInv DEF SettleInv
<1>2. ASSUME NEW c \in Clients, ProcessStep(c) PROVE SettleInv'
  <2>1. \A d \in Clients \ {c} : pc'[d] = pc[d]
    BY <1>1, <1>2, StepMoves
  <2>2. CASE pc[c] = "idle" /\ pc'[c] = "idle"
    BY <1>1, <1>2, <2>2, OthersSamePlace, SamePlaceKeeps
  <2>3. CASE pc[c] = "idle" /\ pc'[c] # "idle"
    <3>1. \E a : UpBegin(c, a)
      BY <1>1, <1>2, <2>3 DEF IInv, Sane, InStep, UpCalls, ProcessStep, StartIngressItem, UpStep, Store,
         ReadAndValidate, BeginImmediate, Commit, Upsert, Rollback, Undo, Inspect, RemoveOld, Create,
         StartNew, Cleanup, StartOld, Pushed, Retry, UpReturns, NoSuchName, CallFails, Silence, Breaks,
         Again, DownBegin, Stop, Remove, SyncBegin, SyncReads, SyncLoads, Kill, Goto, Finish, End,
         settingsVars
    <3>2. /\ at'[c] = "none" /\ pc'[c] = "read" /\ UNCHANGED <<caddy, stored>>
      BY <1>1, <3>1 DEF UpBegin, Free, Ask, IInv, Sane
    <3>3. \A d \in Clients \ {c} : pc'[d] = "idle"
      BY <2>3 DEF OneUp
    <3>4. Settled /\ Settled'
      BY <2>1, <2>3, <3>2, <3>3 DEF SettleInv, Settled, Exists
    <3>5. AtWork(c)'
      BY <3>2, <3>4 DEF AtWork, Validated
    <3> QED
      BY <1>1, <2>3, <3>3, <3>5 DEF SettleInv
  <2>4. CASE pc[c] # "idle"
    <3>1. AtWork(c)
      BY <2>4 DEF SettleInv
    <3>2. CASE Store(c)
      BY <1>1, <2>1, <2>4, <3>1, <3>2, StoreArrives, OnlyUp
    <3>3. CASE ~Store(c)
      <4>1. pc[c] = "use" /\ (UpStep(c) \/ Silence(c) \/ Breaks(c))
        BY <1>1, <1>2, <2>4, <3>3 DEF IInv, Sane, InStep, SettingsPcs, UpCalls, DownCalls, SyncCalls,
           ProcessStep, UpBegin, Free, StartIngressItem, UpStep, Inspect, RemoveOld, Create, StartNew,
           Cleanup, StartOld, Pushed, Retry, UpReturns, NoSuchName, CallFails, UpsGoThrough, Silence,
           Breaks, DownBegin, Stop, Remove, SyncBegin, SyncReads, SyncLoads, Kill
      <4> QED
        BY <1>1, <2>1, <2>4, <3>1, <3>3, <4>1, CallsArrive, OnlyUp
    <3> QED
      BY <3>2, <3>3
  <2> QED
    BY <2>2, <2>3, <2>4
<1>3. CASE UNCHANGED <<settingsVars, at>> /\ (AdminAnswers \/ CaddyExits \/ caddy' = caddy)
  <2>1. SamePlace
    <3>1. CASE caddy' = caddy
      BY <1>3, <3>1 DEF SamePlace, settingsVars, Exists
    <3>2. CASE AdminAnswers \/ CaddyExits
      <4>1. caddy \in Caddies /\ Exists
        BY <1>1, <3>2 DEF AdminAnswers, CaddyExits, Running, Exists, IInv, Sane
      <4>2. caddy'.ports = caddy.ports /\ caddy'.by = caddy.by
        BY <3>2, <4>1 DEF AdminAnswers, CaddyExits, Caddies
      <4> QED
        BY <1>3, <4>1, <4>2 DEF SamePlace, settingsVars
    <3> QED
      BY <1>3, <3>1, <3>2
  <2> QED
    BY <1>1, <1>3, <2>1, SamePlaceKeeps DEF settingsVars
<1> QED
  BY <1>2, <1>3, NextIsProcess

(* When nobody is at work, Caddy has the ports that are stored, whatever   *)
(* was asked for and refused, whatever statement failed, whoever takes     *)
(* Caddy down or loads configs meanwhile and however it exits: as long as  *)
(* no two commands bring ingress up at once, and none is cut off between   *)
(* what it stores and Caddy.                                               *)
THEOREM PortsSettleOneUp ==
    ASSUME UpsGoThrough
    PROVE  IngressSpec /\ []OneUp => []PortsSettle
<1>1. IngressInit => SettleInv
  BY InitIInv DEF SettleInv, IngressInit, SettingsInit, Settled, Exists
<1>2. SettleInv => PortsSettle
  BY DEF SettleInv, PortsSettle, Settled, Free
<1>3. SettleInv /\ OneUp /\ OneUp' /\ [IngressNext]_allVars => SettleInv'
  BY SettleKept
<1> QED
  BY <1>1, <1>2, <1>3, PTL DEF IngressSpec
=============================================================================
