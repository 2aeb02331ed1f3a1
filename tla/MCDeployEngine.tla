-------------------------- MODULE MCDeployEngine --------------------------
(* DeployEngine on small instances. *)
EXTENDS DeployEngine, TLC

CONSTANTS p1, p2, a1, a2

TwoProcs == {p1, p2}
OneProc  == {p1}
TwoApps  == {a1, a2}
OneApp   == {a1}

(* Processes are alike, and so are apps. *)
Symmetry == Permutations(Procs) \union Permutations(AppNames)

(* What may go wrong with processes, calls and rows, and what each other   *)
(* run allows.                                                             *)
RecordFaults == FaultKinds \ {"earlyExit", "restart", "outOfBand"}
CleanFaults  == {"callError", "hookError", "earlyExit", "restart", "outOfBand"}
DeployFaults == {"crash", "callError", "removeError", "lostReply", "hookError",
                 "earlyExit", "restart"}
LiveFaults   == {"callError", "removeError", "lostReply", "hookError", "earlyExit",
                 "restart", "outOfBand", "mark"}
NoFaults     == {}
MarkOnly     == {"mark", "callError"}
HookOnly     == {"hookError"}
=============================================================================
