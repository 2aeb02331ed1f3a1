---------------------------- MODULE MCReconcile ----------------------------
(* Reconcile on small instances: p1 deploys and stops, p2 reconciles. *)
EXTENDS Reconcile, TLC

CONSTANTS p1, p2, a1, a2

TwoProcs == {p1, p2}
Janitor  == {p2}
OneProc  == {p2}
OneApp   == {a1}
TwoApps  == {a1, a2}

AllOptions   == SUBSET {"prune", "redeploy"}
BothOptions  == {{"prune", "redeploy"}}
PruneOptions == {{"prune"}}

Symmetry == Permutations(AppNames)

AllFaults    == {"crash", "callError", "removeError", "hookError"}
WreckFaults  == {"crash", "removeError", "lostReply", "hookError", "storeError"}
RaceFaults   == {"hookError", "outOfBand"}
GoneFaults   == {"outOfBand"}
NoFaults     == {}
=============================================================================
