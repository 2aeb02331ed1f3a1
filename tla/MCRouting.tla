----------------------------- MODULE MCRouting -----------------------------
(* Routing on small instances: one process or two, two apps, one of them   *)
(* without a hostname.                                                     *)
EXTENDS Routing

CONSTANTS p1, p2, web, api

OneProc  == {p1}
TwoProcs == {p1, p2}

OneApp  == {web}
TwoApps == {web, api}

WithHost == {web}

(* What can go wrong of a process's own doing: a kill, a call refused.     *)
DeployFaults == {"crash", "callError", "removeError", "lostReply", "hookError",
                 "earlyExit", "restart"}
NoFaults       == {}
=============================================================================
