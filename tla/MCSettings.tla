---------------------------- MODULE MCSettings ----------------------------
(* Settings on small instances: a default port, another one, and one that  *)
(* is no port.                                                             *)
EXTENDS Settings, TLC

CONSTANTS c1, c2

TwoClients == {c1, c2}
OneClient  == {c1}

SomePorts == {0, 443, 8080}

AllFaults == {"crash", "sqlError"}
NoFaults  == {}

Symmetry == Permutations(Clients)
=============================================================================
