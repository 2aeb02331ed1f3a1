--------------------------- MODULE MCStateStore ---------------------------
(* StateStore on small instances. *)
EXTENDS StateStore, TLC

CONSTANTS c1, c2, a1, a2, h1, k1

TwoClients == {c1, c2}
OneApp     == {a1}
TwoApps    == {a1, a2}
OneHost    == {h1}
NoHosts    == {}
OneKey     == {k1}
NoKeys     == {}

AppKinds    == {"create", "set", "delete"}
DeployKinds == {"create", "delete", "deploy"}
AllKinds    == {"create", "set", "delete", "deploy"}

AllFaults == {"crash", "sqlError"}
Kill      == {"crash"}
NoFaults  == {}

Symmetry == Permutations(Clients) \union Permutations(AppNames)
=============================================================================
