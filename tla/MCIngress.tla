----------------------------- MODULE MCIngress -----------------------------
(* Ingress on small instances: one port that is not a default, and the     *)
(* requests that leave, change and swap ports, or are invalid.             *)
EXTENDS Ingress

CONSTANTS c1, c2

TwoClients == {c1, c2}
OneClient  == {c1}

SomePorts == {8080}

SomeRequests ==
    {Nothing,
     Values("auto", 8080, NoValue),
     Values(NoValue, NoValue, 8080),
     Values("on", 8080, NoValue)}

AllFaults == {"crash", "sqlError"}
NoFaults  == {}

AllOutages == OutageKinds
NoOutages  == {}
=============================================================================
