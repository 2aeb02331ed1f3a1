-------------------------- MODULE MCDockerAdapter --------------------------
(* DockerAdapter on small instances. *)
EXTENDS DockerAdapter, TLC

CONSTANTS c1, web, shell

OneClient  == {c1}
TwoNames   == {web, shell}
OneName    == {web}
WithTty    == {shell}
NoNames    == {}

AllCalls == c1 :> Operations
OneAlone == c1 :> {"create", "start", "stop", "pull", "inspect"}
=============================================================================
