---------------------------- MODULE MCStartup ----------------------------
(* Startup on small instances: the migrations of db.ts, a release that     *)
(* knows the first of them and one that knows both.                        *)
EXTENDS Startup, TLC

CONSTANTS p1, p2, p3

AllProcs == {p1, p2, p3}
TwoProcs == {p1, p2}

TheMigrations == <<<<"apps", "deployments", "deployment_events">>, <<"settings">>>>

OldAndNew == (p1 :> 2) @@ (p2 :> 2) @@ (p3 :> 1)
TwoNew    == (p1 :> 2) @@ (p2 :> 2)

TheVariables == <<"PAAS_SOCKET", "DOCKER_HOST">>
TheDefaults  == <<"docker.sock">>
NoSockets    == <<>>
=============================================================================
