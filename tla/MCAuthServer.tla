---------------------------- MODULE MCAuthServer ----------------------------
(* AuthServer on small instances, with the defaults of the code in seconds:   *)
(* pushRequestBudget 12, push.timeout_seconds 10, WaitDelay 2, WriteTimeout   *)
(* 15, of which a second is left for what a handler does before it pushes.    *)
EXTENDS AuthServer, TLC

CONSTANTS a, b, h1, h2, t1, t2, t3

OneTarget    == <<t1>>
TwoTargets   == <<t1, t2>>
ThreeTargets == <<t1, t2, t3>>
=============================================================================
