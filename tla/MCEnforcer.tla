------------------------------- MODULE MCEnforcer ------------------------------
(***************************************************************************)
(* Instances of Enforcer for TLC: a workflow of two services.              *)
(***************************************************************************)
EXTENDS Enforcer

CONSTANTS s1, s2

TwoTasks == <<s1, s2>>

\* No number of pods, the reservation itself and a larger one.
AnyMinScale == {Invalid, 1, 5}

\* What yaml/forwards.yaml deploys: no annotation.
NoMinScale == {Missing}
================================================================================
