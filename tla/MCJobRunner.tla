---------------------------- MODULE MCJobRunner ----------------------------
(* Instances of JobRunner for TLC. *)
EXTENDS JobRunner, TLC
CONSTANTS build, lint, test, stale

\* Every Docker call may fail for lint, those whose failure leaves something behind for
\* test, and none for build.
AllButBuild == [j \in Jobs |->
    CASE j = build -> {} [] j = lint -> Calls
      [] j = test -> {"create", "start", "stream", "remove", "disconnect", "remove_network"}]
NoFaults == [j \in Jobs |-> {}]
=============================================================================
