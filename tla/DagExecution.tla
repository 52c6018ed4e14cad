---------------------------- MODULE DagExecution ----------------------------
(***************************************************************************)
(* What the scheduler promises of a pipeline's jobs, with no batches,      *)
(* chunks, futures or threads: a job starts when all it needs succeeded,   *)
(* at most `limit` run at a time, and what can no longer run is skipped.   *)
(***************************************************************************)
EXTENDS JobGraph

CONSTANTS Graphs, Limits

VARIABLES needs, limit,
          state   \* job -> queued, running, succeeded, failed or skipped

vars == <<needs, limit, state>>

In(s) == {j \in Jobs : state[j] = s}

Init == /\ needs \in Graphs /\ limit \in Limits
        /\ state = [j \in Jobs |-> "queued"]

Start(j) ==
    /\ state[j] = "queued"
    /\ needs[j] \subseteq In("succeeded")
    /\ Cardinality(In("running")) < limit
    /\ state' = [state EXCEPT ![j] = "running"]

Finish(j) ==
    /\ state[j] = "running"
    /\ \E s \in {"succeeded", "failed"} : state' = [state EXCEPT ![j] = s]

\* Some jobs are given up, each because a need failed or is given up.
Skip(S) ==
    /\ S \subseteq In("queued")
    /\ \A j \in S : needs[j] \cap (In("failed") \cup In("skipped") \cup S) # {}
    /\ state' = [j \in Jobs |-> IF j \in S THEN "skipped" ELSE state[j]]

Next ==
    /\ ~HasUnknown(needs) /\ ~HasCycle(needs)
    /\ UNCHANGED <<needs, limit>>
    /\ \/ \E j \in Jobs : Start(j) \/ Finish(j)
       \/ \E S \in SUBSET Jobs : Skip(S)

Spec == Init /\ [][Next]_vars
=============================================================================
