---------------------------- MODULE JobScheduler ----------------------------
(***************************************************************************)
(* engine/scheduler.py: DAGScheduler plans the jobs of one pipeline in     *)
(* topological batches, runs each batch in chunks of at most `limit` jobs, *)
(* one pool thread per job, and propagates failures to the descendants.    *)
(*                                                                         *)
(* A batch is a set, its sort order being the order of the numbers.  The   *)
(* executor (JobRunner.run) is seen from the future it fills: a result     *)
(* with a clean exit, any other result, or an exception.                   *)
(***************************************************************************)
EXTENDS JobGraph, Sequences

CONSTANTS Graphs,   \* the job graphs considered, a subset of AllGraphs
          Limits    \* the values of engine.max_concurrency considered

ASSUME SchedulerAssumption == /\ Graphs \subseteq AllGraphs
                              /\ Limits \subseteq Nat

VARIABLES
    needs,     \* self.graph: job -> the names it needs
    limit,     \* self.concurrency_limit
    pc,        \* where DAGScheduler is
    indegree,  \* topological_batches: job -> number of its needs not yet placed
    ready,     \* topological_batches: the jobs of the next batch
    batches,   \* the batches planned and not yet entered, in order
    rest,      \* the jobs of the current batch that are in no chunk yet
    chunk,     \* future_by_job: the jobs of the chunk whose future is not collected
    failures,  \* the jobs of `completed` that failed, to be propagated
    status,    \* statuses: job -> queued, running or a terminal status
    future     \* job -> what its pool thread has done

config == <<needs, limit>>
planning == <<indegree, ready>>
vars == <<config, pc, planning, batches, rest, chunk, failures, status, future>>

PC == {"construct", "plan", "loop", "pool", "unwind", "refused", "done", "crashed"}
Ended == {"refused", "done", "crashed"}

Terminal == {"succeeded", "failed", "skipped"}
Status == {"queued", "running"} \cup Terminal

Results == {"clean", "faulty"}  \* JobResult: exit 0, no timeout, no OOM kill; any other
Finished == Results \cup {"raised"}
Future == {"none", "submitted", "executing"} \cup Finished

Init ==
    /\ needs \in Graphs /\ limit \in Limits
    /\ pc = "construct"
    /\ indegree = [j \in Jobs |-> Cardinality(needs[j])] /\ ready = {}
    /\ batches = <<>> /\ rest = {} /\ chunk = {} /\ failures = {}
    /\ status = [j \in Jobs |-> "queued"]
    /\ future = [j \in Jobs |-> "none"]

-----------------------------------------------------------------------------
(* Construction and planning *)

\* DAGScheduler.__init__ raises SchedulerError for anything else.
Acceptable == limit >= 1 /\ ~HasUnknown(needs) /\ ~HasCycle(needs)

Construct ==
    /\ pc = "construct"
    /\ IF Acceptable
         THEN /\ pc' = "plan"
              /\ ready' = {j \in Jobs : indegree[j] = 0}
         ELSE pc' = "refused" /\ UNCHANGED ready
    /\ UNCHANGED <<config, indegree, batches, rest, chunk, failures, status, future>>

\* One turn of topological_batches' loop: place `ready`, release its dependents.
OncePerBatch(j) == IF needs[j] \cap ready # {} THEN 1 ELSE 0   \* mutant
AllPlaced(j) == Cardinality(ready)                            \* mutant
PlacedNeeds(j) == Cardinality(needs[j] \cap ready)

Released(deg) == {j \in Jobs : needs[j] \cap ready # {} /\ deg[j] = 0}

PlaceBatch ==
    /\ pc = "plan" /\ ready # {}
    /\ batches' = Append(batches, ready)
    /\ indegree' = [j \in Jobs |-> indegree[j] - PlacedNeeds(j)]
    /\ ready' = Released(indegree')
    /\ UNCHANGED <<config, pc, rest, chunk, failures, status, future>>

PlanDone ==
    /\ pc = "plan" /\ ready = {}
    /\ pc' = "loop"
    /\ UNCHANGED <<config, planning, batches, rest, chunk, failures, status, future>>

-----------------------------------------------------------------------------
(* Running *)

EnterBatch ==
    /\ pc = "loop" /\ rest = {} /\ batches # <<>>
    /\ rest' = Head(batches) /\ batches' = Tail(batches)
    /\ UNCHANGED <<config, pc, planning, chunk, failures, status, future>>

\* _chunked: the first `limit` jobs of what is left of the batch.
FullChunk(c) == /\ Cardinality(c) = limit                     \* mutant: loses a short one
                /\ \A i \in c, j \in rest \ c : i < j
IsNextChunk(c) ==
    /\ Cardinality(c) = limit \/ (Cardinality(c) < limit /\ c = rest)
    /\ \A i \in c, j \in rest \ c : i < j

Runnable(j) == \A d \in needs[j] : status[d] = "succeeded"

\* A chunk: skip what lost a need, submit the others to a fresh thread pool.
TakeChunk ==
    /\ pc = "loop" /\ rest # {}
    /\ \E c \in SUBSET rest :
         /\ IsNextChunk(c)
         /\ rest' = rest \ c
         /\ chunk' = {j \in c : Runnable(j)}
         /\ status' = [j \in Jobs |-> IF j \notin c THEN status[j]
                                      ELSE IF Runnable(j) THEN "running" ELSE "skipped"]
         /\ future' = [j \in Jobs |-> IF j \in chunk' THEN "submitted" ELSE future[j]]
    /\ pc' = "pool"
    /\ UNCHANGED <<config, planning, batches, failures>>

\* A pool thread picks its job up: the executor starts.
Begin(j) ==
    /\ future[j] = "submitted"
    /\ future' = [future EXCEPT ![j] = "executing"]
    /\ UNCHANGED <<config, pc, planning, batches, rest, chunk, failures, status>>

\* The executor returns or raises.
End(j) ==
    /\ future[j] = "executing"
    /\ \E r \in Finished : future' = [future EXCEPT ![j] = r]
    /\ UNCHANGED <<config, pc, planning, batches, rest, chunk, failures, status>>

\* future.result() is awaited in submission order.
NextToCollect(j) == j \in chunk /\ \A i \in chunk : j <= i

Coerce(r) == IF r = "clean" THEN "succeeded" ELSE "failed"

Collect(j) ==
    /\ pc = "pool" /\ NextToCollect(j) /\ future[j] \in Results
    /\ chunk' = chunk \ {j}
    /\ status' = [status EXCEPT ![j] = Coerce(future[j])]
    /\ failures' = IF future[j] = "clean" THEN failures ELSE failures \cup {j}
    /\ UNCHANGED <<config, pc, planning, batches, rest, future>>

\* An executor exception leaves the loop; the pool's __exit__ waits for the rest.
CollectRaised(j) ==
    /\ pc = "pool" /\ NextToCollect(j) /\ future[j] = "raised"
    /\ pc' = "unwind"
    /\ UNCHANGED <<config, planning, batches, rest, chunk, failures, status, future>>

PoolAbandoned == TRUE                                        \* mutant: shutdown(wait=False)
PoolDrained == \A j \in Jobs : future[j] \notin {"submitted", "executing"}

Unwind ==
    /\ pc = "unwind" /\ PoolDrained
    /\ pc' = "crashed"
    /\ UNCHANGED <<config, planning, batches, rest, chunk, failures, status, future>>

\* _mark_descendants_skipped walks from the failed jobs along still-queued
\* dependents: the least set that holds the queued dependents of F and its own.
ClosedUnderDependents(F, C) ==
    \A j \in Jobs : status[j] = "queued" /\ needs[j] \cap (F \cup C) # {} => j \in C
AllQueued(F) == {j \in Jobs : F # {} /\ status[j] = "queued"}  \* mutant: fail fast
Descendants(F) == {j \in Jobs : \A C \in SUBSET Jobs : ClosedUnderDependents(F, C) => j \in C}

Propagate ==
    /\ pc = "pool" /\ chunk = {}
    /\ status' = [j \in Jobs |-> IF j \in Descendants(failures) THEN "skipped" ELSE status[j]]
    /\ failures' = {}
    /\ pc' = "loop"
    /\ UNCHANGED <<config, planning, batches, rest, chunk, future>>

Return ==
    /\ pc = "loop" /\ rest = {} /\ batches = <<>>
    /\ pc' = "done"
    /\ UNCHANGED <<config, planning, batches, rest, chunk, failures, status, future>>

-----------------------------------------------------------------------------
Run ==
    \/ PlaceBatch \/ PlanDone \/ EnterBatch \/ TakeChunk
    \/ \E j \in Jobs : Collect(j) \/ CollectRaised(j)
    \/ Unwind \/ Propagate \/ Return

Schedule == Construct \/ Run

Thread(j) == Begin(j) \/ End(j)

Stopped == pc \in Ended /\ UNCHANGED vars   \* the program has ended: not a deadlock

Next == Schedule \/ (\E j \in Jobs : Thread(j)) \/ Stopped

\* The scheduling thread and every pool thread keep running, and the executor
\* returns (JobRunner.run is what that rests on).
Fairness == WF_vars(Schedule) /\ \A j \in Jobs : WF_vars(Thread(j))

Spec == Init /\ [][Next]_vars
FairSpec == Spec /\ Fairness
-----------------------------------------------------------------------------
(* Properties *)

TypeOK ==
    /\ needs \in Graphs /\ limit \in Limits
    /\ pc \in PC
    /\ indegree \in [Jobs -> Nat] /\ ready \subseteq Jobs
    /\ batches \in Seq(SUBSET Jobs)
    /\ rest \subseteq Jobs /\ chunk \subseteq Jobs /\ failures \subseteq Jobs
    /\ status \in [Jobs -> Status]
    /\ future \in [Jobs -> Future]

Lost(d) == status[d] \in {"failed", "skipped"}

\* The shape of a run, on which the properties below rest (their proofs are in
\* JobSchedulerProofs).  Planned and to do: the batches hold every job still to
\* be run exactly once, a job in none of the batches up to that of one it needs,
\* and no batch is empty.
Planned == UNION {batches[i] : i \in DOMAIN batches}
Todo == rest \cup Planned

PlanInv ==
    /\ pc \in {"construct", "plan"} =>
         /\ rest = {} /\ chunk = {} /\ failures = {}
         /\ \A j \in Jobs : status[j] = "queued"
    /\ pc = "construct" =>
         batches = <<>> /\ \A j \in Jobs : indegree[j] = Cardinality(needs[j])
    /\ pc = "plan" =>
         /\ \A j \in Jobs : indegree[j] = Cardinality(needs[j] \ Planned)
         /\ ready = {j \in Jobs \ Planned : needs[j] \subseteq Planned}
         /\ \A j \in Planned : needs[j] \subseteq Planned
    /\ pc \notin {"construct", "refused"} => Acceptable
    /\ pc = "refused" => \A j \in Jobs : status[j] = "queued"

OrderInv ==
    /\ \A i \in DOMAIN batches : batches[i] # {}
    /\ \A i, k \in DOMAIN batches : i < k => batches[i] \cap batches[k] = {}
    /\ \A i, k \in DOMAIN batches : i <= k =>
         \A j \in batches[i] : needs[j] \cap batches[k] = {}
    /\ rest \cap Planned = {}
    /\ \A j \in rest : needs[j] \cap Todo = {}

\* What the statuses say of the threads.
StatusInv ==
    \A j \in Jobs :
      /\ future[j] = "none" <=> status[j] \in {"queued", "skipped"}
      /\ status[j] = "skipped" => \E d \in needs[j] : d \in Jobs /\ Lost(d)
      /\ status[j] = "succeeded" => future[j] = "clean"
      /\ status[j] = "failed" => future[j] = "faulty"
      /\ future[j] # "none" => \A d \in needs[j] : d \in Jobs /\ status[d] = "succeeded"

\* Every job is to do, in the chunk, or settled.
LoopInv ==
    /\ pc \in {"loop", "pool", "unwind"} =>
         /\ \A j \in Todo : status[j] \in {"queued", "skipped"}
         /\ \A j \in Jobs \ (Todo \cup chunk) : status[j] \in Terminal
    /\ \A j \in Jobs : j \in chunk <=> status[j] = "running"
    /\ Cardinality(chunk) <= limit
    /\ \A j \in failures : status[j] = "failed"
    /\ pc \in {"loop", "done"} => chunk = {} /\ failures = {}
    /\ pc = "done" => Todo = {}
    /\ pc = "done" => \A j \in Jobs : status[j] \in Terminal
    /\ pc = "crashed" => \A j \in Jobs : future[j] \in {"none"} \cup Finished

SchedulerInv == TypeOK /\ PlanInv /\ OrderInv /\ StatusInv /\ LoopInv

\* A job's executor starts only once the executors of all it needs have returned
\* cleanly, whatever the batches, the chunks and the threads do (README: "Marks
\* downstream jobs as skipped if an upstream dependency fails").
Started(j) == future[j] # "none"
StartsAfterNeeds ==
    \A j \in Jobs : Started(j) => \A d \in needs[j] : d \in Jobs /\ future[d] = "clean"

\* Never more than engine.max_concurrency containers of a run at a time.
Executing == {j \in Jobs : future[j] = "executing"}
WithinLimit == Cardinality(Executing) <= limit

\* A cyclic graph, or a need that is no job, fails before any job starts, also
\* the jobs that the cycle does not touch (README: "job cycles fail before any
\* execution starts").
BadGraphRunsNothing ==
    HasUnknown(needs) \/ HasCycle(needs) => \A j \in Jobs : ~Started(j)

\* What run() returns is complete: every job succeeded, failed or was skipped, a job
\* that ran has the status its executor earned, and the skipped ones are exactly the
\* jobs downstream of a failed one, however far and whatever batches and chunks they
\* were in: a failure stops what waits for it, and every other job has run (README:
\* "Marks downstream jobs as skipped if an upstream dependency fails").
Outcome(j) ==
    \/ status[j] = "succeeded" /\ future[j] = "clean"
    \/ status[j] = "failed" /\ future[j] = "faulty"
    \/ status[j] = "skipped" /\ future[j] = "none"
Failed == {j \in Jobs : status[j] = "failed"}
Skipped == {j \in Jobs : status[j] = "skipped"}
HoldsDependents(F, C) == \A j \in Jobs : needs[j] \cap (F \cup C) # {} => j \in C
Downstream == {j \in Jobs : \A C \in SUBSET Jobs : HoldsDependents(Failed, C) => j \in C}
ReturnsFullOutcome == pc = "done" => (\A j \in Jobs : Outcome(j)) /\ Skipped = Downstream

\* When the scheduler has returned or raised no executor is at work any more: the
\* engine writes the run's final status and its EOF marker next.
NothingRunsAfterEnd ==
    pc \in Ended => \A j \in Jobs : future[j] \in {"none"} \cup Finished

\* No job is handed to the executor twice.
RunsOnce == [][\A j \in Jobs : future[j] \in Finished => future'[j] = future[j]]_vars

\* The run of a pipeline comes to an end if its executors do.
Termination == <>(pc \in Ended)

-----------------------------------------------------------------------------
(* What a DAG execution promises *)

Promise == INSTANCE DagExecution WITH
    state <- [j \in Jobs |-> IF status[j] = "running" /\ future[j] = "submitted"
                             THEN "queued" ELSE status[j]]

\* The scheduler implements an execution of the DAG.
ImplementsDagExecution == Promise!Spec
=============================================================================
