---------------------------- MODULE PipelineRun ----------------------------
(***************************************************************************)
(* The engine's life of a run: create_run and execute_pipeline of          *)
(* engine/main.py, for several runs on the engine's one event loop.        *)
(*                                                                         *)
(* A step of a run goes from one await to the next.  DAGScheduler.run is a *)
(* plain call: while it runs the jobs, the loop serves nobody else.  The   *)
(* engine may die at any moment and come back with its table and logs, but *)
(* without its coroutines; nothing looks for the runs they left.           *)
(***************************************************************************)
EXTENDS Naturals, Sequences, FiniteSets

CONSTANTS Runs,          \* submissions
          NoRun,         \* the loop is free; nobody published
          Outsider,      \* whoever publishes but for the engine: a user, a job's script
          Jobs,
          Coordinates,   \* (name, version) of artifacts
          Pipelines,     \* the pipelines considered: run -> its pipeline
          Faults         \* what may go wrong beyond what a run expects

\* A pipeline, as far as its run depends on it: whether it has dependencies, whether
\* its job graph is acceptable, and the artifacts it declares, in order; the parser
\* refuses a coordinate declared twice.
Pipeline == {p \in [deps : BOOLEAN, sound : BOOLEAN, artifacts : Seq(Coordinates)] :
                \A i, j \in DOMAIN p.artifacts : p.artifacts[i] = p.artifacts[j] => i = j}

ASSUME RunAssumption ==
    /\ NoRun \notin Runs /\ Outsider \notin Runs \cup {NoRun}
    /\ \A p \in Pipelines : DOMAIN p = Runs /\ \A r \in Runs : p[r] \in Pipeline
    /\ Faults \subseteq {"crash", "download", "runner", "answer lost", "outsider"}

VARIABLES
    pipeline,    \* run -> its pipeline
    row,         \* run -> its row in table runs: status and jobs
    eofs,        \* run -> the EOF markers in its log
    cause,       \* run -> why it failed, as its log says
    outcome,     \* run -> job_statuses, or what came instead
    published,   \* the registry: coordinate -> who published it
    sent,        \* run -> how many artifacts the registry has confirmed to it
    loop,        \* the run whose jobs the event loop is blocked by
    pc           \* run -> the await its coroutine is at

vars == <<pipeline, row, eofs, cause, outcome, published, sent, loop, pc>>

Failures == {"failed", "integrity_failure", "conflict_failure", "cycle_failure"}
Terminal == {"succeeded"} \cup Failures
Causes == {"none", "resolution", "integrity", "graph", "runner", "jobs", "scheduler", "conflict",
           "refused", "timeout"}

\* What DAGScheduler.run returns: every job has a terminal status, and none is skipped
\* unless one failed (theorem SkipsHaveFailure of JobScheduler).
Outcomes == {f \in [Jobs -> {"succeeded", "failed", "skipped"}] :
                (\E j \in Jobs : f[j] = "skipped") => \E j \in Jobs : f[j] = "failed"}
NoJobs == [j \in {} |-> "none"]
AllSucceeded(f) == f \in Outcomes /\ \A j \in Jobs : f[j] = "succeeded"

Init == /\ pipeline \in Pipelines
        /\ row = [r \in Runs |-> [status |-> "none", jobs |-> NoJobs]]
        /\ eofs = [r \in Runs |-> 0]
        /\ cause = [r \in Runs |-> "none"]
        /\ outcome = [r \in Runs |-> NoJobs]
        /\ published = [c \in Coordinates |-> NoRun]
        /\ sent = [r \in Runs |-> 0]
        /\ loop = NoRun
        /\ pc = [r \in Runs |-> "submitting"]

\* The coroutine of r goes on to its next await.
Goto(r, from, to) ==
    /\ loop = NoRun /\ pc[r] = from /\ pc' = [pc EXCEPT ![r] = to]
    /\ UNCHANGED pipeline

\* update_run_status
Update(r, status, jobs) == row' = [row EXCEPT ![r] = [status |-> status, jobs |-> jobs]]
Because(r, why) == cause' = [cause EXCEPT ![r] = why]

-----------------------------------------------------------------------------
\* create_run: authentication and parsing, the row, and the task.
Refuse(r) ==
    /\ Goto(r, "submitting", "refused")
    /\ UNCHANGED <<row, eofs, cause, outcome, published, sent, loop>>

Enqueue(r) ==
    /\ Goto(r, "submitting", "queued") /\ Update(r, "queued", NoJobs)
    /\ UNCHANGED <<eofs, cause, outcome, published, sent, loop>>

Spawn(r) ==
    /\ Goto(r, "queued", "spawned")
    /\ UNCHANGED <<row, eofs, cause, outcome, published, sent, loop>>

\* execute_pipeline
Start(r) ==
    /\ Goto(r, "spawned", "resolving") /\ Update(r, "running", row[r].jobs)
    /\ UNCHANGED <<eofs, cause, outcome, published, sent, loop>>

NoReturn == "materializing"                                        \* mutant: no return
NoMarker == "done"                                                 \* mutant: no _finish_run_log
AfterFailure == "ending"

\* resolve_dependencies; whatever it raises is a conflict_failure.
Resolve(r) ==
    /\ \/ /\ Goto(r, "resolving", "materializing")
          /\ UNCHANGED <<row, cause>>
       \/ /\ pipeline[r].deps
          /\ Goto(r, "resolving", AfterFailure)
          /\ Update(r, "conflict_failure", row[r].jobs) /\ Because(r, "resolution")
    /\ UNCHANGED <<eofs, outcome, published, sent, loop>>

\* materialize_dependencies; what is not an IntegrityFailureError ends the task.
Materialize(r) ==
    /\ \/ /\ Goto(r, "materializing", "scheduling")
          /\ UNCHANGED <<row, cause>>
       \/ /\ pipeline[r].deps
          /\ Goto(r, "materializing", "ending")
          /\ Update(r, "integrity_failure", NoJobs) /\ Because(r, "integrity")
       \/ /\ pipeline[r].deps /\ "download" \in Faults
          /\ Goto(r, "materializing", "raised")
          /\ UNCHANGED <<row, cause>>
    /\ UNCHANGED <<eofs, outcome, published, sent, loop>>

\* DAGScheduler(...), JobRunner(...) and the call of scheduler.run
Schedule(r) ==
    /\ \/ /\ pipeline[r].sound
          /\ Goto(r, "scheduling", "executing") /\ loop' = r
          /\ UNCHANGED <<row, cause>>
       \/ /\ ~pipeline[r].sound
          /\ Goto(r, "scheduling", "ending")
          /\ Update(r, "cycle_failure", row[r].jobs) /\ Because(r, "graph")
          /\ UNCHANGED loop
       \/ /\ pipeline[r].sound /\ "runner" \in Faults
          /\ Goto(r, "scheduling", "ending")
          /\ Update(r, "failed", NoJobs) /\ Because(r, "runner")
          /\ UNCHANGED loop
    /\ UNCHANGED <<eofs, outcome, published, sent>>

\* scheduler.run returns or raises, and the loop is free again.
Passed(f) == \A j \in Jobs : f[j] # "failed"

StaleJobs(r, f) == row[r].jobs                                    \* mutant: no jobs=
JobResults(r, f) == f

JobsEnd(r) ==
    /\ pc[r] = "executing" /\ loop = r /\ loop' = NoRun
    /\ \/ \E f \in Outcomes :
            /\ outcome' = [outcome EXCEPT ![r] = f]
            /\ IF Passed(f)
                 THEN pc' = [pc EXCEPT ![r] = "publishing"] /\ UNCHANGED <<row, cause>>
                 ELSE /\ pc' = [pc EXCEPT ![r] = "ending"]
                      /\ Update(r, "failed", JobResults(r, f)) /\ Because(r, "jobs")
       \/ /\ pc' = [pc EXCEPT ![r] = "ending"]
          /\ Update(r, "failed", row[r].jobs) /\ Because(r, "scheduler")
          /\ UNCHANGED outcome
    /\ UNCHANGED <<pipeline, eofs, published, sent>>

\* publish_pipeline_artifacts, one upload after the other
Left(r) == {i \in DOMAIN pipeline[r].artifacts : i > sent[r]}
Anyone(r, i) == published[pipeline[r].artifacts[i]] # r           \* mutant: all at once
Following(r, i) == i = sent[r] + 1

Accepted(r, i) ==
    LET c == pipeline[r].artifacts[i] IN
    /\ published[c] = NoRun
    /\ published' = [published EXCEPT ![c] = r]

PublishFails(r, why) ==
    /\ Goto(r, "publishing", "ending") /\ Update(r, "failed", outcome[r]) /\ Because(r, why)
    /\ UNCHANGED sent

Publish(r) ==
    /\ \E i \in DOMAIN pipeline[r].artifacts :
         /\ Left(r) # {} /\ Following(r, i)
         /\ \/ /\ Goto(r, "publishing", "publishing") /\ Accepted(r, i)
               /\ sent' = [sent EXCEPT ![r] = @ + 1]
               /\ UNCHANGED <<row, cause>>
            \/ /\ published[pipeline[r].artifacts[i]] # NoRun
               /\ PublishFails(r, "conflict") /\ UNCHANGED published
            \/ PublishFails(r, "refused") /\ UNCHANGED published    \* no file, 400, 401, no registry
            \/ /\ "answer lost" \in Faults
               /\ PublishFails(r, "timeout") /\ UNCHANGED published
    /\ UNCHANGED <<eofs, outcome, loop>>

NotLast(r) == sent[r] + 1 >= Len(pipeline[r].artifacts)            \* mutant: off by one
Finished(r) == Left(r) = {}
Succeed(r) ==
    /\ Finished(r)
    /\ Goto(r, "publishing", "ending") /\ Update(r, "succeeded", outcome[r])
    /\ UNCHANGED <<eofs, cause, outcome, published, sent, loop>>

TwiceEnded(r) == {"ending", "done"}                                \* mutant: each branch, and the caller
Ending(r) == {"ending"}

\* _finish_run_log, after the status; the Slack message changes nothing here.
EndLog(r) ==
    /\ pc[r] \in Ending(r) /\ Goto(r, pc[r], "done") /\ eofs' = [eofs EXCEPT ![r] = @ + 1]
    /\ UNCHANGED <<row, cause, outcome, published, sent, loop>>

-----------------------------------------------------------------------------
Live == {"queued", "spawned", "resolving", "materializing", "scheduling", "executing",
         "publishing", "ending"}

\* The engine dies and is restarted (compose.yaml: restart unless-stopped).
Crash ==
    /\ "crash" \in Faults
    /\ \E r \in Runs : pc[r] \in Live
    /\ pc' = [r \in Runs |-> IF pc[r] \in Live THEN "dead" ELSE pc[r]]
    /\ loop' = NoRun
    /\ UNCHANGED <<pipeline, row, eofs, cause, outcome, published, sent>>

\* An upload whose answer nobody waits for any more, after a timeout or a crash, may
\* still arrive at the registry, at any time.
UnderWay(r) ==
    /\ AllSucceeded(outcome[r])
    /\ cause[r] = "timeout" \/ (pc[r] = "dead" /\ row[r].status = "running")

Land(r) ==
    /\ UnderWay(r)
    /\ \E i \in DOMAIN pipeline[r].artifacts : i = sent[r] + 1 /\ Accepted(r, i)
    /\ UNCHANGED <<pipeline, row, eofs, cause, outcome, sent, loop, pc>>

\* `forge publish`, by hand or in a job, to a coordinate that a pipeline declares.
PublishOutside ==
    /\ "outsider" \in Faults
    /\ \E c \in Coordinates :
         published[c] = NoRun /\ published' = [published EXCEPT ![c] = Outsider]
    /\ UNCHANGED <<pipeline, row, eofs, cause, outcome, sent, loop, pc>>

-----------------------------------------------------------------------------
Coroutine(r) == \/ Spawn(r) \/ Start(r) \/ Resolve(r) \/ Materialize(r) \/ Schedule(r)
                \/ Publish(r) \/ Succeed(r) \/ EndLog(r)

Stopped == {"refused", "raised", "dead", "done"}
Quiet == /\ \A r \in Runs : pc[r] \in Stopped
         /\ UNCHANGED vars

Next == \/ \E r \in Runs : \/ Refuse(r) \/ Enqueue(r) \/ Coroutine(r) \/ JobsEnd(r)
                           \/ Land(r)
        \/ Crash \/ PublishOutside
        \/ Quiet

Spec == Init /\ [][Next]_vars

\* The event loop resumes every coroutine when it is free, and jobs end.
FairSpec == Spec /\ \A r \in Runs : WF_vars(Coroutine(r)) /\ WF_vars(JobsEnd(r))

-----------------------------------------------------------------------------
Rows == [status : {"none", "queued", "running"} \cup Terminal, jobs : Outcomes \cup {NoJobs}]

TypeOK ==
    /\ \A r \in Runs : pipeline[r] \in Pipeline
    /\ row \in [Runs -> Rows]
    /\ eofs \in [Runs -> 0..1]
    /\ cause \in [Runs -> Causes]
    /\ outcome \in [Runs -> Outcomes \cup {NoJobs}]
    /\ published \in [Coordinates -> Runs \cup {NoRun, Outsider}]
    /\ sent \in [Runs -> Nat]
    /\ loop \in Runs \cup {NoRun}
    /\ pc \in [Runs -> Live \cup Stopped \cup {"submitting"}]

Confirmed(r) == {pipeline[r].artifacts[i] : i \in 1..sent[r]}

\* The row tells how far the run is.
RowInv(r) ==
    /\ pc[r] \in {"submitting", "refused"} <=> row[r].status = "none"
    /\ pc[r] \in {"queued", "spawned"} => row[r].status = "queued"
    /\ pc[r] \in (Live \ {"queued", "spawned", "ending"}) \cup {"raised"} => row[r].status = "running"
    /\ pc[r] \in {"ending", "done"} => row[r].status \in Terminal
    /\ eofs[r] = 1 <=> pc[r] = "done"

\* A run publishes after its jobs have all succeeded, and in order.
PublishInv(r) ==
    /\ sent[r] \in 0..Len(pipeline[r].artifacts)
    /\ \A c \in Confirmed(r) : published[c] = r
    /\ pc[r] \notin {"publishing", "ending", "done", "dead"} => sent[r] = 0
    /\ sent[r] > 0 \/ pc[r] = "publishing" => AllSucceeded(outcome[r])

\* A reason is given once, at the end; a success has confirmed everything.
EndInv(r) ==
    /\ row[r].status \notin Failures => cause[r] = "none"
    /\ row[r].status = "succeeded" =>
          AllSucceeded(row[r].jobs) /\ sent[r] = Len(pipeline[r].artifacts)

LoopInv(r) == loop = r <=> pc[r] = "executing"

RunInv ==
    /\ TypeOK
    /\ \A r \in Runs : RowInv(r) /\ PublishInv(r) /\ EndInv(r) /\ LoopInv(r)

\* A run is reported as succeeded only if all its jobs succeeded and every artifact it
\* declares is published, and published by this run, whoever races with it.
SuccessIsComplete ==
    \A r \in Runs : row[r].status = "succeeded" =>
        /\ AllSucceeded(row[r].jobs)
        /\ \A i \in DOMAIN pipeline[r].artifacts : published[pipeline[r].artifacts[i]] = r

\* Whatever a run published, it declares, and its jobs all succeeded first; what it
\* published is the start of its list, and at most the last was not confirmed to it,
\* after a timeout or a crash (README: "published automatically after a successful run").
PublishedInOrder ==
    \A c \in Coordinates : published[c] \in Runs =>
        LET r == published[c] IN
        /\ AllSucceeded(outcome[r])
        /\ \E i \in DOMAIN pipeline[r].artifacts :
              pipeline[r].artifacts[i] = c /\ i <= sent[r] + (IF UnderWay(r) THEN 1 ELSE 0)

\* A failed run has a reason that its row shows: a job that failed, or else an artifact
\* that it could not confirm; if the reason is a conflict, another run has the artifact.
FailureHasReason ==
    \A r \in Runs : row[r].status = "failed" =>
        \/ cause[r] \in {"runner", "scheduler"}
        \/ cause[r] = "jobs" /\ \E j \in DOMAIN row[r].jobs : row[r].jobs[j] = "failed"
        \/ /\ cause[r] \in {"conflict", "refused", "timeout"} /\ AllSucceeded(row[r].jobs)
           /\ sent[r] < Len(pipeline[r].artifacts)
           /\ cause[r] = "conflict" =>
                 published[pipeline[r].artifacts[sent[r] + 1]] \notin {r, NoRun}

\* The log has at most one EOF marker, and a reader who meets it finds a terminal status
\* in the row (README: "a single run-level EOF marker when the run reaches a terminal
\* state").
EofIsLast == \A r \in Runs : eofs[r] <= 1 /\ (eofs[r] = 1 => row[r].status \in Terminal)

\* A row only moves forward, through "running", and keeps its terminal status and jobs;
\* what is published stays.
Before(s) == CASE s = "queued" -> {"none"} [] s = "running" -> {"queued"} [] OTHER -> {"running"}
Forward ==
    [][/\ \A r \in Runs : row'[r] # row[r] => row[r].status \in Before(row'[r].status)
       /\ \A c \in Coordinates : published[c] # NoRun => published'[c] = published[c]]_vars

\* If the artifacts that the runs declare are listed in one order by all of them, then of
\* the runs that race to publish them one succeeds, unless something else than conflicts
\* between them stops them: no two runs take each other's artifacts.
LastOf(c, artifacts, C) ==
    \A i, j \in DOMAIN artifacts : artifacts[i] = c /\ i < j => artifacts[j] \notin C
InOneOrder ==
    \A C \in SUBSET Coordinates :
        C # {} => \E c \in C : \A r \in Runs : LastOf(c, pipeline[r].artifacts, C)

RaceHasWinner ==
    (/\ Runs # {} /\ InOneOrder
     /\ \A c \in Coordinates : published[c] # Outsider
     /\ \A r \in Runs : /\ pc[r] = "done"
                        /\ \/ row[r].status = "succeeded"
                           \/ row[r].status = "failed" /\ cause[r] = "conflict")
    => \E r \in Runs : row[r].status = "succeeded"

\* Every accepted run ends, with a terminal status in its row and an EOF marker in its
\* log, unless the engine dies or an exception escapes from its coroutine.
RunsEnd ==
    \A r \in Runs : pc[r] = "queued" ~>
        \/ row[r].status \in Terminal /\ eofs[r] = 1
        \/ pc[r] \in {"raised", "dead"}

-----------------------------------------------------------------------------
(* What a run takes the registry for *)

\* An upload is known by who asks and for what; of those that were told why not, it is
\* the one the run had come to.
NextUp(r, c) == sent[r] + 1 \in DOMAIN pipeline[r].artifacts /\ pipeline[r].artifacts[sent[r] + 1] = c
FateOf(x, c) ==
    IF published[c] = x THEN "published"
    ELSE IF x \in Runs /\ cause[x] \in {"conflict", "refused"} /\ NextUp(x, c) THEN cause[x]
    ELSE "asked"

Store == INSTANCE ImmutableStore WITH
    Uploads <- (Runs \cup {Outsider}) \X Coordinates,
    target <- [u \in (Runs \cup {Outsider}) \X Coordinates |-> u[2]],
    published <- [c \in Coordinates |-> IF published[c] = NoRun THEN {} ELSE {<<published[c], c>>}],
    fate <- [u \in (Runs \cup {Outsider}) \X Coordinates |-> FateOf(u[1], u[2])]

\* Whatever runs, crashes and outsiders do, the registry they meet is the one that
\* ArtifactRegistry implements: first come, first published, a conflict only where
\* something is published, and nothing both published and reported as failed.
UsesStore == Store!Spec
=============================================================================
