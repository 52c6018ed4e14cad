# Forge: a verification project

Forge is a small CI system. A client submits a pipeline (a YAML file with jobs, dependencies
and artifacts) to the *engine*, which resolves the dependencies through the *registry*, runs
the jobs in Docker containers in dependency order, publishes the declared artifacts to the
registry and streams the log. This directory holds TLA+ models of it, TLC configurations that
check them on small instances, and TLAPS proofs for all instances. All paths are relative to
the root of the repository (`src/` in `PROJECT.json`).

- [1. Inventory](#1-inventory)
- [2. Modules, and how they correspond to the code](#2-modules-and-how-they-correspond-to-the-code)
- [3. What the runs check](#3-what-the-runs-check)
- [4. What is proved](#4-what-is-proved)
- [5. Where the code and its documentation differ](#5-where-the-code-and-its-documentation-differ)
- [6. What is not modelled](#6-what-is-not-modelled)
- [7. Plan](#7-plan)

To run a check: `tlc -config CheckedScheduler.cfg MCCheckedScheduler`; to check proofs:
`tlapm JobSchedulerProofs.tla`.

## 1. Inventory

| component | source | state | operations |
|---|---|---|---|
| Job graph, cycle search | `engine/scheduler.py:36-85` | visiting, visited, stack | `build_job_graph`, `find_cycle` |
| DAG scheduler | `engine/scheduler.py:88-228` | statuses, batches, futures | `__init__`, `run`, `_mark_descendants_skipped` |
| Job runner | `engine/runner.py` | Docker's networks and containers | `run` and its helpers |
| Life of a run | `engine/main.py` | table `runs` in SQLite, one coroutine a run | `create_run`, `execute_pipeline`, `publish_pipeline_artifacts` |
| Log writer and follower | `engine/logs.py` | a log file a run | `LogWriter`, `tail_log` |
| Pipeline parser | `engine/parser.py` | none | `parse_pipeline` |
| Slack notifier | `engine/slack.py` | none | `notify_*` |
| Configuration | `engine/config.py` | a cached file | `load_config` |
| Registry: uploads, downloads | `registry/main.py`, `storage.py`, `metadata.py` | blob files, table `artifacts` | `upload_artifact`, `download_artifact`, listings |
| Dependency resolver | `registry/resolver.py:118-352` | selection and constraints of a pass | `resolve` |
| Semver constraints | `registry/resolver.py:1-117` | none | `parse`, `satisfies` |
| Tokens, `forge-token` | `registry/auth.py` | table of bcrypt hashes | create, revoke, verify |
| `forge` CLI | `cli/forge.py` | none | `run`, `logs`, `publish`, ... |
| Deployment | `compose.yaml`, `nginx.conf`, Dockerfiles | - | - |

**How they interact.** A request reaches the engine or the registry through nginx. `create_run`
inserts the row of the run and starts `execute_pipeline` as a task of the engine's only event
loop. That coroutine asks the registry over HTTP for the lockfile and the dependencies, builds a
`DAGScheduler`, and calls its `run` directly: a pool of at most `max_concurrency` threads calls
`JobRunner.run`, one job each, and until all batches are through, the event loop does nothing
else. All jobs share the Docker daemon, the name of the run's network, the log file, and the
registry's container, which is attached to their networks. A job may itself run
`forge publish`. At the end the run uploads its artifacts one by one, writes its final status and
then the EOF marker on which log followers stop.

**What is hard in it**, and what makes each part correct (`hazards` in `PROJECT.json` gives
each of these its line and its properties):

- *Cycle search.* The marks of the recursion. Correct: a cycle is reported if and only if there is
  one, and it is a cycle.
- *Scheduler.* Threads end in any order, futures are collected in another; jobs are skipped in two
  places; an executor may raise while its siblings run. Correct: a job starts after its needs,
  within the limit, once; the outcome is complete; nothing runs after the end; it ends.
- *Runner.* Fourteen calls to Docker, each of which may fail or fall between two calls of a sibling that
  prunes "stale" networks. Correct: a container only ever meets the registry on its network; a
  success is the script's; everything gets cleaned up; a job does not run for ever.
- *Life of a run.* Every failure has its own branch; publishing stops half-way, or its answer is
  lost; other runs and users publish to the same coordinates; the engine dies and forgets its
  coroutines. Correct: the row, the log and the registry agree, the row moves forward only, the
  EOF marker comes once and last, an accepted run ends.
- *Uploads and downloads.* Blobs and rows are two stores, written in several steps by handlers
  that fail or die in between; equal bytes share a blob. Correct: what is published can be served,
  with the bytes of its upload, for ever; answers are true.
- *Resolver.* Each pass selects against constraints of the selection before. Correct: a lockfile
  meets all its constraints with the highest versions and has no ring; the passes end.
- *Log.* Jobs append to one file, each through a handle of its own, while followers read it and
  give up after a timeout. Correct: a follower gets every line once, in order, up to the EOF marker.
  A mark in the log says that the run is over, and `forge run` reads its status then. Correct: whoever
  sees the mark finds a final status.
- *Tokens.* Commands on the host create and revoke tokens while the registry checks those of runs,
  which keep theirs. Correct: what a command says of a token is so; a revocation reaches the runs.
- *Semver.* Bounds of caret and tilde ranges. Correct: what is locked for a range lies in it.

## 2. Modules, and how they correspond to the code

```
JobGraph --+-- JobScheduler --+------------------> DagExecution      (-> : implements)
           |        ^         |
           |   CheckedScheduler                     JobRunner (what End of JobScheduler stands for)
           |        |
           +-- CycleSearch
           +-- PipelineRun --------------------+        (sees the scheduler's outcomes)
                                               v
               ArtifactRegistry ------> ImmutableStore
               LogStream -------------> LogFeed         (the log of such a run, and its readers)
Semver -- Resolver                                      Tokens
             |
          CheckedResolver -----> Resolver
```

CheckedScheduler puts CycleSearch, one step at a time, in the place of the single decision of
JobScheduler, and implements JobScheduler. CheckedResolver does the same for Resolver with the search of
`detect_cycles`.

Every `MCx` module holds the instances of module `x`, every `xProofs` the theorems about it.
Numbers stand for names where the code sorts names. `PROJECT.json` maps each definition to its
lines. Definitions marked `\* mutant` are plausible wrong variants of the definition that follows
them, for use in its place.

**JobGraph** is a pipeline's graph as `build_job_graph` sees it. The parser checks of `needs`
only that it is a list of strings, so a graph may hold the job's own name, names of no job
and cycles. `HasCycle` is the reference definition: a set of jobs each of which needs one of the
set.

**CycleSearch** is `find_cycle` with the recursion as an explicit stack: `Root` is the outer
loop, `Look` one turn of the loop in `dfs`, `Leave` its end. `pending` is what the iteration of each
frame has left.

**JobScheduler** is `DAGScheduler`, with the search as one decision by `HasCycle`. `pc` follows
`run`: `Construct` (with the three refusals of `__init__`),
`PlaceBatch`/`PlanDone` (`topological_batches`), `EnterBatch`, `TakeChunk` (skip or
submit), `Collect`/`CollectRaised` in submission order, `Propagate` after the pool, `Return`, `Unwind`
(an exception leaves through the pool's `__exit__`, which waits). Pool threads are the actions
`Begin` and `End`, free to interleave. The executor is seen from its future: a clean result, another
result, or an exception.

**CheckedScheduler** is the same class with nothing taken as decided: limit and names
(`RefuseEarly`), the search (`SearchOn`), its answer (`Decide`), then the steps of JobScheduler.
`ImplementsScheduler` is that the search decides as `HasCycle` does, on every graph, and that no job is
planned before.

**DagExecution** is what that should amount to: jobs start after their needs, within the limit, end,
and are skipped when a need is lost. A job submitted and not yet begun is still "queued" there.

**JobRunner** is `JobRunner.run` for several jobs of one run at once, one Docker call a step:
`List`, `Prune` (`_prune_stale_job_networks`), `Create`, `Connect` (`_create_job_network`),
`FindRegistry`, `Launch`, `Stream`, `Wait` or `Timeout`, and `finally` in its order: `RemoveContainer`,
`Disconnect`, `RemoveNetwork`. `holds` is which of `run`'s variables were set when `finally`
is reached. Docker is external: what it does is taken from how the runner uses it (a duplicate
network name is refused, a network in use is not removed). `Faults` says, job by job, which calls
may fail. A call fails with an error of Docker's, which `run` turns into exit code 125 (in `finally`, into a
line of the log), or with another exception, which escapes: `Broken` is either, `PruneBreaks`, `StreamBreaks` and
the three `...Breaks` of `finally` are the second kind, after which `finally` does no more. A call may also be carried
out and only its answer `Lost`: then the network or container is there, and no variable of `run` knows it.

**PipelineRun** is `create_run` and `execute_pipeline` for several runs on one event loop. A step
goes from one await to the next; `Update` writes the row in the step that awaits next.
`loop` is the run whose `scheduler.run` holds the loop; no other coroutine, and no
request, moves meanwhile. The scheduler is seen through what it returns (`Outcomes`, which
theorem `SkipsHaveFailure` proves of JobScheduler), the registry through `published`: `UsesStore` is that
this is the ImmutableStore which ArtifactRegistry implements. `Crash` empties the memory of the engine; `Land` is an upload that arrives after a timeout or
a crash, when nobody waits for its answer any more; `PublishOutside` is `forge publish`.

**LogStream** is the log of one run and its readers. `Writers` are the threads of the jobs and
then the engine; a line is a text and a line end, which the file may show one without the other
(`Write`, `Finish`), and a full disk may cut it short (`WriteLess`). `Advance` follows `execute_pipeline`
as far as the log is concerned: the status is final in stage "told", the marker comes after it
(`WriteMarker`). `Escape` is an exception that no clause of `execute_pipeline` catches (a failing download or
unpacking): the engine lives on, the run is "stuck" without status and marker, and its followers stay connected. A client is `tail_log` between two awaits: `Ask` waits for the file, `Open`, `Read`
and `Yield` send the backlog, `EndBacklog` stops at the marker, ends (`forge logs`) or walks back
over an incomplete line and goes on to the tail, which ends by `Yield` of the marker or by `GiveUp`.
`late` is that the client's deadline has passed; `Linger` lets time pass as long as nothing is written. `AskStatus` is
`forge run` after its stream, also after one that was answered with an HTTP error: `httpx.stream` does not raise
for that, and the lines of the answer are printed or ignored, so that the status is asked for all the same. With `oneLoop`, readers stand still while jobs run, as with the
engine's event loop; without it they are served meanwhile (a scheduler in a thread of its own). The `inotify` variant of
the tail, which the engine's image does not have, reads the same way and is left out.

**LogFeed** is the promise: every follower gets the log from its start, whole line by whole line.

**ArtifactRegistry** is `upload_artifact` from authentication to answer: `Open`, `Write`, `Verify`,
`Look`, `Place` (`ArtifactStorage._store`), `Insert` (`publish`, under `UNIQUE(name, version)`), `Answer`,
with the failure of each (`OpenFails`, `WriteFails`, `PlaceFails`, `InsertFails`) and `Crash` between any two; `Find` and
`Serve` are a download. A 500 is phase "unstored" if the code leaves the temporary file behind (a failed write or
`mkdir`, before the `try`), and "error" otherwise; `Finally` is the clause that removes the file of a failed `os.replace`. `Workers`
is the number of handlers at a time. The deployed registry has one worker whose handlers do not await and never
interleave; `Workers = 2` has all these behaviours and those of two server processes
over the same volume, and the properties hold there too.

**ImmutableStore** is the promise: the first upload to a coordinate wins, for good, and answers
say what happened; a lost one may or may not have published. A handler publishes with its `INSERT`.

**Resolver** is `DependencyResolver.resolve`: `Start` parses the request, `Pass` is one turn of
`while True`, `Fail` its exceptions. Whether a selection is cyclic is one decision there, by a set of packages each of
which depends on one of the set.

**CheckedResolver** is the same with nothing decided: `Select` is the first half of a pass, then `detect_cycles`
searches the selection, one look at a dependency a step (`Root` is its outer loop; `Return`, `Raise` and `Visit` are what
a call of `visit` does, `Leave` its end), and `Conclude` is the second half. The sets `visiting` and `visited` are the
code's, `pending` is what the iteration of each call has left. `ImplementsResolver` is that the search decides as `Cyclic` does.

**Semver** is `Version`, `Comparator` and `SemverConstraint`: `Comparators` is what `parse` makes of a
constraint, which is a sequence of marks with versions, `Satisfies` what `satisfies` says. `InRange` is
written from what a range means, not from the bounds.

**Tokens** is `forge-token` beside the registry. `create_token` is three steps (`Generate`, `Insert` or
`AlreadyExists`, `PrintToken`) and `revoke_token` two (`Revoke`, `Answer`), of any number of
commands, each of which may be interrupted between them. A run is whoever sends requests with one token:
`Submit` (`create_run` has the token verified), `Fetch` (`verify_token` reads all rows), then `Pass` or `Refuse`
from the rows as they were read, and `Proceed` to its next request. A secret is the number of its
creation; `gone`, `told`, `over` and `late` only record what the properties speak about.

## 3. What the runs check

| run | instance | properties |
|---|---|---|
| `scheduler` | all shapes of acyclic graphs over 4 jobs in two sort orders, all graphs of jobs with at most two needs, or with one that may be unknown (cycles of every length, self needs); limits 0 to 4; 562,512 states | `SchedulerInv`, `SearchHolds`, `ReportedCycleIsReal`, `ReturnsFullOutcome`, `NothingRunsAfterEnd`, `Termination`, `ImplementsScheduler`, `ImplementsDagExecution` |
| `runner` | 3 jobs, 2 at a time, every Docker call failing for one of them and those that leave something behind for another, a leaked network; 394,517 states | `RunnerInv`, `OwnNetwork`, `ScriptDecides`, `NothingLeft`, `JobsEnd` |
| `resolver` | 3 packages with versions 9.10.0 and 10.9.0: one dependency a version, or any along the name order; exact bounds, carets and tildes; 3 requests; the search step by step; 1,105,508 states | `CheckedInv`, `LockfileConsistent`, `LockfileDetermined`, `LockfileInRange`, `ResolutionEndsWithoutRings`, `ImplementsResolver` |
| `registry` | 3 uploads: any pair, or races to one coordinate with shared bytes; a download, 2 workers; 654,820 states | `RegistryInv`, `RowsServable`, `AnswersTrue`, `TempsRemoved`, `ImplementsImmutableStore` |
| `runs` | any 2 pipelines with up to 2 artifacts in either order, 2 jobs, every fault; 1,044,880 states | `RunInv`, `SuccessIsComplete`, `PublishedInOrder`, `FailureHasReason`, `RaceHasWinner`, `Forward`, `RunsEnd` |
| `log` | 2 jobs and the engine write 2 lines and the marker, a client of any of three kinds, both event loops, crash, escaped exception, full disk and disconnection; 1,575,321 states | `LogInv`, `ToldTruth`, `GivesUpOnlyInLull`, `EndsWithoutLoss`, `StreamsEnd`, `ImplementsFeed` |
| `tokens` | 2 commands at a time, 2 names, 3 secrets, a run of 3 requests; 756,768 states up to symmetry | `TokensInv`, `ToldRight`, `AtMostOneLate` |
| `runner_collision`, `runner_hang`, `resolver_seesaw`, `resolver_conflict`, `forge_run` | violated, see [section 5](#5-where-the-code-and-its-documentation-differ) | one each |

What the properties say is in the comment above each. Those that join several parts:
`ImplementsScheduler` and `ImplementsResolver` join the two searches to what rests on them, `ImplementsImmutableStore` what it takes for granted of the registry,
`JobsEnd` what JobScheduler's fairness takes for granted of the runner, and `ToldTruth` ties the row, the marker and
the client together.

**Why the bounds are enough.** Four jobs hold a chain, a diamond, a batch longer than the limit, a
last chunk shorter than it and cycles of length 1 to 4. Three runner jobs of which two run have
a collision, a pruned network, and a job that starts when another one has ended; one of them never
meets a failure of its own, so that one sees what its siblings' failures do to it; `ScriptDecides` and `NothingLeft` are about that one. Two versions
let a selection move down and up again, and three packages let a ring form that no pair shows, a ring that the search enters from
outside, and two ways to one package that are no ring (`ImplementsResolver` catches a search that takes them for one). Two coordinates and two contents tell apart equal bytes elsewhere from
other bytes at the same place; a third upload can rely on the blob of one that died. Two runs
with two artifacts in either order cross each other's publishing, or race in one order. The two versions
have their larger numbers in opposite places, so that comparing them as texts, or by a number too few, shows.
Two lines and a marker are six units of the file; a read returns three at most, so it ends within a line,
after one, or covers two. One reader is enough in `log`, and one run in `tokens`: they
share nothing with others of their kind but the file, or the table, which they only read; the proofs hold
for any number. Three secrets let a name be created anew after a revocation while another
command is under way. `MaxLines` and `MaxSecrets` are bounds of the models, not of the code; nothing else is
capped, and the other models are finite by the size of their inputs.

**Fairness.** `FairSpec` of JobScheduler lets its thread and every pool thread proceed, which the
operating system does, and assumes that executors return: of the code, that rests on
JobRunner, which `JobsEnd` shows to end if scripts do (`EndingSpec`; nothing in Forge makes them, see
`runner_hang`). In CheckedScheduler the search belongs to the same thread, which the resolver's single loop is
too. In PipelineRun every coroutine is resumed when the loop is free, and the jobs of a run end. In LogStream the
engine goes on with its run, the loop resumes readers, and time passes (`Linger`), in which nothing is
written. Submissions, crashes, clients and failures are under no fairness. `RunsEnd` excepts the runs that
the engine's death or an escaped exception (a failing download) has ended: their rows stay as they are for ever.
That the jobs of a run end is `JobsEnd` there, hence assumes that scripts do; a script without an end holds the loop, and with it
every other run. `StreamsEnd` makes no such exception: a stream ends also when its run is stuck or its engine dead.
Tokens states no liveness: every step of it may be the last.

**Deadlock** is checked in every run; each model has an explicit action for a system that is done or idle.

## 4. What is proved

The proofs hold for every value of the constants that meets the `ASSUME` of the module: any finite set
of jobs, any limits, any numbers of uploads, workers, runs and artifacts, any catalogue. The theorems in
the last part of a row, after "ends:", are the provable half of a liveness property, see below.

| module | theorems | argument |
|---|---|---|
| JobSchedulerProofs | `Shape`, `NeedsFirst`, `LimitHolds`, `BadGraphsRefused`, `FullOutcome`, `SkipsHaveFailure`, `QuietAtEnd`, `OnlyOnce`, `Implementation`; `CheckedShape`, `SearchSound`, `RefusedForCycle`, `SearchIsDecision`; ends: `RunHalts`, `CheckedRunHalts` | `SchedulerInv` is inductive: the batches left are not empty and hold every job to be run once, in topological order; what is not to do or in the chunk is settled; statuses tell what threads have done. An empty `ready` in a graph without a cycle means that every job is placed. `FullOutcome` includes that the skipped jobs are exactly those that need, directly or not, a failed one, whichever of the two places skipped them. `SkipsHaveFailure`: without a failed job the skipped ones would need each other in a circle. `Implementation` maps each step to a step of DagExecution or a stutter, with a chunk that skips and a propagation as `Skip`. The second group is about CheckedScheduler and uses the theorems of CycleSearchProofs, instantiated for the graph of needs: each step of the search is a stutter of JobScheduler, and `Decide` is its `Construct`. So all that is proved of JobScheduler holds of the whole. `RunHalts`: a run of n jobs takes 7n + 4 steps at most, however its threads interleave. |
| CycleSearchProofs | `SearchShape`, `Complete`, `Sound`; ends: `SearchHalts` | `SearchInv` is inductive: the stack is a path without repetition, and no set of finished jobs is knotted; when all are finished, none is. `SearchHalts` counts names to enter, to look at and to leave: n² + 2n + 1 steps at most. |
| ResolverProofs | `PassesHold`, `Consistency`, `Highest`, `Determined`, `InRanges`; `SearchMarksHold`, `SearchIsDecision`, `Acyclicity`; ends: `Settling`, `Bounded` | `ResolverInv`: after the first pass, the constraints are those of the request and of the recorded selection. A repeated signature therefore makes the selection a fixed point. `InRanges` rests on a lemma that the bounds which `parse` computes are those of the range, for all versions. `Determined`: without rings of dependencies there is one selection that is highest for all of its own constraints; were there two, some package on which they differ would be needed by no other such package, so that both have the same constraints on it and the same highest version. The lockfile hence does not depend on the order of passes. `Settling`, `Bounded`: each pass that goes on leaves fewer packages in play than before (those whose version does not suit the constraints of the next pass, and all that they may need), so that without rings two passes more than there are packages suffice; with rings there may be endlessly many (`resolver_seesaw`). The second group is about CheckedResolver: `CheckedInv` adds that the stack is a path of just the packages being visited, that a call has skipped nothing, and that the visited packages are closed and hold no ring. Hence a package met on the stack closes a ring, all visited means that there is none, and every step is a step of Resolver or a stutter. |
| ArtifactRegistryProofs | `Coherent`, `Servable`, `Truthful`, `NoLitter`, `Faithful`, `NeverChanges`, `Implementation` | `RegistryInv` relates, handler by handler, the phase to the temporary file, the blob and the row; blobs are named by their content, so replacing one writes what it held. `NoLitter` is an induction of its own, over the phases that may have a file: a failed `os.replace` keeps none. |
| PipelineRunProofs | `RowsAgree`, `Complete`, `InOrder`, `Reasons`, `Winner`, `EofLast`, `OnlyForward`, `RegistryIsStore`; ends: `RunsHalt` | The inductive invariant is the conjunction of `RunInv`, `FailureHasReason` and `PublishedInOrder`, run by run, with the registry's own rule that a published coordinate stays. `Winner`: were there none, take the coordinate that is last in the common order among those that stopped a run; its publisher went on past it, and was stopped by a later one. `RegistryIsStore` maps an upload's request, arrival and answer to those of ImmutableStore: crashes, late arrivals and outsiders included, PipelineRun assumes nothing of the registry that ArtifactRegistry has not been shown to keep. `RunsHalt`: 9 steps and one for each artifact at most. |
| LogStreamProofs | `LogShape`, `MarkerEndsAll`, `TruthAfterMarker`, `OnlyInLull`, `WithoutLoss`, `Implementation`; ends: `StreamsHalt` | `LogInv`: what a client was sent and has in its buffer is the file up to its position, and what it was sent ends in a line end; the marker is in the file only after the status, and last. `StreamsHalt`: a client takes three steps at most for each text or line end of the log (to read it, to send it, to read it again after the walk back) and five besides. |
| TokensProofs | `OneLife`, `Truthful`, `RevocationReachesRuns` | `TokensInv`: a created secret is in the hands of one command, in the table under its name, or gone; the rows that a check has fetched were valid or are gone, so that after a late pass the next check cannot find the token. |
| JobRunnerProofs | `DockerAgrees`, `Isolation`, `ScriptsDecide`, `CleanedUp`; ends: `JobsHalt` | `RunnerInv`: for each job, its next call determines what it holds, what is attached to its network and how far its container is; for a job without failures, `CleanInv` says more: what `finally` has still to undo, and for `ScriptsDecide` that a job which never had a container has no exit code, and that one which waits has an ended script, so that its timeout cannot strike. A step of one job leaves the others `Undisturbed`: it removes a network only when nothing is attached, and attaches only to its own. `JobsHalt`: the twelve steps of a job and one for each network that it may find and prune; what siblings do never gives it more. |

**Halves of liveness.** TLAPS can prove neither fairness nor ENABLED, so that `Termination`, `JobsEnd`, `RunsEnd`, `StreamsEnd`
and `ResolutionEndsWithoutRings` as wholes stay with TLC. But what makes a liveness property of such code false is
mostly a step that is taken again and again: a retry, a spinning reader, two passes that undo each other. That
half is a safety property, and proved: a number which the state gives, which has a bound that the
input gives, and which each step of the component lowers (a pass: the set of packages in play; `SearchShortens`, `RunShortens`, `CheckedRunShortens`, `PassesSettle`,
`PassesBounded`, `JobsShorten`, `RunsShorten`, `StreamsShorten`), while the others' steps do not raise it, but for
the log's growing. What remains for TLC is that a component which is not done has a step, and that fairness has it
taken. A pass in which only the paths of constraints change is not counted, see section 6. For the search within
a pass no such number is proved: that it ends is part of `ResolutionEndsWithoutRings`, on the instance.

Assumptions beyond the sets' types: SHA-256 has no collisions (it is an injective constructor), the
jobs, packages and leaked networks are finite sets, the graph's jobs are numbered in sort order, a pipeline declares no coordinate twice (the parser
refuses it), Docker refuses a
second network of one name and does not remove a network in use, the operating system keeps appends to one file
apart, no two secrets are equal and none matches another's hash.

Every invariant and action property and every refinement that a run checks is proved. **Only model-checked:** all liveness
(`Termination`, `JobsEnd`, `RunsEnd`, `StreamsEnd`, `ResolutionEndsWithoutRings`), which is beyond TLAPS. **Only
proved**, for they follow from what the runs check: `StartsAfterNeeds`, `WithinLimit`, `RunsOnce`, `BadGraphRunsNothing`, `SearchInv`,
`CycleIsReal`, `NoCycleMissed`, `DownloadsTrue`, `EofIsLast`, `MarkerMeansAll`, `LockfileHighest`, `LockfileAcyclic`; `UsesStore` and the halves of liveness,
which TLC found to hold on the runs' instances before they were proved. Induction over data does not work with the installed provers either; the
models therefore define cycles by sets instead of paths.

## 5. Where the code and its documentation differ

Five runs end in a counterexample to what the documentation or a comment says.

1. `resolver_seesaw`: the resolver's `while True` can alternate between selections for ever
   (`registry/resolver.py:163`), while the docs have it "Repeat until the selected graph and constraints
   stop changing". It happens when a version that one pass selects excludes, in the next,
   the version that asked for it. As the handler does not await, the registry answers nobody from then on.
   Without packages that may come to depend on themselves, resolutions do end (`ResolutionEndsWithoutRings`).
2. `resolver_conflict`: a conflict is reported over a constraint of a version that this same pass
   deselects (`registry/resolver.py:231`); the README speaks of "all active constraints".
3. `runner_collision`: independent jobs of a run create networks of the same name
   (`engine/runner.py:136`); the second fails with 125, or prunes the first one's network. The README has
   independent jobs run in parallel.
4. `runner_hang`: the runner follows the output of the container to its end before it waits with a timeout
   (`engine/runner.py:245`), so that the "hard ceiling" of the comment at line 63 is never reached.
5. `forge_run`: `forge run` reads the status once, when its stream is over, and prints it as final
   (`cli/forge.py:146`). The stream is over five seconds after the request if nothing has been logged (`engine/logs.py:150`), for
   instance while dependencies are resolved and fetched: the user reads "running" as the final status, where the help
   says "Submit a pipeline and poll until complete." After the marker the status is final (`ToldTruth`).

Two more differences have no run, as they are about one line each:

- `scheduler.run` blocks the event loop (`engine/main.py:280`): a client that connects while jobs run gets its backlog,
  and any other request its answer, only when the jobs have ended. LogStream has this as `oneLoop`.
- `docs/parser-scheduler.md:50-57` has the parser reject duplicate fields and job names, unknown needs and
  self-needs. `_mapping_to_dict` and `_parse_jobs` (`engine/parser.py:256-260`, `134-161`) keep the last of two equal keys without a word, and needs are
  left to the scheduler, which refuses the run later, with status `cycle_failure`.

## 6. What is not modelled

- Docker's data: resource limits, environment, path translation, the OOM flag (it turns a result into
  a failed one; the scheduler has that case).
- What the scheduler's `_coerce_executor_status` does with strings, "skipped" and unsupported results
  (`engine/scheduler.py:207-228`): the engine's executor returns a `JobResult`, so these branches are not reached.
- A failure to remove a file that is there (`registry/storage.py:85`, `93`, `98`).
- The engine's own database failing within a run. Each row is written in the step that precedes the next await.
- The unpacking of dependencies into workspaces; a materialisation fails or succeeds as a whole.
- Parsing, formatting and messages: what the parser does to a text is data; what the other parts rely on of it is in
  JobGraph, PipelineRun and Semver. `forge login` and the printing of results. `get_run`, `get_lockfile`, version and metadata listings only read.
- Slack: its errors are caught and it changes nothing. Configuration and deployment are constants.
- Constraints of resolver errors carry the paths that led to them; they are left out, and a pass in which only a
  path changes selects what was selected before.

- Durations. A deadline may strike whenever its condition lasts. So the time a check of tokens takes (each row costs a hash,
  `registry/auth.py:103`) against the engine's five seconds is out of reach.

## 7. Plan

Done: all modules of section 2 and their proofs. Left:

1. **Parser**: mappings as sequences of keys and values, with duplicates; `needs` and artifacts as the code checks them
   (section 5).
2. **Compositions**: PipelineRun over JobScheduler instead of its outcome; the runner as the executor of the scheduler.
