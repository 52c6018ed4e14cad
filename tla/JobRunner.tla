----------------------------- MODULE JobRunner -----------------------------
(***************************************************************************)
(* engine/runner.py: the jobs of one pipeline run, each in a thread of the *)
(* scheduler's pool, and the Docker daemon they share.                     *)
(*                                                                         *)
(* One pipeline run executes at a time (DAGScheduler.run holds the event   *)
(* loop), so all jobs here have the same run id, hence the same network    *)
(* name; networks of earlier runs may be left over.  Every call to Docker  *)
(* is a step of its own, and may fail if Faults says so, with an error of  *)
(* Docker's or with another one, like a connection that breaks after the   *)
(* call was carried out.  What Docker does is taken from how the runner    *)
(* uses it: a second network of one name is refused, and a network is      *)
(* removed only when nothing is attached to it.                            *)
(* (The list call of the Docker SDK leaves out a network's containers, so  *)
(* that the runner tries to remove every network it lists.)                *)
(***************************************************************************)
EXTENDS Naturals, FiniteSets

CONSTANTS Jobs,       \* the jobs, and the networks they create
          Leaked,     \* networks that earlier runs may have left
          Registry,   \* the registry's container
          Width,      \* max_concurrency
          Codes,      \* exit codes of scripts, 0 among them, the runner's own left out
          Faults      \* job -> the Docker calls that may fail for it

Calls == {"list", "create", "registry", "connect", "image", "start", "logs", "stream", "wait",
          "kill", "reload", "remove", "disconnect", "remove_network"}

ASSUME RunnerAssumption ==
    /\ IsFiniteSet(Jobs) /\ IsFiniteSet(Leaked)
    /\ Jobs \cap Leaked = {} /\ "run" \notin Leaked /\ Registry \notin Jobs
    /\ Width \in Nat \ {0}
    /\ Codes \subseteq 0..255 \ {124, 125} /\ 0 \in Codes
    /\ Faults \in [Jobs -> SUBSET Calls]

VARIABLES
    networks,     \* the networks there are
    attached,     \* network -> what is attached to it
    container,    \* job -> the state of its container
    code,         \* job -> the exit code of its script, once it has exited by itself
    listed,       \* job -> networks it has yet to try to prune
    holds,        \* job -> the locals of run that are set: network, registry_attached, container
    result,       \* job -> exit_code of its JobResult
    pc            \* job -> the next call

vars == <<networks, attached, container, code, listed, holds, result, pc>>
docker == <<networks, attached, container, code>>

Networks == Jobs \cup Leaked
Name(n) == IF n \in Jobs THEN "run" ELSE n
None == 999                       \* no exit code yet
Raised == 998                     \* an exception other than Docker's: a SchedulerError
Failed == 125
TimedOut == 124

Init == /\ networks \in SUBSET Leaked
        /\ attached \in [Networks -> {{}, {Registry}}]
        /\ \A n \in Networks \ networks : attached[n] = {}
        /\ container = [j \in Jobs |-> "none"]
        /\ code = [j \in Jobs |-> None]
        /\ listed = [j \in Jobs |-> {}]
        /\ holds = [j \in Jobs |-> {}]
        /\ result = [j \in Jobs |-> None]
        /\ pc = [j \in Jobs |-> "waiting"]

Active == {j \in Jobs : pc[j] \notin {"waiting", "done"}}

Goto(j, from, to) == pc[j] = from /\ pc' = [pc EXCEPT ![j] = to]
Hold(j, what) == holds' = [holds EXCEPT ![j] = @ \cup {what}]
Attach(n, what) == attached' = [attached EXCEPT ![n] = @ \cup {what}]
Detach(n, what) == attached' = [attached EXCEPT ![n] = @ \ {what}]

\* run's `except` clauses and its end set the result, any other exception escapes from
\* it; `finally` follows.
Return(j, from, how) == Goto(j, from, "remove") /\ result' = [result EXCEPT ![j] = how]
Broken(j, from) == Return(j, from, Failed) \/ Return(j, from, Raised)
Lost(j, from) == Return(j, from, Raised) /\ UNCHANGED holds   \* the answer of a call

-----------------------------------------------------------------------------
Begin(j) ==
    /\ Cardinality(Active) < Width
    /\ Goto(j, "waiting", "list")
    /\ UNCHANGED <<docker, listed, holds, result>>

\* _prune_stale_job_networks; a list that Docker refuses only skips it.
List(j) ==
    /\ \/ /\ Goto(j, "list", "prune") /\ UNCHANGED result
          /\ \/ listed' = [listed EXCEPT ![j] = networks]
             \/ "list" \in Faults[j] /\ UNCHANGED listed
       \/ "list" \in Faults[j] /\ Return(j, "list", Raised) /\ UNCHANGED listed
    /\ UNCHANGED <<docker, holds>>

Unattached(n) == attached[n] = {}

\* network.remove()
Drop(j, n) ==
    \/ networks' = IF Unattached(n) THEN networks \ {n} ELSE networks
    \/ "remove_network" \in Faults[j] /\ UNCHANGED networks

Prune(j) ==
    /\ pc[j] = "prune"
    /\ \E n \in listed[j] :
         /\ Drop(j, n)
         /\ listed' = [listed EXCEPT ![j] = @ \ {n}]
    /\ UNCHANGED <<attached, container, code, holds, result, pc>>

PruneBreaks(j) ==
    /\ listed[j] # {} /\ "remove_network" \in Faults[j]
    /\ Return(j, "prune", Raised)
    /\ listed' = [listed EXCEPT ![j] = {}]
    /\ UNCHANGED <<docker, holds>>

Unchecked(j) == TRUE                                        \* mutant: check_duplicate=False
NameFree(j) == \A n \in networks : Name(n) # Name(j)

Create(j) ==
    /\ listed[j] = {}
    /\ \/ /\ NameFree(j) /\ networks' = networks \cup {j}
          /\ \/ Goto(j, "prune", "connect") /\ UNCHANGED result
             \/ "create" \in Faults[j] /\ Lost(j, "prune")
       \/ /\ \/ ~NameFree(j) /\ Return(j, "prune", Failed)
             \/ "create" \in Faults[j] /\ Broken(j, "prune")
          /\ UNCHANGED networks
    /\ UNCHANGED <<attached, container, code, listed, holds>>

\* The registry's container is looked up and attached.  Until this returns, `run`
\* has no network to clean up.
Connect(j) ==
    /\ \/ /\ j \in networks /\ Attach(j, Registry)
          /\ \/ Goto(j, "connect", "registry") /\ Hold(j, "network") /\ UNCHANGED result
             \/ "connect" \in Faults[j] /\ Lost(j, "connect")
       \/ /\ \/ j \notin networks /\ Return(j, "connect", Failed)
             \/ Faults[j] \cap {"registry", "connect"} # {} /\ Broken(j, "connect")
          /\ UNCHANGED <<attached, holds>>
    /\ UNCHANGED <<networks, container, code, listed>>

\* It is looked up again.
FindRegistry(j) ==
    /\ \/ /\ Goto(j, "registry", "launch") /\ Hold(j, "registry_attached")
          /\ UNCHANGED result
       \/ /\ "registry" \in Faults[j]
          /\ Broken(j, "registry") /\ UNCHANGED holds
    /\ UNCHANGED <<docker, listed>>

\* containers.run: create and start, on the network that has the name.
Launch(j) ==
    /\ \/ \E n \in networks :
            /\ Name(n) = Name(j)
            /\ Attach(n, j) /\ container' = [container EXCEPT ![j] = "running"]
            /\ \/ Goto(j, "launch", "stream") /\ Hold(j, "container") /\ UNCHANGED result
               \/ "start" \in Faults[j] /\ Lost(j, "launch")
       \/ /\ Broken(j, "launch") /\ UNCHANGED <<attached, holds>>
          /\ \/ "image" \in Faults[j] /\ UNCHANGED container
             \/ /\ "start" \in Faults[j] \/ NameFree(j)
                /\ container' = [container EXCEPT ![j] = "created"]
    /\ UNCHANGED <<networks, code, listed>>

\* The script ends.
Exit(j) ==
    /\ container[j] = "running"
    /\ container' = [container EXCEPT ![j] = "exited"]
    /\ \E c \in Codes : code' = [code EXCEPT ![j] = c]
    /\ attached' = [n \in Networks |-> attached[n] \ {j}]
    /\ UNCHANGED <<networks, listed, holds, result, pc>>

\* _stream_logs follows the output to its end, which is the container's.
StreamsOn(j) == container[j] = "removed"                    \* mutant: to the removal
AtOnce(j) == TRUE                                           \* mutant: follow=False
StreamEnds(j) == container[j] # "running"
Stream(j) ==
    /\ StreamEnds(j) \/ "logs" \in Faults[j]
    /\ Goto(j, "stream", "wait")
    /\ UNCHANGED <<docker, listed, holds, result>>

\* The connection the output comes over breaks: no Docker error, so that `run` raises.
StreamBreaks(j) ==
    /\ "stream" \in Faults[j]
    /\ Return(j, "stream", Raised)
    /\ UNCHANGED <<docker, listed, holds>>

Killed(j) ==
    /\ container' = [container EXCEPT ![j] = "exited"]
    /\ attached' = [n \in Networks |-> attached[n] \ {j}]

\* _was_oom_killed reloads the container; when the connection breaks, `run` raises.
Answered(j, how) ==
    \/ Return(j, "wait", how)
    \/ "reload" \in Faults[j] /\ Return(j, "wait", Raised)

Wait(j) ==
    /\ container[j] = "exited"
    /\ Answered(j, code[j])
    /\ UNCHANGED <<docker, listed, holds>>

\* container.wait(timeout) with the container still running, or any exception of it.
Timeout(j) ==
    /\ container[j] = "running" \/ "wait" \in Faults[j]
    /\ \/ Answered(j, TimedOut) /\ Killed(j)
       \/ /\ "kill" \in Faults[j] /\ UNCHANGED <<container, attached>>
          /\ Answered(j, TimedOut) \/ Return(j, "wait", Raised)
    /\ UNCHANGED <<networks, code, listed, holds>>

-----------------------------------------------------------------------------
\* `finally`, in its order; each Docker error is only logged, any other ends it.
Escape(j, from) == Goto(j, from, "done") /\ result' = [result EXCEPT ![j] = Raised]

RemoveContainer(j) ==
    /\ Goto(j, "remove", "disconnect")
    /\ IF "container" \in holds[j]
         THEN \/ /\ container' = [container EXCEPT ![j] = "removed"]
                 /\ attached' = [n \in Networks |-> attached[n] \ {j}]
              \/ "remove" \in Faults[j] /\ UNCHANGED <<container, attached>>
         ELSE UNCHANGED <<container, attached>>
    /\ UNCHANGED <<networks, code, listed, holds, result>>

RemoveContainerBreaks(j) ==
    /\ "container" \in holds[j] /\ "remove" \in Faults[j]
    /\ Escape(j, "remove")
    /\ UNCHANGED <<docker, listed, holds>>

NeverConnected(j) == FALSE                                  \* mutant: no disconnect
Disconnects(j) == {"network", "registry_attached"} \subseteq holds[j]
Disconnect(j) ==
    /\ Goto(j, "disconnect", "remove_network")
    /\ \/ Disconnects(j) /\ Detach(j, Registry)
       \/ (~Disconnects(j) \/ "disconnect" \in Faults[j]) /\ UNCHANGED attached
    /\ UNCHANGED <<networks, container, code, listed, holds, result>>

DisconnectBreaks(j) ==
    /\ Disconnects(j) /\ "disconnect" \in Faults[j]
    /\ Escape(j, "disconnect")
    /\ UNCHANGED <<docker, listed, holds>>

RemoveNetwork(j) ==
    /\ Goto(j, "remove_network", "done")
    /\ IF "network" \in holds[j] THEN Drop(j, j) ELSE UNCHANGED networks
    /\ UNCHANGED <<attached, container, code, listed, holds, result>>

RemoveNetworkBreaks(j) ==
    /\ "network" \in holds[j] /\ "remove_network" \in Faults[j]
    /\ Escape(j, "remove_network")
    /\ UNCHANGED <<docker, listed, holds>>

Call(j) == \/ Begin(j) \/ List(j) \/ Prune(j) \/ Create(j) \/ Connect(j) \/ FindRegistry(j)
           \/ Launch(j) \/ Stream(j) \/ Wait(j) \/ Timeout(j)
           \/ RemoveContainer(j) \/ Disconnect(j) \/ RemoveNetwork(j)
Break(j) == \/ PruneBreaks(j) \/ StreamBreaks(j)
            \/ RemoveContainerBreaks(j) \/ DisconnectBreaks(j) \/ RemoveNetworkBreaks(j)
Run(j) == Call(j) \/ Break(j)

Finished == (\A j \in Jobs : pc[j] = "done" /\ container[j] # "running") /\ UNCHANGED vars

Next == (\E j \in Jobs : Run(j) \/ Exit(j)) \/ Finished

Spec == Init /\ [][Next]_vars

\* Threads and daemon proceed; a script may run for ever.
FairSpec == Spec /\ \A j \in Jobs : WF_vars(Run(j))
\* Scripts end.
EndingSpec == FairSpec /\ \A j \in Jobs : WF_vars(Exit(j))

-----------------------------------------------------------------------------
TypeOK ==
    /\ networks \subseteq Networks
    /\ attached \in [Networks -> SUBSET ({Registry} \cup Jobs)]
    /\ container \in [Jobs -> {"none", "created", "running", "exited", "removed"}]
    /\ code \in [Jobs -> Codes \cup {None}]
    /\ listed \in [Jobs -> SUBSET Networks]
    /\ holds \in [Jobs -> SUBSET {"network", "registry_attached", "container"}]
    /\ result \in [Jobs -> Codes \cup {None, Raised, Failed, TimedOut}]
    /\ pc \in [Jobs -> {"waiting", "list", "prune", "connect", "registry", "launch", "stream",
                        "wait", "remove", "disconnect", "remove_network", "done"}]

\* The runner and Docker agree: nothing is attached to a network that is gone, the
\* run's name is taken once, and from its connection on a job's network stays.
NetworksInv ==
    /\ \A n \in Networks \ networks : attached[n] = {}
    /\ \A n, m \in networks : Name(n) = Name(m) => n = m
    /\ \A n \in Networks : \A j \in Jobs :
          j \in attached[n] => n = j /\ container[j] = "running"

Before == {"waiting", "list", "prune", "connect", "registry", "launch"}
Following == {"stream", "wait"}
Locals == {"network", "registry_attached", "container"}

JobInv(j) ==
    /\ pc[j] \in {"waiting", "list", "prune"} => j \notin networks
    /\ pc[j] \in {"registry", "launch"} \cup Following => j \in networks /\ Registry \in attached[j]
    /\ pc[j] \in Before => container[j] = "none" /\ "container" \notin holds[j]
    /\ pc[j] \in Following =>
          /\ "container" \in holds[j] /\ container[j] \in {"running", "exited"}
          /\ container[j] = "exited" => code[j] # None
    /\ container[j] = "running" => j \in attached[j]
    /\ result[j] = None <=> pc[j] \in Before \cup Following

\* The exit code of a script that has run, or of a job that has come to none.
Decided(j) == IF code[j] = None THEN Failed ELSE code[j]

\* What a job whose calls do not fail has come to: the result it has to have, and what
\* `finally` has to undo, or has undone.
CleanInv(j) ==
    /\ container[j] = "none" => code[j] = None
    /\ pc[j] = "wait" => container[j] = "exited"
    /\ result[j] # None => result[j] = Decided(j) /\ container[j] # "running"
    /\ pc[j] \in {"waiting", "list", "prune", "connect"} => holds[j] = {}
    /\ pc[j] = "registry" => holds[j] = {"network"}
    /\ pc[j] = "launch" => holds[j] = {"network", "registry_attached"}
    /\ pc[j] \in Following => holds[j] = Locals
    /\ pc[j] \in {"remove", "disconnect", "remove_network"} =>
          \/ holds[j] = {} /\ j \notin networks /\ container[j] = "none"
          \/ /\ holds[j] = Locals
             /\ pc[j] # "remove" => container[j] = "removed"
             /\ pc[j] = "remove_network" => attached[j] = {}
    /\ pc[j] = "done" => j \notin networks /\ container[j] \in {"none", "removed"}

RunnerInv ==
    /\ TypeOK /\ NetworksInv
    /\ \A j \in Jobs : JobInv(j) /\ (Faults[j] = {} => CleanInv(j))

\* A job's container runs on the network its job created, with the registry's container
\* and no other job's, whatever its siblings prune meanwhile (runner.py: "Each job gets
\* its own internal Docker network. Only the registry service is attached").
OwnNetwork ==
    \A j \in Jobs : container[j] = "running" =>
        /\ j \in networks /\ attached[j] \subseteq {Registry, j}
        /\ pc[j] \in {"stream", "wait"} => attached[j] = {Registry, j}

\* The result of a job whose own calls succeed is its script's: the exit code if the
\* script has run, though siblings pruned, collided and failed around it and though it
\* was long, and 125 just if it never ran.
ScriptDecides ==
    \A j \in Jobs : Faults[j] = {} /\ result[j] # None => result[j] = Decided(j)

\* A job for which no Docker call fails leaves no container and no network of its own,
\* though it collides with its siblings on the network's name, they prune its network,
\* and their calls fail as they may.
NothingLeft ==
    \A j \in Jobs : pc[j] = "done" /\ Faults[j] = {} =>
        /\ j \notin networks
        /\ container[j] \in {"none", "removed"}

\* Every job gets a result and is cleaned up, if scripts end.
JobsEnd == \A j \in Jobs : <>(pc[j] = "done" /\ result[j] # None)

\* Independent jobs of a run do not disturb one another: when no Docker call fails, a
\* job's result is its script's (README: "Runs independent jobs in parallel").
ParallelJobsSucceed == \A j \in Jobs : pc[j] = "done" => result[j] = code[j]

\* A container does not run for ever (runner.py: "Hard ceiling on how long a job can
\* run before we kill it").
KilledAtCeiling == \A j \in Jobs : container[j] = "running" ~> container[j] # "running"
=============================================================================
