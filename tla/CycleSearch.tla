----------------------------- MODULE CycleSearch -----------------------------
(***************************************************************************)
(* engine/scheduler.py: find_cycle, the depth-first search that decides    *)
(* whether a pipeline may run, one look at a dependency per step.  The     *)
(* recursion of `dfs` is the stack with what each frame has left to visit. *)
(***************************************************************************)
EXTENDS JobGraph, Sequences

VARIABLES
    graph,     \* build_job_graph(pipeline)
    visiting,  \* the jobs on the stack
    visited,   \* the jobs whose descendants have all been visited
    stack,     \* the path of the search
    pending,   \* job -> its dependencies that its frame has not looked at
    cycle,     \* the path returned, <<>> while there is none
    found      \* "searching", "cycle" or "none"

vars == <<graph, visiting, visited, stack, pending, cycle, found>>

Start == /\ visiting = {} /\ visited = {} /\ stack = <<>>
         /\ pending = graph
         /\ cycle = <<>> /\ found = "searching"

Init == graph \in [Jobs -> SUBSET Jobs] /\ Start   \* build_job_graph lets no unknown name pass

Top == stack[Len(stack)]
IsFirst(j, S) == j \in S /\ \A k \in S : j <= k   \* iteration over sorted(S)

\* dfs(job): the frame is entered.
Push(j) ==
    /\ visiting' = visiting \cup {j}
    /\ stack' = Append(stack, j)

Root(j) ==
    /\ found = "searching" /\ stack = <<>>
    /\ IsFirst(j, Jobs \ visited)
    /\ Push(j)
    /\ UNCHANGED <<graph, visited, pending, cycle, found>>

\* A frame looks at its next dependency: on the path, done with, or to be entered.
PathFromRoot(d) == stack \o <<d>>                               \* mutant
PathFrom(d) ==
    LET i == CHOOSE i \in 1..Len(stack) : stack[i] = d
    IN  SubSeq(stack, i, Len(stack)) \o <<d>>

Look(d) ==
    /\ found = "searching" /\ stack # <<>> /\ IsFirst(d, pending[Top])
    /\ pending' = [pending EXCEPT ![Top] = @ \ {d}]
    /\ UNCHANGED <<graph, visited>>
    /\ \/ /\ d \in visiting
          /\ cycle' = PathFrom(d) /\ found' = "cycle"
          /\ UNCHANGED <<visiting, stack>>
       \/ /\ d \notin visiting /\ d \in visited
          /\ UNCHANGED <<visiting, stack, cycle, found>>
       \/ /\ d \notin visiting /\ d \notin visited
          /\ Push(d)
          /\ UNCHANGED <<cycle, found>>

\* The frame has looked at every dependency: stack.pop, visiting.remove, visited.add.
FirstLookedAt(j) == pending[j] # graph[j] \/ graph[j] = {}      \* mutant
AllLookedAt(j) == pending[j] = {}
KeptOnPath(j) == visiting                                      \* mutant
Unmarked(j) == visiting \ {j}
Remembered(j) == visited \cup {j}

Leave ==
    /\ found = "searching" /\ stack # <<>> /\ AllLookedAt(Top)
    /\ visiting' = Unmarked(Top) /\ visited' = Remembered(Top)
    /\ stack' = SubSeq(stack, 1, Len(stack) - 1)
    /\ UNCHANGED <<graph, pending, cycle, found>>

Exhausted ==
    /\ found = "searching" /\ stack = <<>> /\ visited = Jobs
    /\ found' = "none"
    /\ UNCHANGED <<graph, visiting, visited, stack, pending, cycle>>

Search == (\E j \in Jobs : Root(j) \/ Look(j)) \/ Leave \/ Exhausted

Stopped == found # "searching" /\ UNCHANGED vars

Next == Search \/ Stopped

Spec == Init /\ [][Next]_vars /\ WF_vars(Search)

-----------------------------------------------------------------------------
TypeOK ==
    /\ graph \in [Jobs -> SUBSET Jobs]
    /\ visiting \subseteq Jobs /\ visited \subseteq Jobs
    /\ stack \in Seq(Jobs) /\ cycle \in Seq(Jobs)
    /\ pending \in [Jobs -> SUBSET Jobs]
    /\ found \in {"searching", "cycle", "none"}

\* The search is where its stack says: the stack is a path of the graph without
\* repetition that holds just the jobs marked `visiting`, no job is both on the
\* path and done with, and a job is done with only when all it needs is, so that
\* nothing knotted is ever among the visited.
StackIsPath ==
    /\ visiting = {stack[i] : i \in 1..Len(stack)}
    /\ \A i, j \in 1..Len(stack) : stack[i] = stack[j] => i = j
    /\ \A i \in 1..(Len(stack) - 1) : stack[i + 1] \in graph[stack[i]]
NothingSkipped ==
    /\ \A j \in Jobs \ (visiting \cup visited) : pending[j] = graph[j]
    /\ \A j \in Jobs : pending[j] \subseteq graph[j]
    /\ \A i \in 1..Len(stack), d \in Jobs :
         d \in graph[stack[i]] \ pending[stack[i]] =>
             d \in visited \/ (i < Len(stack) /\ d = stack[i + 1]) \/ found = "cycle"
VisitedIsClosed ==
    /\ visiting \cap visited = {}
    /\ \A j \in visited : graph[j] \subseteq visited
    /\ \A S \in SUBSET visited : ~Knotted(graph, S)
SearchInv == TypeOK /\ StackIsPath /\ NothingSkipped /\ VisitedIsClosed

\* The path returned is a cycle of the graph: it starts and ends at the same job,
\* passes no job twice and follows `needs` (the error message prints it).
Ends == cycle[1] = cycle[Len(cycle)]
CycleIsReal ==
    found = "cycle" =>
        /\ Len(cycle) > 1 /\ Ends
        /\ \A i \in 1..(Len(cycle) - 1) : cycle[i + 1] \in graph[cycle[i]]
        /\ \A i, j \in 1..(Len(cycle) - 1) : cycle[i] = cycle[j] => i = j

\* A graph the search passes has no cycle at all (and by CycleIsReal a graph it
\* refuses has one): what HasCycle decides at once is what the search decides.
NoCycleMissed == found = "none" => ~HasCycle(graph)

\* The search ends on every graph, also a cyclic one.
SearchEnds == <>(found # "searching")
=============================================================================
