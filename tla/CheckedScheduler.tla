-------------------------- MODULE CheckedScheduler --------------------------
(***************************************************************************)
(* engine/scheduler.py, whole: DAGScheduler.__init__ with the depth-first  *)
(* search of find_cycle step by step, followed by the planning and running *)
(* of JobScheduler.  (topological_batches repeats the search on the same   *)
(* graph, with the same result.)                                           *)
(***************************************************************************)
EXTENDS JobScheduler

VARIABLES visiting, visited, stack, pending, cycle, found   \* of find_cycle

Search == INSTANCE CycleSearch WITH graph <- needs

searching == <<visiting, visited, stack, pending, cycle, found>>
checkedVars == <<vars, searching>>

CheckedInit == Init /\ Search!Start

-----------------------------------------------------------------------------
\* The limit and the names are checked before the search.
Searchable == limit >= 1 /\ ~HasUnknown(needs)

RefuseEarly ==
    /\ pc = "construct" /\ ~Searchable
    /\ pc' = "refused"
    /\ UNCHANGED <<config, planning, batches, rest, chunk, failures, status, future, searching>>

SearchOn ==
    /\ pc = "construct" /\ Searchable
    /\ Search!Search
    /\ UNCHANGED vars

\* find_cycle has returned a path or None.
Decide ==
    /\ pc = "construct" /\ Searchable /\ found # "searching"
    /\ IF found = "none"
         THEN /\ pc' = "plan"
              /\ ready' = {j \in Jobs : indegree[j] = 0}
         ELSE pc' = "refused" /\ UNCHANGED ready
    /\ UNCHANGED <<config, indegree, batches, rest, chunk, failures, status, future, searching>>

CheckedSchedule ==
    \/ RefuseEarly \/ SearchOn \/ Decide
    \/ Run /\ UNCHANGED searching

CheckedThread(j) == Thread(j) /\ UNCHANGED searching

CheckedNext ==
    \/ CheckedSchedule
    \/ \E j \in Jobs : CheckedThread(j)
    \/ Stopped /\ UNCHANGED searching

CheckedSpec == CheckedInit /\ [][CheckedNext]_checkedVars

\* As in JobScheduler: the scheduling thread and the pool threads keep running.
CheckedFairSpec ==
    /\ CheckedSpec
    /\ WF_checkedVars(CheckedSchedule)
    /\ \A j \in Jobs : WF_checkedVars(CheckedThread(j))

-----------------------------------------------------------------------------
\* The search is where its stack says, whatever graph it was given, while the
\* scheduler is built and afterwards.
SearchHolds == ~HasUnknown(needs) => Search!SearchInv

\* A pipeline is refused with a path only if the path is a cycle of its jobs (the
\* path is what the user is shown).
ReportedCycleIsReal == Search!CycleIsReal

\* The steps of the search add up to one decision: the scheduler goes on just if the
\* graph is acyclic and known, and nothing of planning or running happens before.
ImplementsScheduler == Spec
=============================================================================
