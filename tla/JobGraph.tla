------------------------------ MODULE JobGraph ------------------------------
(***************************************************************************)
(* Job graphs of a pipeline, as engine/scheduler.py sees them: a function  *)
(* from each job to the set of names in its `needs`.  Names that sort      *)
(* before one another are numbers that are below one another.              *)
(***************************************************************************)
EXTENDS Naturals, FiniteSets

CONSTANTS Jobs,     \* the job names of the pipeline, numbered in sort order
          Unknown   \* a name in some `needs` that no job has

ASSUME JobsAssumption == /\ Jobs \subseteq Nat
                         /\ IsFiniteSet(Jobs)
                         /\ Unknown \notin Jobs

\* What parsed pipelines hand to the scheduler: the parser checks that `needs`
\* is a list of strings and no more, so any name may occur, the job's own too.
AllGraphs == [Jobs -> SUBSET (Jobs \cup {Unknown})]

HasUnknown(g) == \E j \in Jobs : Unknown \in g[j]

\* A set of jobs in which every job waits for another one of the set.
Knotted(g, S) == S # {} /\ \A j \in S : g[j] \cap S # {}

HasCycle(g) == \E S \in SUBSET Jobs : Knotted(g, S)
=============================================================================
