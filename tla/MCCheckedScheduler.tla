------------------------- MODULE MCCheckedScheduler -------------------------
(* Instances of CheckedScheduler for TLC. *)
EXTENDS CheckedScheduler, TLC

\* Pipelines whose jobs need only jobs that sort before them, or only jobs that
\* sort after them: every shape of acyclic graph, in two opposite sort orders.
Upward == {g \in [Jobs -> SUBSET Jobs] : \A j \in Jobs : \A d \in g[j] : d < j}
Downward == {g \in [Jobs -> SUBSET Jobs] : \A j \in Jobs : \A d \in g[j] : d > j}

\* Jobs with at most one need, which may be themselves or no job: cycles of every length.
OneNeed == [Jobs -> {S \in SUBSET (Jobs \cup {Unknown}) : Cardinality(S) <= 1}]

\* Jobs with at most two needs, themselves included.
TwoNeeds == [Jobs -> {S \in SUBSET Jobs : Cardinality(S) <= 2}]

SomeGraphs == Upward \cup Downward \cup OneNeed \cup TwoNeeds
=============================================================================
