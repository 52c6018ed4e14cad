--------------------------- MODULE MCPipelineRun ---------------------------
(* Instances of PipelineRun for TLC. *)
EXTENDS PipelineRun, TLC
CONSTANTS first, second, lib, app

Declares(deps, sound, artifacts) == [deps |-> deps, sound |-> sound, artifacts |-> artifacts]

\* The parser refuses a pipeline that declares a coordinate twice.
Lists == {<<>>, <<lib>>, <<lib, app>>, <<app, lib>>}
AnyPair == [Runs -> {Declares(d, s, l) : d \in BOOLEAN, s \in BOOLEAN, l \in Lists}]
=============================================================================
