\* Any two pipelines, under every fault.
CONSTANTS
    first = first
    second = second
    lib = lib
    app = app
    NoRun = NoRun
    Outsider = Outsider
    Runs = {first, second}
    Jobs = {"build", "test"}
    Coordinates = {lib, app}
    Pipelines <- AnyPair
    Faults = {"crash", "download", "runner", "answer lost", "outsider"}
SPECIFICATION FairSpec
INVARIANTS RunInv SuccessIsComplete PublishedInOrder FailureHasReason RaceHasWinner
PROPERTIES Forward RunsEnd
