\* Three jobs, two at a time; Docker calls fail for two of them and scripts end.
CONSTANTS
    build = build
    lint = lint
    test = test
    stale = stale
    Registry = Registry
    Jobs = {build, lint, test}
    Leaked = {stale}
    Width = 2
    Codes = {0, 1}
    Faults <- AllButBuild
SPECIFICATION EndingSpec
INVARIANTS RunnerInv OwnNetwork  NothingLeft
PROPERTY JobsEnd
