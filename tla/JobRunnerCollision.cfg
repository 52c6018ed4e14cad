\* Do independent jobs run in parallel?
CONSTANTS
    build = build
    lint = lint
    test = test
    stale = stale
    Registry = Registry
    Jobs = {build, lint}
    Leaked = {stale}
    Width = 2
    Codes = {0, 1}
    Faults <- NoFaults
SPECIFICATION Spec
INVARIANT ParallelJobsSucceed
