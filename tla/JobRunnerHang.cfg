\* Is a job killed at its ceiling?
CONSTANTS
    build = build
    lint = lint
    test = test
    stale = stale
    Registry = Registry
    Jobs = {build}
    Leaked = {stale}
    Width = 1
    Codes = {0, 1}
    Faults <- NoFaults
SPECIFICATION FairSpec
PROPERTY KilledAtCeiling
