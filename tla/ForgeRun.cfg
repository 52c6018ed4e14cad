CONSTANTS
    Jobs = {build}
    System = system
    Clients = {ann}
    Marker = eof
    NL = newline
    Chunk = 3
    MaxLines = 2
    Slow <- MCSetup
    Loops = {TRUE}
    Faults = {}
SPECIFICATION FairSpec
INVARIANT FinalStatusTold
