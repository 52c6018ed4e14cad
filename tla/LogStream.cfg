CONSTANTS
    Jobs = {build, test}
    System = system
    Clients = {ann}
    Marker = eof
    NL = newline
    Chunk = 3
    MaxLines = 2
    Slow <- MCSlow
    Loops = {TRUE, FALSE}
    Faults <- MCFaults
SPECIFICATION FairSpec
INVARIANTS LogInv ToldTruth
PROPERTIES GivesUpOnlyInLull EndsWithoutLoss StreamsEnd ImplementsFeed
