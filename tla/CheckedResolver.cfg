\* Every registry of three packages with one dependency a version at most, and every one
\* in which dependencies follow the name order.
CONSTANTS
    Packages = {1, 2, 3}
    Catalogues <- SomeCatalogues
    Requests <- SomeRequests
SPECIFICATION CheckedFairSpec
INVARIANTS CheckedInv LockfileConsistent LockfileDetermined LockfileInRange
PROPERTIES ResolutionEndsWithoutRings ImplementsResolver
