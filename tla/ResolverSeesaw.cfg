\* Does the resolution of a request always end?
CONSTANTS
    Packages = {1, 2, 3}
    Catalogues <- OneDepCatalogues
    Requests <- OnlyFirstTwo
SPECIFICATION FairSpec
PROPERTY ResolutionEnds
