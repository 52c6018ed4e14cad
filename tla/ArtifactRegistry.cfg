\* Three uploads, two of them any or racing to one coordinate, and a download.
CONSTANTS
    first = first
    second = second
    third = third
    lib = lib
    app = app
    one = one
    two = two
    Uploads = {first, second, third}
    Downloads = {d}
    Coordinates = {lib, app}
    Contents = {one, two}
    Partial = Partial
    NoFile = NoFile
    Unparsable = Unparsable
    Workers = 2
    Batches <- PairsAndRaces
SPECIFICATION Spec
INVARIANTS RegistryInv RowsServable AnswersTrue TempsRemoved
PROPERTY ImplementsImmutableStore
