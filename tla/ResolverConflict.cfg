\* Is a reported conflict always about constraints of selected versions?
CONSTANTS
    Packages = {1, 2, 3}
    Catalogues <- OneDepCatalogues
    Requests <- OnlyPinFirst
SPECIFICATION Spec
INVARIANT ConflictIsActive
