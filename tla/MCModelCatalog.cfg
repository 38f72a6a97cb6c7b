SPECIFICATION Spec
CONSTANTS
    Names <- MCNames
    Files <- MCFiles
    Offered <- MCOffered
    Directory = "/installed"
CHECK_DEADLOCK FALSE
INVARIANTS
    CatalogSound
    LoadFaithful
