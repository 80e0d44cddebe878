SPECIFICATION FilesSpec
CONSTANTS
    Versions = {16, 17}
    Environments <- MCEnvironments
INVARIANTS
    ArchiveIsFound
    CloneIsFound
    FilesFollowData
