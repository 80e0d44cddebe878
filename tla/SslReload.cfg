SPECIFICATION FairSpec
CONSTANTS
    Order <- MCOrder
    MaxVersion = 2
INVARIANTS
    HashesMatchLoaded
PROPERTIES
    RotationIsLoaded
