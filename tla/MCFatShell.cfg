SPECIFICATION Spec
CONSTANTS
    SectorSlots = 2
    ClusterSlots = 4
    ClusterBytes = 2
    RootSector = 4
    RootSlots = 4
    LastCluster = 5
    Volumes <- MCVolumes
    Names <- MCNames
    MaxLevel = 3
    MaxPath = 3
    Sizes = {1, 4, 7}
CHECK_DEADLOCK FALSE
INVARIANTS
    FatTypeOK
    PromptIsTrue
    TreeIsHierarchy
    LsShowsCurrent
    ReadIsExact
