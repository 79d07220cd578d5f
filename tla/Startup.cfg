SPECIFICATION FairSpec
CONSTANTS
    NumUsers = 2
    NumAreas = 2
    NumSeeds = 4
    Chunk = 2
    MaxCrashes = 2
    tur = tur
    syr = syr
    l1 = l1
    l2 = l2
    l3 = l3
    l4 = l4
    live = live
    Countries <- MCCountries
    Verified <- MCVerified
    BuildIndex <- MCBuildIndex
    OnBuilding <- MCOnBuilding
    Legacy <- MCLegacy
    Cellable <- MCCellable
    Live <- MCLive
INVARIANTS
    RecordedPhotoExists
    SeedsOldestFirst
PROPERTIES
    BackfillLeavesNone
    BackfillEnds
