SPECIFICATION MigrationFairSpec
CONSTANTS
    src = src
    tmp = tmp
    act = act
    pv1 = pv1
    pv2 = pv2
    NoClaim = NoClaim
    NoVolume = NoVolume
    OtherVolume = OtherVolume
    SourceClaim = src
    TemporaryClaim = tmp
    ActiveClaim = src
    SourcePV = pv1
    DestinationPV = pv2
    Claims <- MCClaims
    Volumes <- MCVolumes
    InitialPolicy <- MCPolicy
    MaxPods = 1
    MaxIntrusions = 1
    MaxCrashes = 2
    MaxRestores = 1
    DeletesUnused = TRUE
    MaxCleanups = 1
    MaxRemovals = 1
CHECK_DEADLOCK FALSE
INVARIANTS InUseKept RecordTrue
PROPERTIES MigrationFinishes
