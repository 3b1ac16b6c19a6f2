SPECIFICATION FairSpec
CONSTANTS
    src = src
    dst = dst
    pv1 = pv1
    NoClaim = NoClaim
    NoVolume = NoVolume
    OtherVolume = OtherVolume
    SourceClaim = src
    DestinationClaim = dst
    SourcePV = pv1
    Claims <- MCClaims
    Volumes <- MCVolumes
    InitialPolicy <- MCPolicy
    MaxPods = 2
    MaxIntrusions = 1
    MaxCrashes = 3
    MaxRestores = 1
    MaxRollbacks = 2
CHECK_DEADLOCK FALSE
INVARIANTS DataServed GivenBackWhole
PROPERTIES DeletesSafely Finishes
