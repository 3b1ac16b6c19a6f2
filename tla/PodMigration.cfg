\* Two volumes of a workload of each kind, two passes that die, one failure.
SPECIFICATION FairSpec
CONSTANTS
    VolumeCount = 2
    PrecopyPasses = 1
    Adapters = {"StatefulSet", "VictoriaLogs", "Standalone"}
    Drivers = {"session", "controller"}
    SharedChoices = {FALSE, TRUE}
    ManualChoices = {FALSE, TRUE}
    MaxInterrupts = 2
    MaxFailures = 1
CHECK_DEADLOCK FALSE
INVARIANTS NoLostWrites CopiesExclusive NothingHalfDone
PROPERTIES ResumesWhole Recovers
