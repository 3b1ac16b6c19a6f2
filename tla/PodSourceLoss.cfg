\* One volume of a StatefulSet, driven by the controller; one pass dies.
SPECIFICATION FairSpec
CONSTANTS
    VolumeCount = 1
    PrecopyPasses = 1
    Adapters = {"StatefulSet"}
    Drivers = {"controller"}
    SharedChoices = {FALSE}
    ManualChoices = {FALSE}
    MaxInterrupts = 1
    MaxFailures = 0
PROPERTIES CutoverIsNoSourceLoss
CHECK_DEADLOCK FALSE
