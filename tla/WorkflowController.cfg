\* One object name and its three queues.
SPECIFICATION Spec
CONSTANTS
    RetryWindow = 2
    RetryFloor = 1
    RetryCap = 2
    MaxFaults = 2
    MaxAborts = 1
CHECK_DEADLOCK FALSE
INVARIANTS NothingUnfinalized
PROPERTIES ActsAsAdmitted Answered
