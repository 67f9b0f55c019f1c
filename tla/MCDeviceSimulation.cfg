SPECIFICATION Spec
CONSTANTS
    FileIds = {"a", "b", "c"}
    Files <- MCFiles
    Instances = {i1, i2}
    GpuCount = 2
    Threads = {t1}
    Drivers <- MCDrivers
    Environments <- MCEnvironments
    MaxCreated = 2
    MaxCapacity = 1
INVARIANTS
    TypeOK
    NeverDies
    AnswersAsConfigured
    ListsAsConfigured
PROPERTIES
    AnswersStable
SYMMETRY Handles
CHECK_DEADLOCK FALSE
