SPECIFICATION Spec
CONSTANTS
    Systems = {"linux", "bsd", "macos", "windows"}
    Environments <- MCEnvironments
    DriverFolders <- MCDriverFolders
    Layers <- MCLayers
    Now <- MCNow
    MaxGpus = 2
INVARIANTS
    TypeOK
    WellFormedReport
    AllReleased
    SuccessIsEarned
    DriverVerdict
CHECK_DEADLOCK FALSE
