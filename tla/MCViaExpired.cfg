\* The date of an implicit layer is taken the wrong way round.
SPECIFICATION Spec
CONSTANTS
    Systems = {"linux", "bsd", "macos", "windows"}
    Environments <- MCEnvironments
    DriverFolders <- MCDriverFolders
    Layers <- MCLayers
    Now <- MCNow
    MaxGpus = 2
INVARIANT
    ExpiredIsDisabled
CHECK_DEADLOCK FALSE
