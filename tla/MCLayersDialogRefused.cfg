\* The user answers No when asked whether to exclude an implicit layer.
SPECIFICATION Spec
CHECK_DEADLOCK FALSE
CONSTANTS
    Alphabet <- MCAlphabet
    Validation = "validation"
    Devsim = "devsim"
    Manifests <- MCManifests
    Standard <- MCStandard
    CustomPaths = {"custom"}
    Files <- MCFiles
    NoFile = NoFile
    MaxClicks = 2
INVARIANT
    RefusedStaysOn
