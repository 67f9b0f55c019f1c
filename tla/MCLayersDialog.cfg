SPECIFICATION Spec
\* A reset that follows a null pointer ends the program.
CHECK_DEADLOCK FALSE
CONSTANTS
    Alphabet <- MCAlphabet
    Validation = "validation"
    Devsim = "devsim"
    Manifests <- MCManifests
    Standard <- MCStandard
    CustomPaths = {"custom"}
    Files <- MCFiles
    NoFile = NoFile
    MaxClicks = 2
INVARIANTS
    TypeOK
    ChoicesKept
    DevsimLast
    OverrideFindsLayers
PROPERTIES
    OrderSettled
    MovesAsAsked
