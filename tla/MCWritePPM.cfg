SPECIFICATION FairSpec
\* An assertion ends a debug build for good.
CHECK_DEADLOCK FALSE
CONSTANTS
    Formats <- MCFormats
    ColorSpaces <- MCColorSpaces
    MaxFailures = 2
INVARIANTS
    TypeOK
    PresentUndisturbed
    LayoutsFit
    FileShowsFrame
PROPERTY
    Returns
