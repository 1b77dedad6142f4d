SPECIFICATION MapSpec
CONSTANTS
    Segments <- MCSegments
    Files <- MCFiles
    Deps <- MCDeps
    HotSpots <- MCHotSpots
    MaxVersion = 2
    MaxSteps = 5
    MaxClicks = 3
    Slots = {l1, l2}
SYMMETRY MCSymmetry
INVARIANTS
    EdgesHaveEnds
    LoadedIsShown
PROPERTIES
    FilesAreFound
CHECK_DEADLOCK FALSE
