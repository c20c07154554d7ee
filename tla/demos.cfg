SPECIFICATION Spec
CONSTANTS
    Keys = {k0, k1}
    Tests = 4
    Monitors <- MCMonitors
    MaxInt = 7
    Channels = 8
    AdcSleepTicks = 2
    Depth = 4
    DataLen = 2
    WireSleepTicks = 4
    Bytes = {1, 2}
    Writes = {0, 1, 2}
    Reads = {0, 1, 2}
    MaxMerged = 3
    NIrq = 2
    Handlers = {h}
    Contexts = {c1, c2}
    NULL = NULL
    Habits <- MCHabits
    MaxRaises = 3
    Steps = 8
    Hold = 20
    MaxResets = 2
INVARIANTS
    DemosTypeOK
    PressKept
    SamplesTrue
    AnswersTrue
    CommandTrue
    HandlersNest
PROPERTIES
    LedTrue
    DemosLive
