SPECIFICATION CntSpec
CONSTANTS
    Channels <- MC_Channels
    CntMax = 3
    IdxMod = 2
    MaxPulses = 4
    Resets = TRUE
PROPERTY
    CounterStops
