SPECIFICATION Spec
CONSTANTS
    Channels <- MC_Channels
    CntMax = 3
    IdxMod = 3
    MaxPulses = 4
    Resets = TRUE
    PageLen = 2
    LogSize = 2
    Pages <- MC_Pages
    HostOps <- MC_HostOps
    PageLead = 3
    PageGap = 4
INVARIANTS
    RegTypeOK
    CountsPulses
    CountsInStep
    LogTrue
    CountThenEntry
