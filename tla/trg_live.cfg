SPECIFICATION Spec
CONSTANTS
    prgexct = prgexct
    InstLen = 3
    OpLen = 1
    PlsTop = 3
    Channels <- MC_Channels
    CmdOf <- MC_CmdOf
    HostWrites <- MC_Writes
    LiveWrites = TRUE
    CsSetup = 5
    CsHigh = 1
    WriteGap = 3
    Resets = FALSE
INVARIANTS
    TriggerOwnClass
    WindowsTrue
