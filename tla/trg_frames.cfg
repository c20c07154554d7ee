SPECIFICATION ObservedSpec
CONSTANTS
    prgexct = prgexct
    rdstat = rdstat
    InstLen = 4
    OpLen = 2
    PlsTop = 3
    Channels <- MC_Channels
    CmdOf <- MC_CmdOf
    HostWrites <- MC_Setup
    LiveWrites = FALSE
    CsSetup = 5
    CsHigh = 1
    WriteGap = 3
    Resets = TRUE
INVARIANTS
    HeldIsSent
    TriggerIsCommand
    PulseInTime
    NeverTwice
    PageContract
PROPERTIES
    ImplementsDetector
