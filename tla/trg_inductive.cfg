SPECIFICATION Spec
CONSTANTS
    prgexct = prgexct
    rdstat = rdstat
    InstLen = 3
    OpLen = 2
    PlsTop = 3
    Channels <- MC_Channels
    CmdOf <- MC_CmdOf
    HostWrites <- MC_NoWrites
    LiveWrites = FALSE
    CsSetup = 5
    CsHigh = 1
    WriteGap = 3
    Resets = TRUE
INVARIANTS
    FrontInv
PROPERTIES
    InstructionArrives
