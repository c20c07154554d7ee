SPECIFICATION TopSpec
CONSTANTS
    Channels <- MC_Channels
    CmdOf <- MC_CmdOf
    CntMax = 7
    IdxMod = 4
    MaxPulses = 2
    Resets = FALSE
    PageLen = 2
    LogSize = 2
    Pages <- Page
    HostOps = {}
    PageLead = 3
    PageGap = 4
    InstLen = 3
    OpLen = 1
    PlsTop = 5
    CsSetup = 5
    CsHigh = 1
    MaxFrames = 2
    FrameGap = 10
INVARIANTS
    FramesLogged
PROPERTIES
    ImplementsReg
