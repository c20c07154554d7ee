SPECIFICATION Spec
CONSTANTS
    Alarms = {a1, a2}
    ListHead = ListHead
    NoAlarm = NoAlarm
    TickMod = 8
    Intervals = {0, 2, 6}
    Returns = {0, 1, 3, 7}
    US = 6
    Rate = 3
    TimeWord = 32
    MaxTicks = 15
    SetSecs = {0, 4}
    SleepWord = 128
    TurnsPerUs = 3
    LineWords = 2
    CacheLines = 2
    MemLines = 4
    Regions <- MCRegions
    Discarded <- MCDiscarded
    CacheBlocks <- MCCacheBlocks
    IsrWords = {5, 6}
    null = null
    uart = uart
    eth = eth
    zip = zip
    NoFile = NoFile
    NullDevice = null
    Devices <- MCDevices
    FsList <- MCFsList
    NameOf <- MCNameOf
    Names <- MCNames
    StdName <- MCStdName
    Drivers <- MCFunctions
    MaxFd = 5
    Tuned = {4}
    Bits = 2
    DeviceAddr = 2
    Foreign = {0}
    I2cLens = {2}
    Data = {1, 3}
    I2cMem0 <- MCI2cMem0
    Sectors = 2
    SectorSize = 4
    PageSize = 2
    Ones = {0}
    Kinds <- MCKinds
    ChunkSize = 2
    BufSize = 3
    FlashLens = {3}
    FlashMem0 <- MCFlashMem0
    Starts = {1, 2, 7, 8}
    MaxResets = 1
INVARIANTS
    DriversTypeOK
    ShowsTrueTime
    SleepsEnough
    ModesKept
    ContentsTrue
PROPERTIES
    AlarmsOnTime
    WritesKept
    FilesKept
    BusKept
    TransfersTrue
