SPECIFICATION FileSpec
CONSTANTS
    null = null
    uart = uart
    eth = eth
    zip = zip
    NoFile = NoFile
    NullDevice = null
    Devices <- MCDevices
    FsList <- MCFsList
    NameOf <- MCNameOf
    Names <- MCNames
    StdName <- MCStdName
    Drivers <- MCFunctions
    MaxFd = 5
    Tuned = {4}
INVARIANTS
    ReleasedByClose
