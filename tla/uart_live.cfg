SPECIFICATION LiveSpec
CONSTANTS
    BufLen = 2
    FifoLen = 1
    Threshold = 0
    IntMax = 4
    DefaultTimeout = 2
    Numbers = 4
    Programs <- MC_OneWay
    Lengths = {2}
    TimeoutArgs = {0}
PROPERTIES
    CallsReturn
    BytesArrive
