SPECIFICATION Spec
CONSTANTS
    BufLen = 3
    FifoLen = 1
    Threshold = 0
    IntMax = 4
    DefaultTimeout = 2
    Numbers = 4
    Programs <- MC_OneWay
    Lengths = {0, 1, 3}
    TimeoutArgs = {}
INVARIANTS
    RingsKept
PROPERTIES
    RxIsChannel
    TxIsChannel
